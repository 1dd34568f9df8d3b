--------------------------- MODULE ThreadSuspend ---------------------------
(* Suspension of threads in the Dalvik VM: Thread.cpp of                   *)
(* src/doc/dalvik.git-android-4.3_r3-vm, with the requests of the debugger *)
(* (jdwp/JdwpHandler.cpp, JdwpMain.cpp) and the events that suspend a      *)
(* thread or all of them (jdwp/JdwpEvent.cpp).                             *)
(*                                                                         *)
(* What is done under threadSuspendCountLock is one step.  A thread's      *)
(* status is written by the thread alone and read without a lock.          *)
EXTENDS Naturals, Integers, FiniteSets

CONSTANTS Mutators,   \* threads that run managed code
          Jdwp,       \* the thread that serves the debugger
          Nobody,     \* no thread
          Policies,   \* suspend policies of the events: "all", "thread"
          Requests,   \* bound: what the debugger asks for
          Collectors, \* bound: the threads that collect garbage,
          Posters,    \* that hit breakpoints,
          Listers,    \* and that call natives which lock the thread list
          MaxCount,   \* bounds: no new debugger activity with a count there,
          MaxDebt     \* or with a debugger's share that is further below 0

Threads == Mutators \cup {Jdwp}

ASSUME SuspendAssumption ==
    /\ IsFiniteSet(Mutators)
    /\ Jdwp \notin Mutators /\ Nobody \notin Threads
    /\ Policies \subseteq {"all", "thread"}
    /\ Requests \subseteq {"suspendVM", "resumeVM", "suspend", "resume"}
    /\ Collectors \subseteq Mutators /\ Posters \subseteq Mutators
    /\ Listers \subseteq Mutators
    /\ MaxCount \in Nat /\ MaxDebt \in Nat

VARIABLES
    status,          \* ThreadStatus
    suspendCount,    \* all suspensions of a thread
    dbgSuspendCount, \* those by the debugger among them
    pc,              \* where each thread is
    saved,           \* oldStatus, restored after a sleep or a lock
    cont,            \* where it goes on after a sleep (else "run")
    cause,           \* the SuspendCause of its suspend-all or resume-all
    todo,            \* the threads that it has still to see stopped
    asleep,          \* threads that wait on threadSuspendCountCond
    suspendLock,     \* _threadSuspendLock
    listLock,        \* threadListLock
    eventThread,     \* eventThreadId: the thread that posts an event
    request,         \* what the debugger has asked for
    robbed           \* history: threads from whose count the debugger has
                     \* taken more than its own share

countVars == <<suspendCount, dbgSuspendCount>>
lockVars == <<suspendLock, listLock, eventThread>>
vars == <<status, countVars, pc, saved, cont, cause, todo, asleep, lockVars,
          request, robbed>>

Init ==
    /\ status = [t \in Threads |-> IF t = Jdwp THEN "VMWAIT" ELSE "RUNNING"]
    /\ suspendCount = [t \in Threads |-> 0]
    /\ dbgSuspendCount = [t \in Threads |-> 0]
    /\ pc = [t \in Threads |-> IF t = Jdwp THEN "idle" ELSE "run"]
    /\ saved = [t \in Threads |-> "RUNNING"]
    /\ cont = [t \in Threads |-> "run"]
    /\ cause = [t \in Threads |-> "none"]
    /\ todo = [t \in Threads |-> {}]
    /\ asleep = {}
    /\ suspendLock = Nobody /\ listLock = Nobody /\ eventThread = Nobody
    /\ request = "none"
    /\ robbed = {}

At(t, p) == pc[t] = p
Goto(t, p) == pc' = [pc EXCEPT ![t] = p]
Become(t, s) == status' = [status EXCEPT ![t] = s]

(* dvmAddToSuspendCounts, for the threads in S                             *)
AddToSuspendCounts(S, delta, dbgDelta) ==
    /\ suspendCount' =
           [t \in Threads |-> suspendCount[t] + IF t \in S THEN delta ELSE 0]
    /\ dbgSuspendCount' =
           [t \in Threads |-> dbgSuspendCount[t] + IF t \in S THEN dbgDelta ELSE 0]

-----------------------------------------------------------------------------
(* The sleep of fullSuspendCheck; the thread goes on at p.                 *)
Sleep(t, p) ==
    /\ Become(t, "SUSPENDED")
    /\ saved' = [saved EXCEPT ![t] = status[t]]
    /\ cont' = [cont EXCEPT ![t] = p]
    /\ asleep' = asleep \cup {t}
    /\ Goto(t, "sleep")

(* A broadcast wakes everybody; who is still suspended sleeps again.       *)
Woken(t) == At(t, "sleep") /\ t \notin asleep

GoOn(t) ==
    /\ Woken(t)
    /\ suspendCount[t] = 0
    /\ Become(t, saved[t])
    /\ Goto(t, cont[t])
    /\ saved' = [saved EXCEPT ![t] = "RUNNING"]
    /\ cont' = [cont EXCEPT ![t] = "run"]
    /\ UNCHANGED <<countVars, cause, todo, asleep, lockVars, request, robbed>>

SleepAgain(t) ==
    /\ Woken(t)
    /\ suspendCount[t] # 0
    /\ asleep' = asleep \cup {t}
    /\ UNCHANGED <<status, countVars, pc, saved, cont, cause, todo, lockVars,
                   request, robbed>>

(* dvmCheckSuspendPending, from the interpreter                            *)
SafePoint(t) ==
    /\ At(t, "run")
    /\ suspendCount[t] # 0
    /\ Sleep(t, "run")
    /\ UNCHANGED <<countVars, cause, todo, lockVars, request, robbed>>

(* dvmChangeStatus: a thread that goes on in RUNNING stores its status     *)
(* first and reads its suspend count then.                                 *)
CallNative(t) ==
    /\ At(t, "run")
    /\ t \in Mutators
    /\ Become(t, "NATIVE")
    /\ Goto(t, "native")
    /\ UNCHANGED <<countVars, saved, cont, cause, todo, asleep, lockVars,
                   request, robbed>>

(* Mutant: the count is not read. *)
ReturnUnchecked(t) ==
    /\ At(t, "native")
    /\ Become(t, "RUNNING")
    /\ Goto(t, "run")
    /\ UNCHANGED <<countVars, saved, cont, cause, todo, asleep, lockVars,
                   request, robbed>>

Return(t) ==
    /\ At(t, "native")
    /\ Become(t, "RUNNING")
    /\ Goto(t, "check")
    /\ UNCHANGED <<countVars, saved, cont, cause, todo, asleep, lockVars,
                   request, robbed>>

AfterCheck(t) == IF t # Jdwp THEN "run"
                 ELSE IF request = "disconnect" THEN "drop" ELSE "handle"

(* A thread that has come back from dvmLockThreadList passes no check, and *)
(* runs on to its next safepoint.                                          *)
CheckSuspend(t) ==
    /\ pc[t] \in {"check", "unchecked"}
    /\ IF suspendCount[t] = 0
       THEN /\ Goto(t, AfterCheck(t))
            /\ UNCHANGED <<status, saved, cont, asleep>>
       ELSE Sleep(t, AfterCheck(t))
    /\ UNCHANGED <<countVars, cause, todo, lockVars, request, robbed>>

-----------------------------------------------------------------------------
(* dvmSuspendAllThreads and dvmResumeAllThreads                            *)
Collect(t) ==
    /\ pc[t] \in {"run", "unchecked"}
    /\ t \in Collectors
    /\ cause' = [cause EXCEPT ![t] = "gc"]
    /\ Goto(t, "suspend")
    /\ UNCHANGED <<status, countVars, saved, cont, todo, asleep, lockVars,
                   request, robbed>>

(* Mutant: the thread blocks on the lock. *)
LockSuspendBlocking(t) ==
    /\ pc[t] \in {"suspend", "resume"}
    /\ suspendLock = Nobody
    /\ suspendLock' = t
    /\ saved' = [saved EXCEPT ![t] = status[t]]
    /\ Become(t, "VMWAIT")
    /\ Goto(t, IF At(t, "suspend") THEN "suspendList" ELSE "resumeList")
    /\ UNCHANGED <<countVars, cont, cause, todo, asleep, listLock, eventThread,
                   request, robbed>>

(* lockThreadSuspend: try the lock, and on failure look for a suspension,  *)
(* so as not to keep the holder waiting.  With the lock, the thread is in  *)
(* VMWAIT until it has the thread list.  The abort after 3 s without the   *)
(* lock is left out.                                                       *)
LockSuspend(t) ==
    /\ pc[t] \in {"suspend", "resume"}
    /\ \/ /\ suspendLock = Nobody
          /\ suspendLock' = t
          /\ saved' = [saved EXCEPT ![t] = status[t]]
          /\ Become(t, "VMWAIT")
          /\ Goto(t, IF At(t, "suspend") THEN "suspendList" ELSE "resumeList")
          /\ UNCHANGED <<cont, asleep>>
       \/ /\ suspendLock # Nobody
          /\ suspendCount[t] # 0
          /\ Sleep(t, pc[t])
          /\ UNCHANGED suspendLock
    /\ UNCHANGED <<countVars, cause, todo, listLock, eventThread, request,
                   robbed>>

(* dvmLockThreadList restores the status without a look at the count.      *)
LockList(t) ==
    /\ listLock = Nobody
    /\ listLock' = t
    /\ Become(t, saved[t])

Debug(c) == c \in {"debug", "event"}
Others(t) == Threads \ {t}
Affected(t) == Others(t) \ IF cause[t] = "gc" THEN {} ELSE {Jdwp}

SuspendOthers(t) ==
    /\ At(t, "suspendList")
    /\ LockList(t)
    /\ AddToSuspendCounts(Affected(t), 1, IF Debug(cause[t]) THEN 1 ELSE 0)
    /\ todo' = [todo EXCEPT ![t] = Affected(t)]
    /\ Goto(t, "await")
    /\ UNCHANGED <<saved, cont, cause, asleep, suspendLock, eventThread,
                   request, robbed>>

(* waitForThreadSuspend, for one thread after the other                    *)
SeeStopped(t) ==
    /\ At(t, "await")
    /\ \E u \in todo[t] :
        /\ status[u] # "RUNNING"
        /\ todo' = [todo EXCEPT ![t] = @ \ {u}]
    /\ UNCHANGED <<status, countVars, pc, saved, cont, cause, asleep, lockVars,
                   request, robbed>>

AllStopped(t) ==
    /\ At(t, "await")
    /\ todo[t] = {}
    /\ listLock' = Nobody
    /\ suspendLock' = IF suspendLock = t THEN Nobody ELSE suspendLock
    /\ Goto(t, CASE cause[t] = "gc" -> "stopped"
                 [] cause[t] = "event" -> "self"
                 [] OTHER -> "reply")
    /\ UNCHANGED <<status, countVars, saved, cont, cause, todo, asleep,
                   eventThread, request, robbed>>

EndGc(t) ==
    /\ At(t, "stopped")
    /\ Goto(t, "resume")
    /\ UNCHANGED <<status, countVars, saved, cont, cause, todo, asleep, lockVars,
                   request, robbed>>

(* The thread list is locked and unlocked within this step.                *)
PassList(t) == listLock = Nobody /\ Become(t, saved[t])

(* Mutant: the counts are lowered without a look at them. *)
ResumeAny(t) ==
    /\ At(t, "resumeList") /\ cause[t] # "undo"
    /\ PassList(t)
    /\ AddToSuspendCounts(Affected(t), -1, IF Debug(cause[t]) THEN -1 ELSE 0)
    /\ cause' = [cause EXCEPT ![t] = "none"]
    /\ suspendLock' = Nobody
    /\ Goto(t, "broadcast")
    /\ UNCHANGED <<saved, cont, todo, asleep, listLock, eventThread, request,
                   robbed>>

(* Mutant: every resume counts as one of the debugger. *)
ResumeAsDebugger(t) ==
    /\ At(t, "resumeList") /\ cause[t] # "undo"
    /\ PassList(t)
    /\ AddToSuspendCounts({u \in Affected(t) : suspendCount[u] > 0}, -1, -1)
    /\ cause' = [cause EXCEPT ![t] = "none"]
    /\ suspendLock' = Nobody
    /\ Goto(t, "broadcast")
    /\ UNCHANGED <<saved, cont, todo, asleep, listLock, eventThread, request,
                   robbed>>

(* Mutant: nobody is woken. *)
ResumeSilently(t) ==
    /\ At(t, "resumeList") /\ cause[t] # "undo"
    /\ PassList(t)
    /\ AddToSuspendCounts({u \in Affected(t) : suspendCount[u] > 0}, -1,
                          IF Debug(cause[t]) THEN -1 ELSE 0)
    /\ cause' = [cause EXCEPT ![t] = "none"]
    /\ suspendLock' = Nobody
    /\ Goto(t, IF t = Jdwp THEN "reply" ELSE "run")
    /\ UNCHANGED <<saved, cont, todo, asleep, listLock, eventThread, request,
                   robbed>>

ResumeOthers(t) ==
    /\ At(t, "resumeList") /\ cause[t] # "undo"
    /\ PassList(t)
    /\ AddToSuspendCounts({u \in Affected(t) : suspendCount[u] > 0}, -1,
                          IF Debug(cause[t]) THEN -1 ELSE 0)
    /\ cause' = [cause EXCEPT ![t] = "none"]
    /\ suspendLock' = Nobody
    /\ Goto(t, "broadcast")
    /\ UNCHANGED <<saved, cont, todo, asleep, listLock, eventThread, request,
                   robbed>>

(* dvmUndoDebuggerSuspensions broadcasts with the lock still held.         *)
UndoDebuggerSuspensions ==
    /\ At(Jdwp, "resumeList") /\ cause[Jdwp] = "undo"
    /\ PassList(Jdwp)
    /\ suspendCount' = [t \in Threads |-> suspendCount[t] -
                            IF t = Jdwp THEN 0 ELSE dbgSuspendCount[t]]
    /\ dbgSuspendCount' = [t \in Threads |-> IF t = Jdwp THEN dbgSuspendCount[t]
                                            ELSE 0]
    /\ cause' = [cause EXCEPT ![Jdwp] = "none"]
    /\ Goto(Jdwp, "broadcast")
    /\ UNCHANGED <<saved, cont, todo, asleep, lockVars, request, robbed>>

Broadcast(t) ==
    /\ At(t, "broadcast")
    /\ asleep' = {}
    /\ suspendLock' = IF suspendLock = t THEN Nobody ELSE suspendLock
    /\ Goto(t, IF t = Jdwp THEN "reply" ELSE "run")
    /\ UNCHANGED <<status, countVars, saved, cont, cause, todo, listLock,
                   eventThread, request, robbed>>

-----------------------------------------------------------------------------
(* Natives like VMThread.getStatus, which lock the list in RUNNING         *)
ListThreads(t) ==
    /\ pc[t] \in {"run", "unchecked"}
    /\ t \in Listers
    /\ saved' = [saved EXCEPT ![t] = status[t]]
    /\ Become(t, "VMWAIT")
    /\ Goto(t, "list")
    /\ UNCHANGED <<countVars, cont, cause, todo, asleep, lockVars, request,
                   robbed>>

HoldList(t) ==
    /\ At(t, "list") /\ t \in Mutators
    /\ LockList(t)
    /\ Goto(t, "listed")
    /\ UNCHANGED <<countVars, saved, cont, cause, todo, asleep, suspendLock,
                   eventThread, request, robbed>>

UnlockList(t) ==
    /\ At(t, "listed")
    /\ listLock' = Nobody
    /\ Goto(t, "unchecked")
    /\ UNCHANGED <<status, countVars, saved, cont, cause, todo, asleep,
                   suspendLock, eventThread, request, robbed>>

-----------------------------------------------------------------------------
WithinBound ==
    \A u \in Threads :
        suspendCount[u] < MaxCount /\ dbgSuspendCount[u] + MaxDebt >= 0

(* dvmJdwpPostLocationEvent and suspendByPolicy: the thread is in VMWAIT   *)
(* from before it takes the event token until it has suspended itself.     *)
PostEvent(t) ==
    /\ At(t, "run")
    /\ t \in Posters
    /\ WithinBound
    /\ Become(t, "VMWAIT")
    /\ Goto(t, "event")
    /\ UNCHANGED <<countVars, saved, cont, cause, todo, asleep, lockVars,
                   request, robbed>>

SetWaitForEventThread(t) ==
    /\ At(t, "event")
    /\ eventThread = Nobody
    /\ eventThread' = t
    /\ cause' = [cause EXCEPT ![t] = "event"]
    /\ \E policy \in Policies :
           Goto(t, IF policy = "all" THEN "suspend" ELSE "self")
    /\ UNCHANGED <<status, countVars, saved, cont, todo, asleep, suspendLock,
                   listLock, request, robbed>>

(* dvmSuspendSelf, which gives the token back and comes back in RUNNING    *)
SuspendSelf(t) ==
    /\ At(t, "self")
    /\ AddToSuspendCounts({t}, 1, 1)
    /\ Become(t, "SUSPENDED")
    /\ saved' = [saved EXCEPT ![t] = "RUNNING"]
    /\ cont' = [cont EXCEPT ![t] = "run"]
    /\ asleep' = asleep \cup {t}
    /\ Goto(t, "sleep")
    /\ cause' = [cause EXCEPT ![t] = "none"]
    /\ eventThread' = Nobody
    /\ UNCHANGED <<todo, suspendLock, listLock, request, robbed>>

-----------------------------------------------------------------------------
(* The debugger's thread waits for a packet in VMWAIT.  When the debugger  *)
(* goes, what it has suspended is resumed; after DDMS activity, a          *)
(* broadcast to the program comes first, in RUNNING.                       *)
Receive ==
    /\ At(Jdwp, "idle")
    /\ WithinBound
    /\ \E r \in Requests : request' = r
    /\ Goto(Jdwp, "request")
    /\ UNCHANGED <<status, countVars, saved, cont, cause, todo, asleep, lockVars,
                   robbed>>

Disconnect ==
    /\ At(Jdwp, "idle")
    /\ request' = "disconnect"
    /\ \/ /\ Become(Jdwp, "RUNNING")
          /\ Goto(Jdwp, "check")
          /\ UNCHANGED cause
       \/ /\ Goto(Jdwp, "resume")
          /\ cause' = [cause EXCEPT ![Jdwp] = "undo"]
          /\ UNCHANGED status
    /\ UNCHANGED <<countVars, saved, cont, todo, asleep, lockVars, robbed>>

DdmDisconnected ==
    /\ At(Jdwp, "drop")
    /\ Become(Jdwp, "VMWAIT")
    /\ Goto(Jdwp, "resume")
    /\ cause' = [cause EXCEPT ![Jdwp] = "undo"]
    /\ UNCHANGED <<countVars, saved, cont, todo, asleep, lockVars, request,
                   robbed>>

(* dvmJdwpProcessRequest: the thread of an event suspends itself first.    *)
ProcessRequest ==
    /\ At(Jdwp, "request")
    /\ eventThread = Nobody
    /\ Become(Jdwp, "RUNNING")
    /\ Goto(Jdwp, "check")
    /\ UNCHANGED <<countVars, saved, cont, cause, todo, asleep, lockVars,
                   request, robbed>>

Handle ==
    /\ At(Jdwp, "handle")
    /\ IF request \in {"suspendVM", "resumeVM"}
       THEN /\ cause' = [cause EXCEPT ![Jdwp] = "debug"]
            /\ Goto(Jdwp, IF request = "suspendVM" THEN "suspend" ELSE "resume")
            /\ UNCHANGED <<status, saved>>
       ELSE /\ saved' = [saved EXCEPT ![Jdwp] = status[Jdwp]]
            /\ Become(Jdwp, "VMWAIT")
            /\ Goto(Jdwp, "list")
            /\ UNCHANGED cause
    /\ UNCHANGED <<countVars, cont, todo, asleep, lockVars, request, robbed>>

(* dvmDbgSuspendThread and dvmDbgResumeThread, with the list locked.  The  *)
(* resume looks at the thread's count, and not at the debugger's share.    *)
OneThread ==
    /\ At(Jdwp, "list")
    /\ \E u \in Mutators :
        IF request = "suspend"
        THEN /\ LockList(Jdwp)
             /\ AddToSuspendCounts({u}, 1, 1)
             /\ todo' = [todo EXCEPT ![Jdwp] = {u}]
             /\ Goto(Jdwp, "await")
             /\ UNCHANGED <<asleep, robbed>>
        ELSE /\ PassList(Jdwp)
             /\ IF suspendCount[u] > 0
                THEN /\ AddToSuspendCounts({u}, -1, -1)
                     /\ robbed' = robbed \cup
                            IF dbgSuspendCount[u] <= 0 THEN {u} ELSE {}
                ELSE UNCHANGED <<countVars, robbed>>
             /\ asleep' = IF suspendCount'[u] = 0 THEN {} ELSE asleep
             /\ Goto(Jdwp, "reply")
             /\ UNCHANGED <<todo, listLock>>
    /\ UNCHANGED <<saved, cont, cause, suspendLock, eventThread, request>>

Reply ==
    /\ At(Jdwp, "reply")
    /\ Become(Jdwp, "VMWAIT")
    /\ Goto(Jdwp, "idle")
    /\ request' = "none"
    /\ cause' = [cause EXCEPT ![Jdwp] = "none"]
    /\ UNCHANGED <<countVars, saved, cont, todo, asleep, lockVars, robbed>>

-----------------------------------------------------------------------------
(* What a thread does once it has begun, and what it begins.               *)
Step(t) ==
    \/ GoOn(t) \/ SleepAgain(t) \/ SafePoint(t) \/ CheckSuspend(t)
    \/ LockSuspend(t)
    \/ SuspendOthers(t) \/ SeeStopped(t) \/ AllStopped(t) \/ EndGc(t)
    \/ ResumeOthers(t) \/ Broadcast(t) \/ HoldList(t) \/ UnlockList(t)
    \/ SetWaitForEventThread(t) \/ SuspendSelf(t)

JdwpStep ==
    \/ UndoDebuggerSuspensions \/ DdmDisconnected \/ ProcessRequest
    \/ Handle \/ OneThread \/ Reply

Begin(t) ==
    \/ CallNative(t) \/ Return(t) \/ Collect(t) \/ ListThreads(t)
    \/ PostEvent(t)

Next ==
    \/ \E t \in Threads : Step(t)
    \/ \E t \in Mutators : Begin(t)
    \/ JdwpStep \/ Receive \/ Disconnect

Spec == Init /\ [][Next]_vars

(* The scheduler runs every thread.                                        *)
Fairness ==
    /\ \A t \in Threads : WF_vars(Step(t))
    /\ WF_vars(JdwpStep)

FairSpec == Spec /\ Fairness

(* Besides, a thread that is resumed again and again goes on, and that of  *)
(* the debugger gets a lock that becomes free again and again.             *)
LocksFair ==
    /\ \A t \in Threads : SF_vars(GoOn(t))
    /\ SF_vars(LockSuspend(Jdwp)) /\ SF_vars(UndoDebuggerSuspensions)

FairLocksSpec == FairSpec /\ LocksFair

-----------------------------------------------------------------------------
TypeOK ==
    /\ status \in [Threads -> {"RUNNING", "NATIVE", "VMWAIT", "SUSPENDED"}]
    /\ suspendCount \in [Threads -> Nat]
    /\ dbgSuspendCount \in [Threads -> Int]
    /\ \A t \in Threads \ robbed : dbgSuspendCount[t] >= 0
    /\ pc \in [Threads -> {"run", "native", "check", "unchecked", "sleep",
            "suspend", "suspendList", "await", "stopped", "self", "resume",
            "resumeList", "broadcast", "list", "listed", "event", "idle",
            "request", "handle", "drop", "reply"}]
    /\ saved \in [Threads -> {"RUNNING", "NATIVE", "VMWAIT", "SUSPENDED"}]
    /\ cont \in [Threads -> {"run", "handle", "drop", "suspend", "resume"}]
    /\ cause \in [Threads -> {"none", "gc", "debug", "event", "undo"}]
    /\ todo \in [Threads -> SUBSET Threads]
    /\ asleep \subseteq Threads
    /\ {suspendLock, listLock, eventThread} \subseteq Threads \cup {Nobody}
    /\ request \in Requests \cup {"none", "disconnect"}
    /\ robbed \subseteq Mutators

(* While a thread has stopped the world, no other thread runs managed code *)
(* or works for the debugger.  Two kinds of thread escape the code's       *)
(* checks: one that has just come out of dvmLockThreadList, until its next *)
(* safepoint, and one that the debugger has resumed although a collection  *)
(* held it.                                                                *)
AtWork(u) == pc[u] \in {"run", "handle", "drop"}

StopTheWorld ==
    \A t, u \in Threads :
        At(t, "stopped") /\ t # u /\ u \notin robbed => ~AtWork(u)

(* The counts tell the two parties apart: what is left of a thread's count *)
(* without the debugger's share are the collections that hold it.  Where   *)
(* the debugger has taken more than its share, it is no less.              *)
Holds(t) ==
    /\ cause[t] = "gc"
    /\ \/ pc[t] \in {"await", "stopped", "resume", "resumeList"}
       \/ At(t, "sleep") /\ cont[t] = "resume"

Holders(u) == Cardinality({t \in Others(u) : Holds(t)})

CountsCover ==
    \A u \in Threads :
        /\ suspendCount[u] - dbgSuspendCount[u] >= Holders(u)
        /\ u \notin robbed => suspendCount[u] - dbgSuspendCount[u] = Holders(u)

(* A thread that sleeps although its count is zero is about to be woken:   *)
(* no broadcast is lost between the two locks of a resume.                 *)
SleeperHasWaker ==
    \A t \in asleep : suspendCount[t] = 0 =>
        \E u \in Threads : At(u, "broadcast")

(* Whoever has asked the others to stop, sees them stop.                   *)
SuspendAllCompletes ==
    \A t \in Threads : []<>~At(t, "await")

(* "The debugger is not allowed to resume threads suspended by the GC.     *)
(* This is trivially enforced by ignoring debugger requests while the GC   *)
(* is running": the debugger resumes nobody into a stopped world.          *)
GcKeepsThreads ==
    \A t \in Threads : \A u \in robbed : At(t, "stopped") /\ t # u => ~AtWork(u)

(* "... is not allowed to run again until the debugger resumes it (or      *)
(* disconnects, in which case we must resume all debugger-suspended        *)
(* threads)."                                                              *)
DisconnectResumes == request = "disconnect" ~> request = "none"

=============================================================================
