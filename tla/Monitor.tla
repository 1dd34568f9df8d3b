------------------------------ MODULE Monitor ------------------------------
(* The lock of one Java object in the Dalvik VM, Sync.cpp of               *)
(* src/doc/dalvik.git-android-4.3_r3-vm/: a lock word that starts as a     *)
(* thin lock (owner and recursion count in the word, taken by CAS) and is  *)
(* fattened into a Monitor with a pthread mutex when a thread contends for *)
(* it, waits on it, or nests too deep; and wait, notify, notifyAll and     *)
(* Thread.interrupt on top of it.                                          *)
(*                                                                         *)
(* Steps of one thread that no other thread can tell apart are one action: *)
(* those on the fields a mutex guards while it is held, and all of         *)
(* inflateMonitor, whose Monitor is private until the word is stored.  The *)
(* hash bits of the word (WITH_COPYING_GC) and lock sampling are left out. *)
EXTENDS Naturals, Sequences, SequencesExt

CONSTANTS Threads,    \* attached threads
          NoThread,   \* thread id 0, a NULL Thread*
          CountMask,  \* LW_LOCK_COUNT_MASK, the largest count of a thin lock
          MaxNesting, \* bound: how deep the program nests monitorenter
          Waiters,    \* bound: the threads that wait and are interrupted
          Callers,    \* bound: the threads that interrupt
          Modes       \* bound: the kinds of wait

ASSUME MonitorAssumption ==
    /\ NoThread \notin Threads
    /\ CountMask \in Nat \ {0}
    /\ MaxNesting \in Nat
    /\ Waiters \subseteq Threads
    /\ Callers \subseteq Threads
    /\ Modes \subseteq {"wait", "timed", "init"}

VARIABLES
    word,           \* obj->lock
    mutex,          \* mon->lock, the pthread mutex: its holder
    owner,          \* mon->owner
    lockCount,      \* mon->lockCount
    waitSet,        \* mon->waitSet, linked by Thread.waitNext
    pc,             \* where each thread is
    status,         \* Thread.status
    mode,           \* arguments of the wait: "wait", "timed" or "init"
    prevLockCount,  \* local of waitMonitor
    wasInterrupted, \* local of waitMonitor, and of VMThread.interrupted
    waitMonitor,    \* Thread.waitMonitor # NULL
    interrupted,    \* Thread.interrupted
    signaled,       \* a signal is pending on Thread.waitCond
    target,         \* local "thread" of notifyMonitor, notifyAllMonitor
    held,           \* how deep the program has nested monitorenter (history)
    owed            \* what became of the last interrupt (history)

wordVars == <<word, mutex, owner, lockCount>>
waitVars == <<mode, prevLockCount, wasInterrupted, waitMonitor, signaled>>
intrVars == <<interrupted, owed>>
vars == <<wordVars, waitSet, pc, status, waitVars, intrVars, target, held>>

-----------------------------------------------------------------------------
Thin(t, n) == [fat |-> FALSE, owner |-> t, count |-> n]
Unowned == Thin(NoThread, 0)
Fat == [fat |-> TRUE, owner |-> NoThread, count |-> 0]

ThinOwned(t) == ~word.fat /\ word.owner = t
FatOwned(t) == word.fat /\ owner = t

Goto(t, label) == pc' = [pc EXCEPT ![t] = label]

(* the store in dvmChangeStatus; that a thread which goes back to RUNNING   *)
(* may have to sleep first is the subject of module ThreadSuspend           *)
SetStatus(t, s) == status' = [status EXCEPT ![t] = s]

(* inflateMonitor: a new Monitor, locked by t, takes over the count n *)
Inflate(t, n) == /\ word' = Fat
                 /\ mutex' = t
                 /\ owner' = t
                 /\ lockCount' = n

WaitStatus(t) == IF mode[t] = "timed" THEN "TIMED_WAIT" ELSE "WAIT"

Returned(t) == /\ Goto(t, "run")
               /\ held' = [held EXCEPT ![t] = @ + 1]

Init == /\ word = Unowned
        /\ mutex = NoThread
        /\ owner = NoThread
        /\ lockCount = 0
        /\ waitSet = <<>>
        /\ pc = [t \in Threads |-> "run"]
        /\ status = [t \in Threads |-> "RUNNING"]
        /\ mode = [t \in Threads |-> "wait"]
        /\ prevLockCount = [t \in Threads |-> 0]
        /\ wasInterrupted = [t \in Threads |-> FALSE]
        /\ waitMonitor = [t \in Threads |-> FALSE]
        /\ interrupted = [t \in Threads |-> FALSE]
        /\ signaled = [t \in Threads |-> FALSE]
        /\ target = [t \in Threads |-> NoThread]
        /\ held = [t \in Threads |-> 0]
        /\ owed = [t \in Threads |-> "none"]

-----------------------------------------------------------------------------
(* dvmLockObject *)

CallLock(t) == /\ pc[t] = "run"
               /\ held[t] < MaxNesting
               /\ Goto(t, "lock")
               /\ UNCHANGED <<wordVars, waitSet, status, waitVars, intrVars,
                              target, held>>

LockThinOwned(t) ==
    /\ pc[t] = "lock"
    /\ ThinOwned(t)
    /\ IF word.count + 1 = CountMask
       THEN Inflate(t, word.count + 1)
       ELSE /\ word' = Thin(t, word.count + 1)
            /\ UNCHANGED <<mutex, owner, lockCount>>
    /\ Returned(t)
    /\ UNCHANGED <<waitSet, status, waitVars, intrVars, target>>

(* an unowned word was read; the compare-and-swap is a later step *)
LockThinUnowned(t) ==
    /\ pc[t] = "lock"
    /\ ThinOwned(NoThread)
    /\ Goto(t, "cas")
    /\ UNCHANGED <<wordVars, waitSet, status, waitVars, intrVars, target, held>>

Cas(t) ==
    /\ pc[t] = "cas"
    /\ \/ /\ word = Unowned
          /\ word' = Thin(t, 0)
          /\ Returned(t)
       \/ /\ word # Unowned
          /\ Goto(t, "lock")
          /\ UNCHANGED <<word, held>>
    /\ UNCHANGED <<mutex, owner, lockCount, waitSet, status, waitVars, intrVars,
                   target>>

LockThinContended(t) ==
    /\ pc[t] = "lock"
    /\ ~word.fat
    /\ word.owner \notin {t, NoThread}
    /\ SetStatus(t, "MONITOR")
    /\ Goto(t, "spin")
    /\ UNCHANGED <<wordVars, waitSet, waitVars, intrVars, target, held>>

(* one look at the word of the loop that spins until it is free or fat *)
Spin(t) ==
    /\ pc[t] = "spin"
    /\ \/ /\ ThinOwned(NoThread)
          /\ Goto(t, "spincas")
          /\ UNCHANGED status
       \/ /\ word.fat
          /\ SetStatus(t, "RUNNING")
          /\ Goto(t, "lock")
    /\ UNCHANGED <<wordVars, waitSet, waitVars, intrVars, target, held>>

\* Mutant: the spinning thread stores its id without comparing.
SpinStore(t) ==
    /\ pc[t] = "spincas"
    /\ word' = Thin(t, 0)
    /\ Goto(t, "fatten")
    /\ UNCHANGED <<mutex, owner, lockCount, waitSet, status, waitVars, intrVars,
                   target, held>>

SpinCas(t) ==
    /\ pc[t] = "spincas"
    /\ \/ /\ word = Unowned
          /\ word' = Thin(t, 0)
          /\ Goto(t, "fatten")
       \/ /\ word # Unowned
          /\ Goto(t, "spin")
          /\ UNCHANGED word
    /\ UNCHANGED <<mutex, owner, lockCount, waitSet, status, waitVars, intrVars,
                   target, held>>

Fatten(t) ==
    /\ pc[t] = "fatten"
    /\ SetStatus(t, "RUNNING")
    /\ Inflate(t, word.count)
    /\ Returned(t)
    /\ UNCHANGED <<waitSet, waitVars, intrVars, target>>

LockFat(t) ==
    /\ pc[t] = "lock"
    /\ word.fat
    /\ Goto(t, "monitor")
    /\ UNCHANGED <<wordVars, waitSet, status, waitVars, intrVars, target, held>>

-----------------------------------------------------------------------------
(* lockMonitor, called by dvmLockObject ("monitor") and, at the end of a    *)
(* wait, by waitMonitor ("relock")                                          *)

MonitorReenter(t) ==
    /\ pc[t] = "monitor"
    /\ owner = t
    /\ lockCount' = lockCount + 1
    /\ Returned(t)
    /\ UNCHANGED <<word, mutex, owner, waitSet, status, waitVars, intrVars, target>>

TakeMutex(t) == /\ mutex = NoThread
                /\ mutex' = t
                /\ owner' = t
                /\ UNCHANGED <<word, lockCount>>

MonitorEnter(t) ==
    /\ \/ pc[t] = "monitor" /\ owner # t /\ UNCHANGED status
       \/ pc[t] = "blocked" /\ SetStatus(t, "RUNNING")
    /\ TakeMutex(t)
    /\ Returned(t)
    /\ UNCHANGED <<waitSet, waitVars, intrVars, target>>

MonitorReturn(t) ==
    /\ \/ pc[t] = "relock" /\ UNCHANGED status
       \/ pc[t] = "reblocked" /\ SetStatus(t, WaitStatus(t))
    /\ TakeMutex(t)
    /\ Goto(t, "done")
    /\ UNCHANGED <<waitSet, waitVars, intrVars, target, held>>

MonitorBusy(t) ==
    /\ \/ pc[t] = "monitor" /\ owner # t /\ Goto(t, "blocked")
       \/ pc[t] = "relock" /\ Goto(t, "reblocked")
    /\ mutex # NoThread
    /\ SetStatus(t, "MONITOR")
    /\ UNCHANGED <<wordVars, waitSet, waitVars, intrVars, target, held>>

-----------------------------------------------------------------------------
(* dvmUnlockObject.  A caller that does not own the lock gets an           *)
(* IllegalMonitorStateException and changes nothing: it takes no step here. *)

\* Mutant: an exit frees a nested thin lock.
UnlockThinWhole(t) ==
    /\ pc[t] = "run"
    /\ ThinOwned(t)
    /\ word' = Unowned
    /\ held' = [held EXCEPT ![t] = @ - 1]
    /\ UNCHANGED <<mutex, owner, lockCount, waitSet, pc, status, waitVars,
                   intrVars, target>>

UnlockThin(t) ==
    /\ pc[t] = "run"
    /\ ThinOwned(t)
    /\ word' = IF word.count = 0 THEN Unowned ELSE Thin(t, word.count - 1)
    /\ held' = [held EXCEPT ![t] = @ - 1]
    /\ UNCHANGED <<mutex, owner, lockCount, waitSet, pc, status, waitVars,
                   intrVars, target>>

\* Mutant: an exit lowers the count of a monitor that is not nested.
UnlockFatBlindly(t) ==
    /\ pc[t] = "run"
    /\ FatOwned(t)
    /\ owner' = NoThread /\ mutex' = NoThread /\ lockCount' = lockCount - 1
    /\ held' = [held EXCEPT ![t] = @ - 1]
    /\ UNCHANGED <<word, waitSet, pc, status, waitVars, intrVars, target>>

UnlockFat(t) ==
    /\ pc[t] = "run"
    /\ FatOwned(t)
    /\ IF lockCount = 0
       THEN owner' = NoThread /\ mutex' = NoThread /\ UNCHANGED lockCount
       ELSE lockCount' = lockCount - 1 /\ UNCHANGED <<owner, mutex>>
    /\ held' = [held EXCEPT ![t] = @ - 1]
    /\ UNCHANGED <<word, waitSet, pc, status, waitVars, intrVars, target>>

-----------------------------------------------------------------------------
(* dvmObjectWait and waitMonitor.  thread->waitMutex is held only from     *)
(* WaitArm to WaitSleep; every other use of it is one step.                *)

\* Mutant: a notifier does not take the mutex of the thread it signals.
WaitMutexIgnored(t) == TRUE
WaitMutexFree(t) == pc[t] \notin {"release", "sleeping"}

(* fattens a thin lock, joins the wait set, gives up the nesting *)
WaitStart(t, m) ==
    /\ t \in Waiters
    /\ pc[t] = "run"
    /\ ThinOwned(t) \/ FatOwned(t)
    /\ word' = Fat
    /\ mutex' = t
    /\ prevLockCount' = [prevLockCount EXCEPT
                            ![t] = IF word.fat THEN lockCount ELSE word.count]
    /\ waitSet' = Append(waitSet, t)
    /\ lockCount' = 0
    /\ owner' = NoThread
    /\ mode' = [mode EXCEPT ![t] = m]
    /\ SetStatus(t, IF m = "timed" THEN "TIMED_WAIT" ELSE "WAIT")
    /\ Goto(t, "arm")
    /\ UNCHANGED <<wasInterrupted, waitMonitor, signaled, intrVars, target, held>>

(* takes waitMutex; an interrupt that came first ends the wait here, with  *)
(* mon->lock still held                                                    *)
WaitArm(t) ==
    /\ pc[t] = "arm"
    /\ waitMonitor' = [waitMonitor EXCEPT ![t] = ~interrupted[t]]
    /\ wasInterrupted' = [wasInterrupted EXCEPT ![t] = interrupted[t]]
    /\ Goto(t, IF interrupted[t] THEN "done" ELSE "release")
    /\ UNCHANGED <<wordVars, waitSet, status, mode, prevLockCount, signaled,
                   intrVars, target, held>>

WaitRelease(t) ==
    /\ pc[t] = "release"
    /\ mutex' = NoThread
    /\ Goto(t, "sleeping")
    /\ UNCHANGED <<word, owner, lockCount, waitSet, status, waitVars, intrVars,
                   target, held>>

(* pthread_cond_wait: gives up waitMutex and sleeps; a signal sent before   *)
(* that is gone, for a condition variable has no memory                    *)
WaitSleep(t) ==
    /\ pc[t] = "sleeping"
    /\ signaled' = [signaled EXCEPT ![t] = FALSE]
    /\ Goto(t, "asleep")
    /\ UNCHANGED <<wordVars, waitSet, status, mode, prevLockCount, wasInterrupted,
                   waitMonitor, intrVars, target, held>>

\* Mutant: the flag is cleared before it is looked at.
WakeUpDeaf(t) ==
    /\ pc[t] = "asleep"
    /\ wasInterrupted' = [wasInterrupted EXCEPT ![t] = FALSE]
    /\ interrupted' = [interrupted EXCEPT ![t] = FALSE]
    /\ waitMonitor' = [waitMonitor EXCEPT ![t] = FALSE]
    /\ signaled' = [signaled EXCEPT ![t] = FALSE]
    /\ Goto(t, "relock")
    /\ UNCHANGED <<wordVars, waitSet, status, mode, prevLockCount, owed, target,
                   held>>

WakeUp(t) ==
    /\ pc[t] = "asleep"
    /\ wasInterrupted' = [wasInterrupted EXCEPT ![t] = interrupted[t]]
    /\ interrupted' = [interrupted EXCEPT ![t] = FALSE]
    /\ waitMonitor' = [waitMonitor EXCEPT ![t] = FALSE]
    /\ signaled' = [signaled EXCEPT ![t] = FALSE]
    /\ Goto(t, "relock")
    /\ UNCHANGED <<wordVars, waitSet, status, mode, prevLockCount, owed, target,
                   held>>

Wake(t) == signaled[t] /\ WakeUp(t)
WakeEarly(t) == ~signaled[t] /\ WakeUp(t)   \* timed out, or spuriously

(* unlinks the thread from the list, unless a notifier already did         *)
WaitSetRemove(t) == waitSet' = RemoveFirst(waitSet, t)

\* Mutant: the nesting before the wait is forgotten.
WaitDoneFlat(t) ==
    /\ pc[t] = "done"
    /\ owner' = t
    /\ lockCount' = 0
    /\ WaitSetRemove(t)
    /\ SetStatus(t, "RUNNING")
    /\ Goto(t, "back")
    /\ UNCHANGED <<word, mutex, waitVars, intrVars, target, held>>

\* Mutant: the thread stays in the wait set.
WaitDoneLinked(t) ==
    /\ pc[t] = "done"
    /\ owner' = t
    /\ lockCount' = prevLockCount[t]
    /\ SetStatus(t, "RUNNING")
    /\ Goto(t, "back")
    /\ UNCHANGED <<word, mutex, waitSet, waitVars, intrVars, target, held>>

(* "done:" the monitor is owned again, as deep as before *)
WaitDone(t) ==
    /\ pc[t] = "done"
    /\ owner' = t
    /\ lockCount' = prevLockCount[t]
    /\ WaitSetRemove(t)
    /\ SetStatus(t, "RUNNING")
    /\ Goto(t, "back")
    /\ UNCHANGED <<word, mutex, waitVars, intrVars, target, held>>

(* an interrupted wait clears the flag and, unless it is class             *)
(* initialization that waited, throws InterruptedException                 *)
WaitBack(t) ==
    /\ pc[t] = "back"
    /\ IF wasInterrupted[t]
       THEN /\ interrupted' = [interrupted EXCEPT ![t] = FALSE]
            /\ owed' = [owed EXCEPT ![t] = IF mode[t] = "init" THEN "swallowed"
                                                               ELSE "none"]
       ELSE UNCHANGED intrVars
    /\ wasInterrupted' = [wasInterrupted EXCEPT ![t] = FALSE]
    /\ prevLockCount' = [prevLockCount EXCEPT ![t] = 0]
    /\ mode' = [mode EXCEPT ![t] = "wait"]
    /\ Goto(t, "run")
    /\ UNCHANGED <<wordVars, waitSet, status, waitMonitor, signaled, target, held>>

-----------------------------------------------------------------------------
(* dvmObjectNotify, dvmObjectNotifyAll.  A thin lock or an empty wait set   *)
(* leaves nothing to do: no step.                                          *)

PopWaiter(t) == /\ target' = [target EXCEPT ![t] = Head(waitSet)]
                /\ waitSet' = Tail(waitSet)

Notify(t, label) ==
    /\ pc[t] = "run"
    /\ FatOwned(t)
    /\ waitSet # <<>>
    /\ PopWaiter(t)
    /\ Goto(t, label)
    /\ UNCHANGED <<wordVars, status, waitVars, intrVars, held>>

\* Mutant: notifyAll signals the last thread of the set only.
NotifyLast(t) ==
    /\ pc[t] \in {"notify", "notifyAll"}
    /\ WaitMutexFree(target[t])
    /\ IF waitSet = <<>> \/ (pc[t] = "notify" /\ waitMonitor[target[t]])
       THEN /\ Goto(t, "run")
            /\ target' = [target EXCEPT ![t] = NoThread]
            /\ signaled' = [signaled EXCEPT ![target[t]] = @ \/ waitMonitor[target[t]]]
            /\ UNCHANGED waitSet
       ELSE PopWaiter(t) /\ UNCHANGED <<pc, signaled>>
    /\ UNCHANGED <<wordVars, status, mode, prevLockCount, wasInterrupted,
                   waitMonitor, intrVars, held>>

(* under waitMutex of the thread taken off the set: signal it if it still  *)
(* waits; notify stops there, notifyAll goes on                            *)
NotifySignal(t) ==
    /\ pc[t] \in {"notify", "notifyAll"}
    /\ WaitMutexFree(target[t])
    /\ signaled' = [signaled EXCEPT ![target[t]] = @ \/ waitMonitor[target[t]]]
    /\ IF waitSet = <<>> \/ (pc[t] = "notify" /\ waitMonitor[target[t]])
       THEN /\ Goto(t, "run")
            /\ target' = [target EXCEPT ![t] = NoThread]
            /\ UNCHANGED waitSet
       ELSE PopWaiter(t) /\ UNCHANGED pc
    /\ UNCHANGED <<wordVars, status, mode, prevLockCount, wasInterrupted,
                   waitMonitor, intrVars, held>>

-----------------------------------------------------------------------------
(* dvmThreadInterrupt: t interrupts u.  A flag already raised: no step.    *)
Interrupt(t, u) ==
    /\ t \in Callers
    /\ pc[t] = "run"
    /\ WaitMutexFree(u)
    /\ ~interrupted[u]
    /\ interrupted' = [interrupted EXCEPT ![u] = TRUE]
    /\ signaled' = [signaled EXCEPT ![u] = @ \/ waitMonitor[u]]
    /\ owed' = [owed EXCEPT ![u] = "owed"]
    /\ UNCHANGED <<wordVars, waitSet, pc, status, mode, prevLockCount,
                   wasInterrupted, waitMonitor, target, held>>

(* Thread.interrupted(): the thread reads its flag and clears it, without  *)
(* waitMutex and in two steps; an interrupt in between leaves no trace     *)
QueryInterrupted(t) ==
    /\ t \in Waiters
    /\ pc[t] = "run"
    /\ wasInterrupted' = [wasInterrupted EXCEPT ![t] = interrupted[t]]
    /\ Goto(t, "query")
    /\ UNCHANGED <<wordVars, waitSet, status, mode, prevLockCount, waitMonitor,
                   signaled, intrVars, target, held>>

QueryClear(t) ==
    /\ pc[t] = "query"
    /\ interrupted' = [interrupted EXCEPT ![t] = FALSE]
    /\ owed' = [owed EXCEPT ![t] = IF @ = "owed" /\ ~wasInterrupted[t]
                                   THEN "swallowed" ELSE "none"]
    /\ wasInterrupted' = [wasInterrupted EXCEPT ![t] = FALSE]
    /\ Goto(t, "run")
    /\ UNCHANGED <<wordVars, waitSet, status, mode, prevLockCount, waitMonitor,
                   signaled, target, held>>

-----------------------------------------------------------------------------
(* what a thread does by itself once it has called into Sync.cpp *)
Proceed(t) ==
    \/ LockThinOwned(t) \/ LockThinUnowned(t) \/ Cas(t)
    \/ LockThinContended(t) \/ Spin(t) \/ SpinCas(t) \/ Fatten(t) \/ LockFat(t)
    \/ MonitorReenter(t) \/ MonitorEnter(t) \/ MonitorReturn(t) \/ MonitorBusy(t)
    \/ WaitArm(t) \/ WaitRelease(t) \/ WaitSleep(t) \/ Wake(t)
    \/ WaitDone(t) \/ WaitBack(t) \/ NotifySignal(t) \/ QueryClear(t)

Next == \E t \in Threads :
    \/ Proceed(t)
    \/ CallLock(t) \/ UnlockThin(t) \/ UnlockFat(t)
    \/ \E m \in Modes : WaitStart(t, m)
    \/ WakeEarly(t)
    \/ \E label \in {"notify", "notifyAll"} : Notify(t, label)
    \/ \E u \in Waiters : Interrupt(t, u)
    \/ QueryInterrupted(t)

Spec == Init /\ [][Next]_vars

(* A thread inside the VM goes on; what the program does next is its own    *)
(* affair, and so are timeouts and spurious wakeups.                       *)
FairSpec == Spec /\ \A t \in Threads : WF_vars(Proceed(t))

-----------------------------------------------------------------------------
(* Properties *)

Labels == {"run", "lock", "cas", "spin", "spincas", "fatten", "monitor",
           "blocked", "arm", "release", "sleeping", "asleep", "relock",
           "reblocked", "done", "back", "notify", "notifyAll", "query"}

(* Every variable has its type; the counts stay within the nesting. *)
TypeOK ==
    /\ word \in [fat : BOOLEAN, owner : Threads \cup {NoThread}, count : Nat]
    /\ mutex \in Threads \cup {NoThread}
    /\ owner \in Threads \cup {NoThread}
    /\ lockCount \in Nat
    /\ waitSet \in Seq(Threads)
    /\ pc \in [Threads -> Labels]
    /\ status \in [Threads -> {"RUNNING", "MONITOR", "WAIT", "TIMED_WAIT"}]
    /\ mode \in [Threads -> {"wait", "timed", "init"}]
    /\ prevLockCount \in [Threads -> Nat]
    /\ wasInterrupted \in [Threads -> BOOLEAN]
    /\ waitMonitor \in [Threads -> BOOLEAN]
    /\ interrupted \in [Threads -> BOOLEAN]
    /\ signaled \in [Threads -> BOOLEAN]
    /\ target \in [Threads -> Threads \cup {NoThread}]
    /\ held \in [Threads -> Nat]
    /\ owed \in [Threads -> {"none", "owed", "swallowed"}]

Parked(t) == pc[t] \in {"sleeping", "asleep", "relock", "reblocked"}
InWait(t) == Parked(t) \/ pc[t] \in {"arm", "release", "done"}

(* Who owns the lock and how deep, seen from the program *)
LockHolder == IF word.fat THEN mutex ELSE word.owner
LockDepth == IF LockHolder = NoThread THEN 0
             ELSE IF ~word.fat THEN word.count + 1
             ELSE IF pc[mutex] \in {"arm", "release", "done"}
                  THEN prevLockCount[mutex] + 1
                  ELSE lockCount + 1

(* A thread between monitorenter and monitorexit, and not in a wait, is    *)
(* the one the lock word or the Monitor names, at exactly its own nesting: *)
(* through CAS races, fattening, recursion and waits no two threads are    *)
(* inside, and no exit is refused or releases too early.                   *)
HolderOwns ==
    \A t \in Threads : held[t] > 0 /\ ~Parked(t) /\ pc[t] # "fatten" =>
        LockHolder = t /\ LockDepth = held[t]

(* Why: what the word and the Monitor say of each other, and what the      *)
(* place and the nesting of a thread say of both (inductive).              *)
WordInv ==
    /\ word.fat => word = Fat
    /\ ~word.fat => mutex = NoThread
    /\ mutex = NoThread => owner = NoThread /\ lockCount = 0
    /\ owner \in {NoThread, mutex}
    /\ ~word.fat /\ word.owner = NoThread => word.count = 0

Suspending == {"arm", "release", "done"}
OnFat == {"monitor", "blocked", "arm", "release", "sleeping", "asleep",
          "relock", "reblocked", "done"}

PlaceInv(t) ==
    /\ pc[t] \in OnFat => word.fat
    /\ pc[t] = "fatten" => ~word.fat /\ word.owner = t /\ word.count = 0
    /\ pc[t] \in {"cas", "spin", "spincas", "fatten", "blocked"} => held[t] = 0
    /\ pc[t] \in {"arm", "release"} => owner = NoThread
    /\ Parked(t) => mutex # t /\ held[t] = prevLockCount[t] + 1
    /\ pc[t] \in Suspending => /\ mutex = t
                               /\ lockCount = 0
                               /\ held[t] = prevLockCount[t] + 1

HoldInv(t) ==
    /\ held[t] > 0 /\ ~InWait(t) =>
          IF word.fat THEN mutex = t /\ owner = t /\ held[t] = lockCount + 1
                      ELSE word.owner = t /\ held[t] = word.count + 1
    /\ mutex = t => held[t] > 0
    /\ ~word.fat /\ word.owner = t => held[t] > 0 \/ pc[t] = "fatten"

LockInv == WordInv /\ \A t \in Threads : PlaceInv(t) /\ HoldInv(t)

(* No thread sleeps where nobody can reach it: a thread asleep in a wait   *)
(* is in the wait set, or has its signal, or is in the hands of a notifier *)
(* about to signal it; and if it is interrupted it has its signal.         *)
SleeperReachable ==
    \A t \in Threads : pc[t] = "asleep" =>
        /\ \/ Contains(waitSet, t)
           \/ signaled[t]
           \/ \E u \in Threads : target[u] = t
        /\ interrupted[t] => signaled[t]

(* The wait set holds each thread once and only threads inside a wait: a   *)
(* wait that timed out or was interrupted leaves nothing behind for a later *)
(* notify to waste itself on (waitSetAppend asserts waitNext == NULL).     *)
NoStaleWaiter ==
    /\ \A t \in ToSet(waitSet) : InWait(t)
    /\ IsInjective(waitSet)

(* The interrupted status "stays raised until queried or thrown"           *)
(* (Thread.h:260) as long as the uninterruptible wait of class             *)
(* initialization and the unguarded Thread.interrupted() did not swallow   *)
(* it: a wait that was interrupted throws, however late it gets the lock.  *)
InterruptKept ==
    \A t \in Threads : owed[t] = "owed" => \/ interrupted[t]
                                          \/ wasInterrupted[t]

(* A fat lock stays fat: no CAS of a thread that read the word while it    *)
(* was thin ever takes it over.                                            *)
FattensOnce == [][word.fat => UNCHANGED word]_vars

(* A thread asleep that was taken off the wait set or interrupted wakes.   *)
ReachedWakes ==
    \A t \in Waiters :
        (pc[t] = "asleep" /\ (interrupted[t] \/ ~Contains(waitSet, t)))
            ~> pc[t] # "asleep"

(* The lock implements the Java monitor. *)
JM == INSTANCE JavaMonitor WITH
        owner <- LockHolder,
        depth <- LockDepth,
        parked <- [t \in Threads |-> IF Parked(t) THEN prevLockCount[t] + 1 ELSE 0]

RefinesJavaMonitor == JM!Spec

=============================================================================
