----------------------------- MODULE ClassInit -----------------------------
(* Initialization of linked classes in the Dalvik VM: dvmInitClass of      *)
(* src/doc/dalvik.git-android-4.3_r3-vm/oo/Class.cpp.  A thread claims a   *)
(* class under the class's own monitor, initializes the superclass and     *)
(* runs <clinit> without it, and takes it again to publish the outcome and *)
(* wake the threads that wait for it.                                      *)
(*                                                                         *)
(* A call is in two halves.  The front half (variables at, target) looks   *)
(* at the status and claims the class or answers at once; nothing that it  *)
(* calls initializes here.  The back half (inner, outer, phase) belongs to *)
(* a claimed class and calls dvmInitClass again.  The monitors are those   *)
(* of JavaMonitor; a program that synchronizes on a class in between is    *)
(* another spurious wakeup here, and never keeps the monitor over a call.  *)
EXTENDS Naturals, FiniteSets

CONSTANTS Threads,      \* attached threads
          NoThread,     \* thread id 0
          Classes,      \* linked classes
          NoClass,      \* a NULL ClassObject*
          Linker,       \* the thread that linked them all (stale initThreadId)
          Unverifiable, \* classes the verifier or validateSuperDescriptors rejects
          Throwing,     \* classes whose <clinit> may throw
          MaxAsks,      \* bound: classes a thread asks for outside any <clinit>
          MaxEarly      \* bound: wakeups that no notifyAll caused

ASSUME ClassInitAssumption ==
    /\ NoThread \notin Threads
    /\ NoClass \notin Classes
    /\ Linker \in Threads
    /\ Unverifiable \subseteq Classes
    /\ Throwing \subseteq Classes
    /\ MaxAsks \in Nat
    /\ MaxEarly \in Nat

VARIABLES
    super,        \* clazz->super
    uses,         \* the classes a <clinit> needs initialized
    status,       \* clazz->status
    initThreadId, \* clazz->initThreadId
    lock,         \* the monitor of the class: its owner
    waiters,      \* its wait set
    asks,         \* the classes the program of each thread still asks for
    at,           \* where each thread is in the front half
    target,       \* the class of its front half
    inner,        \* the class whose back half it runs innermost
    outer,        \* outer[t][c]: the class whose back half called that of c
    phase,        \* phase[t][c]: where the back half of c is
    todo,         \* todo[t][c]: the uses <clinit> of c has still to make
    ret,          \* what the last call returned, for its caller
    seen,         \* what calls from outside the class's <clinit> returned (history)
    clinits,      \* how often <clinit> was started (history)
    early         \* wakeups that no notifyAll caused, so far

codeVars == <<super, uses>>
frontVars == <<at, target>>
backVars == <<inner, outer, phase, todo>>
histVars == <<seen, clinits>>
vars == <<codeVars, status, initThreadId, lock, waiters, asks, frontVars,
          backVars, ret, histVars, early>>

Statuses == {"error", "resolved", "verified", "initializing", "initialized"}
Front == {"idle", "enter", "check", "publish", "waiting", "recheck", "return",
          "back"}
Phases == {"none", "super", "superDone", "clinit", "clinitDone", "failed",
           "succeeded", "notify"}
Verdicts == {"none", "true", "false"}

-----------------------------------------------------------------------------
Rank == [Classes -> 1..Cardinality(Classes)]

SuperAcyclic == \E rank \in Rank : \A c \in Classes :
                    super[c] # NoClass => rank[super[c]] < rank[c]

(* Every program over these classes.  A <clinit> that uses its own class   *)
(* takes the same path as one that gets there through another class.       *)
Init ==
    /\ super \in [Classes -> Classes \cup {NoClass}] /\ SuperAcyclic
    /\ uses \in [Classes -> SUBSET Classes] /\ \A c \in Classes : c \notin uses[c]
    /\ status = [c \in Classes |-> "resolved"]
    /\ initThreadId = [c \in Classes |-> Linker]
    /\ lock = [c \in Classes |-> NoThread]
    /\ waiters = [c \in Classes |-> {}]
    /\ asks = [t \in Threads |-> Classes]
    /\ at = [t \in Threads |-> "idle"]
    /\ target = [t \in Threads |-> NoClass]
    /\ inner = [t \in Threads |-> NoClass]
    /\ outer = [t \in Threads |-> [c \in Classes |-> NoClass]]
    /\ phase = [t \in Threads |-> [c \in Classes |-> "none"]]
    /\ todo = [t \in Threads |-> [c \in Classes |-> {}]]
    /\ ret = [t \in Threads |-> "none"]
    /\ seen = [t \in Threads |-> [c \in Classes |-> "none"]]
    /\ clinits = [c \in Classes |-> 0]
    /\ early = 0

-----------------------------------------------------------------------------
Goto(t, label) == at' = [at EXCEPT ![t] = label]
\* Mutant: the monitor is taken from whoever has it.
LockAnyway(t, c) == lock' = [lock EXCEPT ![c] = t]
Lock(t, c) == lock[c] = NoThread /\ lock' = [lock EXCEPT ![c] = t]
Unlock(c) == lock' = [lock EXCEPT ![c] = NoThread]
SetStatus(c, s) == status' = [status EXCEPT ![c] = s]
SetPhase(t, c, p) == phase' = [phase EXCEPT ![t][c] = p]
NotifyAll(c) == waiters' = [waiters EXCEPT ![c] = {}]

Call(t, c) == at' = [at EXCEPT ![t] = "enter"] /\ target' = [target EXCEPT ![t] = c]

(* the program needs a class initialized *)
Ask(t, c) ==
    /\ at[t] = "idle"
    /\ c \in asks[t]
    /\ Cardinality(Classes \ asks[t]) < MaxAsks
    /\ asks' = [asks EXCEPT ![t] = @ \ {c}]
    /\ Call(t, c)
    /\ UNCHANGED <<codeVars, status, initThreadId, lock, waiters, backVars, ret,
                   histVars, early>>

-----------------------------------------------------------------------------
(* The front half *)

Enter(t) ==
    /\ at[t] = "enter"
    /\ Lock(t, target[t])
    /\ Goto(t, "check")
    /\ UNCHANGED <<codeVars, status, initThreadId, waiters, asks, target, backVars,
                   ret, histVars, early>>

(* dvmVerifyClass and the optimizer, with the class locked.  Left out: the  *)
(* classes that the verifier loads and the exceptions thrown here may have  *)
(* to be initialized themselves, below this call and with the class locked. *)
Verify(t) ==
    LET c == target[t] IN
    /\ at[t] = "check"
    /\ status[c] = "resolved"
    /\ \/ SetStatus(c, "verified")
          /\ UNCHANGED <<lock, at>>
       \/ c \in Unverifiable
          /\ SetStatus(c, "error")
          /\ Unlock(c)
          /\ Goto(t, "return")
    /\ UNCHANGED <<codeVars, initThreadId, waiters, asks, target, backVars, ret,
                   histVars, early>>

\* Mutant: a class in error is initialized again.
SettledOrError(c) == status[c] = "initialized"
Settled(c) == status[c] \in {"initialized", "error"}

BeingInitialized(t, c) == status[c] = "initializing" /\ initThreadId[c] = t

(* nothing to do, an earlier failure, or a call of the class's own <clinit> *)
Answer(t) ==
    LET c == target[t] IN
    /\ at[t] = "check"
    /\ Settled(c) \/ BeingInitialized(t, c)
    /\ Unlock(c)
    /\ Goto(t, "return")
    /\ UNCHANGED <<codeVars, status, initThreadId, waiters, asks, target, backVars,
                   ret, histVars, early>>

\* Mutant: the thread waits with the monitor in its hands.
WaitHolding(t) ==
    LET c == target[t] IN
    /\ at[t] = "check"
    /\ status[c] = "initializing"
    /\ initThreadId[c] # t
    /\ waiters' = [waiters EXCEPT ![c] = @ \cup {t}]
    /\ Goto(t, "waiting")
    /\ UNCHANGED <<codeVars, status, initThreadId, lock, asks, target, backVars, ret,
                   histVars, early>>

(* dvmObjectWait, which gives up the monitor *)
Wait(t) ==
    LET c == target[t] IN
    /\ at[t] = "check"
    /\ status[c] = "initializing"
    /\ initThreadId[c] # t
    /\ Unlock(c)
    /\ waiters' = [waiters EXCEPT ![c] = @ \cup {t}]
    /\ Goto(t, "waiting")
    /\ UNCHANGED <<codeVars, status, initThreadId, asks, target, backVars, ret,
                   histVars, early>>

(* a wakeup nobody sent; interrupts end the wait, too *)
WakeEarly(t) ==
    LET c == target[t] IN
    /\ at[t] = "waiting"
    /\ t \in waiters[c]
    /\ early < MaxEarly
    /\ early' = early + 1
    /\ waiters' = [waiters EXCEPT ![c] = @ \ {t}]
    /\ UNCHANGED <<codeVars, status, initThreadId, lock, asks, frontVars, backVars,
                   ret, histVars>>

Relock(t) ==
    LET c == target[t] IN
    /\ at[t] = "waiting"
    /\ t \notin waiters[c]
    /\ Lock(t, c)
    /\ Goto(t, "recheck")
    /\ UNCHANGED <<codeVars, status, initThreadId, waiters, asks, target, backVars,
                   ret, histVars, early>>

\* Mutant: the thread waits once, whatever it finds.
RecheckOnce(t) ==
    LET c == target[t] IN
    /\ at[t] = "recheck"
    /\ Goto(t, "return") /\ Unlock(c)
    /\ UNCHANGED <<codeVars, status, initThreadId, waiters, asks, target, backVars,
                   ret, histVars, early>>

(* "Waiting again for class init" *)
Recheck(t) ==
    LET c == target[t] IN
    /\ at[t] = "recheck"
    /\ IF status[c] = "initializing"
       THEN Goto(t, "check") /\ UNCHANGED lock
       ELSE Goto(t, "return") /\ Unlock(c)
    /\ UNCHANGED <<codeVars, status, initThreadId, waiters, asks, target, backVars,
                   ret, histVars, early>>

\* Mutant: the id of the claiming thread is not stored.
ClaimUnsigned(t) ==
    LET c == target[t] IN
    /\ at[t] = "check"
    /\ ~Settled(c) /\ status[c] \notin {"resolved", "initializing"}
    /\ Goto(t, "publish")
    /\ UNCHANGED <<codeVars, status, initThreadId, lock, waiters, asks, target,
                   backVars, ret, histVars, early>>

(* validateSuperDescriptors, then the claim in two stores: the id first, so *)
(* that dvmIsClassInitializing, which does not lock, never sees a stale one *)
Claim(t) ==
    LET c == target[t] IN
    /\ at[t] = "check"
    /\ ~Settled(c) /\ status[c] \notin {"resolved", "initializing"}
    /\ \/ /\ initThreadId' = [initThreadId EXCEPT ![c] = t]
          /\ Goto(t, "publish")
          /\ UNCHANGED <<status, lock>>
       \/ /\ c \in Unverifiable
          /\ SetStatus(c, "error")
          /\ Unlock(c)
          /\ Goto(t, "return")
          /\ UNCHANGED initThreadId
    /\ UNCHANGED <<codeVars, waiters, asks, target, backVars, ret, histVars, early>>

Publish(t) ==
    LET c == target[t] IN
    /\ at[t] = "publish"
    /\ SetStatus(c, "initializing")
    /\ Unlock(c)
    /\ SetPhase(t, c, "super")
    /\ outer' = [outer EXCEPT ![t][c] = inner[t]]
    /\ inner' = [inner EXCEPT ![t] = c]
    /\ Goto(t, "back")
    /\ UNCHANGED <<codeVars, initThreadId, waiters, asks, target, todo, ret,
                   histVars, early>>

Verdict(c) == IF status[c] = "error" THEN "false" ELSE "true"

(* the answer, read after the monitor was given up.  A call of the class's *)
(* own <clinit> is told "true" whatever comes of it: it does not count.    *)
Return(t) ==
    LET c == target[t] IN
    /\ at[t] = "return"
    /\ ret' = [ret EXCEPT ![t] = IF inner[t] = NoClass THEN "none" ELSE Verdict(c)]
    /\ seen' = [seen EXCEPT ![t][c] = IF phase[t][c] = "none" THEN Verdict(c) ELSE @]
    /\ Goto(t, IF inner[t] = NoClass THEN "idle" ELSE "back")
    /\ target' = [target EXCEPT ![t] = NoClass]
    /\ UNCHANGED <<codeVars, status, initThreadId, lock, waiters, asks, backVars,
                   clinits, early>>

-----------------------------------------------------------------------------
(* The back half of the class a thread has claimed *)

Running(t, c, p) == at[t] = "back" /\ inner[t] = c /\ phase[t][c] = p

\* Mutant: a superclass that somebody initializes counts as initialized.
SuperStarted(c) == super[c] = NoClass \/ status[super[c]] \in {"initialized", "initializing"}
SuperReady(c) == super[c] = NoClass \/ status[super[c]] = "initialized"

StartClinit(t, c) ==
    /\ SetPhase(t, c, "clinit")
    /\ todo' = [todo EXCEPT ![t][c] = uses[c]]
    /\ clinits' = [clinits EXCEPT ![c] = @ + 1]

(* the status of the superclass is read without its monitor *)
InitSuper(t, c) ==
    /\ Running(t, c, "super")
    /\ IF SuperReady(c)
       THEN StartClinit(t, c) /\ UNCHANGED frontVars
       ELSE /\ SetPhase(t, c, "superDone")
            /\ Call(t, super[c])
            /\ UNCHANGED <<todo, clinits>>
    /\ UNCHANGED <<codeVars, status, initThreadId, lock, waiters, asks, inner, outer,
                   ret, seen, early>>

(* a failure is stored before the monitor is taken *)
SuperReturned(t, c) ==
    /\ Running(t, c, "superDone")
    /\ IF ret[t] = "true"
       THEN StartClinit(t, c) /\ UNCHANGED status
       ELSE /\ SetStatus(c, "error")
            /\ SetPhase(t, c, "failed")
            /\ UNCHANGED <<todo, clinits>>
    /\ ret' = [ret EXCEPT ![t] = "none"]
    /\ UNCHANGED <<codeVars, initThreadId, lock, waiters, asks, frontVars, inner, outer,
                   seen, early>>

(* <clinit> needs another class *)
Use(t, c, d) ==
    /\ Running(t, c, "clinit")
    /\ ret[t] = "none"
    /\ d \in todo[t][c]
    /\ todo' = [todo EXCEPT ![t][c] = @ \ {d}]
    /\ Call(t, d)
    /\ UNCHANGED <<codeVars, status, initThreadId, lock, waiters, asks, inner, outer,
                   phase, ret, histVars, early>>

(* it catches the exception of a class that failed, or had none *)
UseReturned(t, c) ==
    /\ Running(t, c, "clinit")
    /\ ret[t] # "none"
    /\ ret' = [ret EXCEPT ![t] = "none"]
    /\ UNCHANGED <<codeVars, status, initThreadId, lock, waiters, asks, frontVars,
                   backVars, histVars, early>>

(* dvmCallMethod returns, with or without an exception *)
ClinitReturned(t, c) ==
    /\ Running(t, c, "clinit")
    /\ \/ /\ ret[t] = "none"
          /\ todo[t][c] = {}
          /\ SetPhase(t, c, "succeeded")
       \/ /\ ret[t] = "false" \/ (ret[t] = "none" /\ c \in Throwing)
          /\ SetPhase(t, c, "clinitDone")
    /\ ret' = [ret EXCEPT ![t] = "none"]
    /\ todo' = [todo EXCEPT ![t][c] = {}]
    /\ UNCHANGED <<codeVars, status, initThreadId, lock, waiters, asks, frontVars,
                   inner, outer, histVars, early>>

(* the monitor again; the outcome is stored under it, unless it was before *)
Settle(t, c) ==
    /\ \/ Running(t, c, "succeeded") /\ SetStatus(c, "initialized")
       \/ Running(t, c, "clinitDone") /\ SetStatus(c, "error")
       \/ Running(t, c, "failed") /\ UNCHANGED status
    /\ Lock(t, c)
    /\ SetPhase(t, c, "notify")
    /\ UNCHANGED <<codeVars, initThreadId, waiters, asks, frontVars, inner, outer, todo,
                   ret, histVars, early>>

Popped(t, c) ==
    /\ SetPhase(t, c, "none")
    /\ inner' = [inner EXCEPT ![t] = outer[t][c]]
    /\ outer' = [outer EXCEPT ![t][c] = NoClass]
    /\ Goto(t, "return")
    /\ target' = [target EXCEPT ![t] = c]
    /\ Unlock(c)

\* Mutant: a class that failed wakes nobody.
NotifyInitialized(t, c) ==
    /\ Running(t, c, "notify")
    /\ IF status[c] = "error" THEN UNCHANGED waiters ELSE NotifyAll(c)
    /\ Popped(t, c)
    /\ UNCHANGED <<codeVars, status, initThreadId, asks, todo, ret, histVars, early>>

Notify(t, c) ==
    /\ Running(t, c, "notify")
    /\ NotifyAll(c)
    /\ Popped(t, c)
    /\ UNCHANGED <<codeVars, status, initThreadId, asks, todo, ret, histVars, early>>

-----------------------------------------------------------------------------
Proceed(t) ==
    \/ Enter(t) \/ Verify(t) \/ Answer(t) \/ Wait(t) \/ Relock(t) \/ Recheck(t)
    \/ Claim(t) \/ Publish(t) \/ Return(t)
    \/ \E c \in Classes : \/ InitSuper(t, c) \/ SuperReturned(t, c)
                          \/ \E d \in Classes : Use(t, c, d)
                          \/ UseReturned(t, c) \/ ClinitReturned(t, c)
                          \/ Settle(t, c) \/ Notify(t, c)

Next == \E t \in Threads : \/ \E c \in Classes : Ask(t, c)
                           \/ Proceed(t)
                           \/ WakeEarly(t)

Spec == Init /\ [][Next]_vars

(* A thread inside dvmInitClass goes on, and a <clinit> returns. *)
FairSpec == Spec /\ \A t \in Threads : WF_vars(Proceed(t))

-----------------------------------------------------------------------------
(* Properties *)

Claimed(t, c) == phase[t][c] # "none"

(* Every variable has its type (Theorem TypeCorrect of ClassInitProofs).   *)
Types ==
    /\ super \in [Classes -> Classes \cup {NoClass}]
    /\ uses \in [Classes -> SUBSET Classes]
    /\ status \in [Classes -> Statuses]
    /\ initThreadId \in [Classes -> Threads]
    /\ lock \in [Classes -> Threads \cup {NoThread}]
    /\ waiters \in [Classes -> SUBSET Threads]
    /\ asks \in [Threads -> SUBSET Classes]
    /\ at \in [Threads -> Front]
    /\ target \in [Threads -> Classes \cup {NoClass}]
    /\ inner \in [Threads -> Classes \cup {NoClass}]
    /\ outer \in [Threads -> [Classes -> Classes \cup {NoClass}]]
    /\ phase \in [Threads -> [Classes -> Phases]]
    /\ todo \in [Threads -> [Classes -> SUBSET Classes]]
    /\ ret \in [Threads -> Verdicts]
    /\ seen \in [Threads -> [Classes -> Verdicts]]
    /\ clinits \in [Classes -> Nat]
    /\ early \in 0..MaxEarly

(* <clinit> runs at most once, in one thread: while a thread has claimed a  *)
(* class no other does, though the monitor is free and the status moves.   *)
OneInitializer ==
    \A c \in Classes : /\ clinits[c] <= 1
                       /\ \A t, u \in Threads : Claimed(t, c) /\ Claimed(u, c) => t = u

(* "all threads are expected to present a consistent view of class         *)
(* initialization, so we can't have it fail in one thread and succeed in   *)
(* another" (Class.cpp:4217): nobody outside its <clinit> is told that a   *)
(* class is ready before it is, or that it failed when it did not.         *)
ConsistentView ==
    \A t \in Threads, c \in Classes :
        /\ seen[t][c] = "true" => status[c] = "initialized"
        /\ seen[t][c] = "false" => status[c] = "error"

(* "once a class fails to initialize, it must *always* fail"               *)
(* (Class.cpp:4219), and an initialized class stays initialized.           *)
SettledForGood ==
    [][\A c \in Classes : status[c] \in {"initialized", "error"}
                              => status'[c] = status[c]]_vars

(* A <clinit> starts after that of the superclass, unless the superclass   *)
(* is being initialized by the same thread further out.                    *)
ClinitAfterSuper ==
    \A t \in Threads, c \in Classes :
        phase[t][c] = "clinit" /\ super[c] # NoClass =>
            status[super[c]] = "initialized" \/ Claimed(t, super[c])

(* dvmIsClassInitializing takes no lock and may find the id of the linker, *)
(* or of an earlier reader, in initThreadId; it still answers true only to *)
(* the thread that runs the initialization (Class.cpp:4150).               *)
NoStaleClaim ==
    \A t \in Threads, c \in Classes : BeingInitialized(t, c) => Claimed(t, c)

(* A thread in the wait set of a class has somebody to wake it: one that   *)
(* has claimed the class and has not notified yet, also when the status    *)
(* was set to error without the monitor before the thread went to sleep.   *)
WaiterHasWaker ==
    \A c \in Classes : waiters[c] # {} => \E t \in Threads : Claimed(t, c)

(* Unless the program's classes need each other in a circle (which         *)
(* Class.cpp:4198 calls a deadlock expected under the spec) every call     *)
(* that initializes a class returns, and no thread is left inside one.     *)
Needs(c) == (uses[c] \cup {super[c]}) \ {NoClass}
Acyclic == \E rank \in Rank : \A c \in Classes : \A d \in Needs(c) : rank[d] < rank[c]

InitReturns ==
    Acyclic => []<>(\A t \in Threads : at[t] = "idle")

-----------------------------------------------------------------------------
(* Why the safety properties hold (inductive); what ClinitAfterSuper needs  *)
(* besides, the nesting of a thread's calls, is StackInv of ClassInitProofs. *)
(* What the place of a thread says of the class it is at ...               *)
PlaceInv(t) ==
    LET c == target[t] IN
    /\ at[t] \notin {"idle", "back"} => c \in Classes
    /\ at[t] \in {"check", "publish", "recheck"} => lock[c] = t /\ phase[t][c] # "notify"
    /\ at[t] = "publish" => status[c] = "verified" /\ initThreadId[c] = t
    /\ at[t] \in {"waiting", "recheck"} => status[c] \notin {"resolved", "verified"}
    /\ at[t] = "return" => Settled(c) \/ Claimed(t, c)

(* ... what a claim says of the class, and of its thread ...               *)
ClaimInv(t, c) ==
    /\ Claimed(t, c) => initThreadId[c] = t
    /\ phase[t][c] \in {"super", "superDone", "clinit", "clinitDone", "succeeded"}
            => status[c] = "initializing"
    /\ phase[t][c] \in {"super", "superDone"} => clinits[c] = 0
    /\ phase[t][c] = "failed" => status[c] = "error"
    /\ phase[t][c] = "notify" => Settled(c) /\ lock[c] = t

(* ... and what the status says of both.                                   *)
StatusInv(c) ==
    /\ status[c] \in {"resolved", "verified"} => clinits[c] = 0
    /\ status[c] = "initializing" => Claimed(initThreadId[c], c)
    /\ clinits[c] <= 1

InitInv == /\ \A t \in Threads : PlaceInv(t)
           /\ \A t \in Threads, c \in Classes : ClaimInv(t, c)
           /\ \A c \in Classes : StatusInv(c)

=============================================================================
