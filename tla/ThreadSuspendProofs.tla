----------------------- MODULE ThreadSuspendProofs -----------------------
(* Theorems about ThreadSuspend, for any number of threads, whatever they  *)
(* collect, post and list, and whatever the debugger asks for.             *)
EXTENDS ThreadSuspend, FiniteSetTheorems, TLAPS

(* What the place of a thread says of its status.                          *)
StatusInv(t) ==
    /\ pc[t] \in {"run", "check", "unchecked", "stopped", "listed", "handle", "drop"}
            => status[t] = "RUNNING"
    /\ pc[t] \in {"suspend", "resume"} /\ cause[t] \in {"gc", "debug"}
            => status[t] = "RUNNING"
    /\ At(t, "await") /\ cause[t] = "gc" => status[t] = "RUNNING"
    /\ At(t, "broadcast") /\ t # Jdwp => status[t] = "RUNNING"
    /\ pc[t] \in {"suspendList", "resumeList"} /\ cause[t] \in {"gc", "debug"}
            => saved[t] = "RUNNING"
    /\ At(t, "list") => saved[t] = "RUNNING"
    /\ At(t, "sleep") /\ (cause[t] \in {"gc", "debug"} \/ cont[t] \in {"run", "handle", "drop"})
            => saved[t] = "RUNNING"

(* Where each kind of thread can be, and for which cause.                  *)
On(t, p) == pc[t] = p \/ (pc[t] = "sleep" /\ cont[t] = p)

CauseInv(t) ==
    /\ t # Jdwp =>
        /\ pc[t] \notin {"idle", "request", "reply"}
        /\ ~On(t, "handle") /\ ~On(t, "drop")
        /\ cause[t] \in {"none", "gc", "event"}
        /\ On(t, "resume") \/ pc[t] \in {"stopped", "resumeList"} => cause[t] = "gc"
        /\ On(t, "suspend") \/ pc[t] \in {"suspendList", "await"} => cause[t] # "none"
    /\ t = Jdwp =>
        /\ pc[t] \notin {"native", "unchecked", "stopped", "self", "listed", "event"}
        /\ ~On(t, "run")
        /\ cause[t] \in {"none", "debug", "undo"}
        /\ On(t, "suspend") \/ pc[t] = "suspendList" => cause[t] = "debug"
        /\ On(t, "resume") \/ pc[t] = "resumeList" => cause[t] # "none"
        /\ pc[t] \in {"idle", "request", "check", "list"} \/ On(t, "handle") \/ On(t, "drop")
                => cause[t] = "none"
        /\ pc[t] = "await" => cause[t] # "undo"

(* Who has the suspend lock, and who the list.                             *)
LockInv(t) ==
    /\ pc[t] \in {"suspendList", "resumeList"} => suspendLock = t
    /\ At(t, "await") /\ cause[t] # "none" => suspendLock = t
    /\ pc[t] \in {"await", "listed"} => listLock = t

(* What the debugger has asked for when its thread works for it.           *)
RequestInv ==
    /\ At(Jdwp, "request") \/ On(Jdwp, "handle") => request \in Requests
    /\ At(Jdwp, "check") => request \in Requests \cup {"disconnect"}
    /\ At(Jdwp, "list") => request \in Requests \ {"suspendVM", "resumeVM"}

(* A thread that does not run managed code, nor gets there without a look  *)
(* at its count.                                                           *)
Quiet(u) ==
    /\ pc[u] \notin {"run", "stopped", "handle", "drop"}
    /\ pc[u] \in {"resume", "resumeList"} => cause[u] = "undo"
    /\ At(u, "broadcast") => u = Jdwp

(* A collector that has seen a thread stop, ...                            *)
HasSeen(t, u) ==
    /\ cause[t] = "gc"
    /\ \/ At(t, "stopped")
       \/ At(t, "await") /\ u \notin todo[t]
       \/ u = Jdwp /\ Holds(t) /\ ~At(t, "await")

(* ... has it quiet, that of the debugger until the collector's own        *)
(* resume, and one that the debugger has robbed while the collector still  *)
(* waits for others.                                                       *)
WorldInv ==
    \A t \in Threads : \A u \in Others(t) :
        HasSeen(t, u) /\ (u \in robbed => At(t, "await")) => Quiet(u)

(* Nobody lowers a count while a collector waits with the list locked.     *)
AwaitInv ==
    \A t \in Threads : \A u \in Others(t) :
        At(t, "await") /\ cause[t] = "gc" => suspendCount[u] # 0

PlaceInv == \A t \in Threads : StatusInv(t) /\ CauseInv(t) /\ LockInv(t)

Inv == TypeOK /\ PlaceInv /\ RequestInv /\ CountsCover /\ AwaitInv /\ WorldInv
       /\ SleeperHasWaker

-----------------------------------------------------------------------------
USE SuspendAssumption DEF Threads

(* The steps, one after the other.                                         *)
LEMMA Steps ==
    ASSUME [Next]_vars
    PROVE  \/ UNCHANGED vars
           \/ \E t \in Threads :
                  \/ GoOn(t) \/ SleepAgain(t) \/ SafePoint(t) \/ CheckSuspend(t)
                  \/ LockSuspend(t) \/ SuspendOthers(t) \/ SeeStopped(t) \/ AllStopped(t)
                  \/ EndGc(t) \/ ResumeOthers(t) \/ Broadcast(t) \/ HoldList(t)
                  \/ UnlockList(t) \/ SetWaitForEventThread(t) \/ SuspendSelf(t)
           \/ \E t \in Mutators :
                  CallNative(t) \/ Return(t) \/ Collect(t) \/ ListThreads(t) \/ PostEvent(t)
           \/ UndoDebuggerSuspensions \/ DdmDisconnected \/ ProcessRequest \/ Handle
           \/ OneThread \/ Reply \/ Receive \/ Disconnect
  BY DEF Next, Step, Begin, JdwpStep

-----------------------------------------------------------------------------
(* The sets that CountsCover counts.                                       *)
LEMMA Finite ==
    ASSUME NEW S \in SUBSET Threads
    PROVE  IsFiniteSet(S) /\ Cardinality(S) \in Nat
  <1>1. IsFiniteSet(Threads)
    BY FS_AddElement
  <1>2. IsFiniteSet(S)
    BY <1>1, FS_Subset
  <1> QED BY <1>2, FS_CardinalityType

(* A collection that holds the world is in the count of every other        *)
(* thread.                                                                 *)
LEMMA HeldIsCounted ==
    ASSUME TypeOK, CountsCover, NEW t \in Threads, Holds(t), NEW u \in Others(t)
    PROVE  suspendCount[u] > dbgSuspendCount[u]
  <1> DEFINE S == {v \in Others(u) : Holds(v)}
  <1>1. t \in S /\ S \in SUBSET Threads
    BY DEF Others
  <1>2. IsFiniteSet(S) /\ Cardinality(S) \in Nat
    BY <1>1, Finite
  <1>3. Cardinality(S) # 0
    BY <1>1, <1>2, FS_EmptySet
  <1>4. suspendCount[u] - dbgSuspendCount[u] >= Cardinality(S)
    BY DEF CountsCover, Holders, Others
  <1>5. suspendCount[u] \in Nat /\ dbgSuspendCount[u] \in Int
    BY DEF TypeOK, Others
  <1> QED BY <1>2, <1>3, <1>4, <1>5

(* The debugger's share of a count is a part of it.                        *)
LEMMA DebuggerShare ==
    ASSUME TypeOK, CountsCover, NEW u \in Threads
    PROVE  dbgSuspendCount[u] <= suspendCount[u]
  <1>1. Holders(u) \in Nat
    BY Finite DEF Holders, Others
  <1> QED BY <1>1 DEF CountsCover, TypeOK

(* Nobody holds the world when the debugger resumes everybody: it has the  *)
(* suspend lock, and a collector would have its thread quiet.              *)
LEMMA DebuggerAlone ==
    ASSUME TypeOK, PlaceInv, WorldInv, At(Jdwp, "resumeList"), cause[Jdwp] # "undo",
           NEW t \in Threads
    PROVE  ~Holds(t)
  <1> SUFFICES ASSUME Holds(t) PROVE FALSE
    OBVIOUS
  <1>1. suspendLock = Jdwp
    BY DEF PlaceInv, LockInv, At
  <1>2. t # Jdwp
    BY DEF PlaceInv, CauseInv, Holds
  <1>3. ~At(t, "await")
    BY <1>1, <1>2 DEF PlaceInv, LockInv, Holds
  <1>4. HasSeen(t, Jdwp) /\ Jdwp \in Others(t)
    BY <1>2, <1>3 DEF HasSeen, Holds, Others
  <1> QED BY <1>4 DEF WorldInv, Quiet, At, TypeOK

(* Where nobody holds the world, every suspension is the debugger's.       *)
LEMMA NobodyHolds ==
    ASSUME TypeOK, CountsCover, \A t \in Threads : ~Holds(t), NEW u \in Threads \ robbed
    PROVE  suspendCount[u] = dbgSuspendCount[u]
  <1>1. Holders(u) = 0
    <2>1. {v \in Others(u) : Holds(v)} = {}
      BY DEF Others
    <2> QED BY <2>1, FS_EmptySet DEF Holders
  <1> QED BY <1>1 DEF CountsCover, TypeOK

(* A resume lowers no count below 0, and takes its own share only: a       *)
(* collection has its share in every count that the debugger has left      *)
(* alone, and when the debugger resumes everybody there are no other       *)
(* shares.                                                                 *)
LEMMA ResumeCounts ==
    ASSUME Inv, NEW t \in Threads, ResumeOthers(t)
    PROVE  /\ suspendCount' \in [Threads -> Nat]
           /\ dbgSuspendCount' \in [Threads -> Int]
           /\ \A u \in Threads \ robbed : dbgSuspendCount'[u] >= 0
           /\ \A u \in Threads :
                 LET before == suspendCount[u] - dbgSuspendCount[u]
                     after  == suspendCount'[u] - dbgSuspendCount'[u]
                     share  == IF cause[t] = "gc" /\ u # t THEN 1 ELSE 0
                 IN  /\ after \in {before, before - share}
                     /\ u \notin robbed => after = before - share
  <1> DEFINE A == {u \in Affected(t) : suspendCount[u] > 0}
  <1>1. /\ suspendCount' = [u \in Threads |-> suspendCount[u] + IF u \in A THEN -1 ELSE 0]
        /\ dbgSuspendCount' = [u \in Threads |-> dbgSuspendCount[u] +
                IF u \in A THEN IF Debug(cause[t]) THEN -1 ELSE 0 ELSE 0]
    BY DEF ResumeOthers, AddToSuspendCounts
  <1>2. /\ \A u \in Threads : suspendCount[u] \in Nat /\ dbgSuspendCount[u] \in Int
        /\ \A u \in Threads \ robbed : dbgSuspendCount[u] >= 0
    BY DEF Inv, TypeOK
  <1>3. CASE cause[t] = "gc"
    <2>1. Holds(t)
      BY <1>3 DEF ResumeOthers, Holds, At
    <2>2. \A u \in Others(t) : suspendCount[u] > dbgSuspendCount[u]
      BY <2>1, HeldIsCounted DEF Inv
    <2>3. \A u \in Others(t) \ robbed : u \in A
      BY <1>2, <1>3, <2>2 DEF Affected, Others
    <2>4. A \subseteq Others(t)
      BY DEF Affected
    <2> QED BY <1>1, <1>2, <1>3, <2>2, <2>3, <2>4 DEF Debug, Others
  <1>4. CASE cause[t] # "gc"
    <2>1. t = Jdwp /\ cause[t] = "debug"
      BY <1>4 DEF Inv, PlaceInv, CauseInv, ResumeOthers, At
    <2>2. \A u \in Threads : ~Holds(u)
      BY <1>4, <2>1, DebuggerAlone DEF Inv, ResumeOthers
    <2>3. \A u \in Threads \ robbed : suspendCount[u] = dbgSuspendCount[u]
      BY <2>2, NobodyHolds DEF Inv
    <2> QED BY <1>1, <1>2, <1>4, <2>1, <2>3 DEF Debug
  <1> QED BY <1>3, <1>4

-----------------------------------------------------------------------------
(* The initial state has the types.                                       *)
LEMMA TypeInit == Init => TypeOK
  BY DEF Init, TypeOK

(* Every step keeps the types.                                             *)
LEMMA TypeNext ==
    ASSUME Inv, [Next]_vars
    PROVE  TypeOK'
  <1>a. TypeOK
    BY DEF Inv
  <1> USE <1>a DEF TypeOK, countVars, lockVars, Goto, Become, At
  <1>1. CASE UNCHANGED vars
    BY <1>1 DEF vars
  <1>2. ASSUME NEW t \in Threads, GoOn(t) PROVE TypeOK'
    BY <1>2 DEF GoOn
  <1>3. ASSUME NEW t \in Threads, SleepAgain(t) PROVE TypeOK'
    BY <1>3 DEF SleepAgain
  <1>4. ASSUME NEW t \in Threads, SafePoint(t) PROVE TypeOK'
    BY <1>4 DEF SafePoint, Sleep
  <1>5. ASSUME NEW t \in Threads, CheckSuspend(t) PROVE TypeOK'
    BY <1>5 DEF CheckSuspend, Sleep, AfterCheck
  <1>6. ASSUME NEW t \in Threads, LockSuspend(t) PROVE TypeOK'
    BY <1>6 DEF LockSuspend, Sleep
  <1>7. ASSUME NEW t \in Threads, SuspendOthers(t) PROVE TypeOK'
    <2>1. Affected(t) \subseteq Threads /\ todo' = [todo EXCEPT ![t] = Affected(t)]
      BY <1>7 DEF SuspendOthers, Affected, Others
    <2>2. todo' \in [Threads -> SUBSET Threads]
      BY <2>1
    <2>3. /\ suspendCount' \in [Threads -> Nat] /\ dbgSuspendCount' \in [Threads -> Int]
          /\ \A u \in Threads \ robbed : dbgSuspendCount'[u] >= 0
      BY <1>7 DEF SuspendOthers, AddToSuspendCounts
    <2> QED BY <1>7, <2>2, <2>3 DEF SuspendOthers, LockList
  <1>8. ASSUME NEW t \in Threads, SeeStopped(t) PROVE TypeOK'
    BY <1>8 DEF SeeStopped
  <1>9. ASSUME NEW t \in Threads, AllStopped(t) PROVE TypeOK'
    BY <1>9 DEF AllStopped
  <1>10. ASSUME NEW t \in Threads, EndGc(t) PROVE TypeOK'
    BY <1>10 DEF EndGc
  <1>11. ASSUME NEW t \in Threads, ResumeOthers(t) PROVE TypeOK'
    <2>1. /\ suspendCount' \in [Threads -> Nat] /\ dbgSuspendCount' \in [Threads -> Int]
          /\ \A u \in Threads \ robbed : dbgSuspendCount'[u] >= 0
      BY <1>11, ResumeCounts
    <2> QED BY <1>11, <2>1 DEF ResumeOthers, PassList
  <1>12. ASSUME NEW t \in Threads, Broadcast(t) PROVE TypeOK'
    BY <1>12 DEF Broadcast
  <1>13. ASSUME NEW t \in Threads, HoldList(t) PROVE TypeOK'
    BY <1>13 DEF HoldList, LockList
  <1>14. ASSUME NEW t \in Threads, UnlockList(t) PROVE TypeOK'
    BY <1>14 DEF UnlockList
  <1>15. ASSUME NEW t \in Threads, SetWaitForEventThread(t) PROVE TypeOK'
    BY <1>15 DEF SetWaitForEventThread
  <1>16. ASSUME NEW t \in Threads, SuspendSelf(t) PROVE TypeOK'
    BY <1>16 DEF SuspendSelf, AddToSuspendCounts
  <1>17. ASSUME NEW t \in Mutators, CallNative(t) PROVE TypeOK'
    BY <1>17 DEF CallNative
  <1>18. ASSUME NEW t \in Mutators, Return(t) PROVE TypeOK'
    BY <1>18 DEF Return
  <1>19. ASSUME NEW t \in Mutators, Collect(t) PROVE TypeOK'
    BY <1>19 DEF Collect
  <1>20. ASSUME NEW t \in Mutators, ListThreads(t) PROVE TypeOK'
    BY <1>20 DEF ListThreads
  <1>21. ASSUME NEW t \in Mutators, PostEvent(t) PROVE TypeOK'
    BY <1>21 DEF PostEvent
  <1>22. CASE UndoDebuggerSuspensions
    <2>1. \A u \in Threads : dbgSuspendCount[u] <= suspendCount[u]
      BY DebuggerShare DEF Inv
    <2> QED BY <1>22, <2>1 DEF UndoDebuggerSuspensions, PassList
  <1>23. CASE DdmDisconnected
    BY <1>23 DEF DdmDisconnected
  <1>24. CASE ProcessRequest
    BY <1>24 DEF ProcessRequest
  <1>25. CASE Handle
    BY <1>25 DEF Handle
  <1>26. CASE OneThread
    <2>1. /\ suspendCount' \in [Threads -> Nat] /\ dbgSuspendCount' \in [Threads -> Int]
          /\ \A u \in Threads \ robbed' : dbgSuspendCount'[u] >= 0
          /\ robbed' \subseteq Mutators
      BY <1>26 DEF OneThread, AddToSuspendCounts
    <2> QED BY <1>26, <2>1 DEF OneThread, LockList, PassList
  <1>27. CASE Reply
    BY <1>27 DEF Reply
  <1>28. CASE Receive
    BY <1>28 DEF Receive
  <1>29. CASE Disconnect
    BY <1>29 DEF Disconnect
  <1> QED BY <1>1, <1>2, <1>3, <1>4, <1>5, <1>6, <1>7, <1>8, <1>9, <1>10, <1>11, <1>12,
         <1>13, <1>14, <1>15, <1>16, <1>17, <1>18, <1>19, <1>20, <1>21, <1>22, <1>23,
         <1>24, <1>25, <1>26, <1>27, <1>28, <1>29, Steps

(* Every step keeps the relation of places, statuses and locks.            *)
LEMMA PlaceNext ==
    ASSUME TypeOK, PlaceInv, [Next]_vars
    PROVE  PlaceInv'
  <1> SUFFICES ASSUME NEW u \in Threads
               PROVE  StatusInv(u)' /\ CauseInv(u)' /\ LockInv(u)'
    BY DEF PlaceInv
  <1>a. \A t \in Threads : StatusInv(t) /\ CauseInv(t) /\ LockInv(t)
    BY DEF PlaceInv
  <1> USE <1>a DEF TypeOK, StatusInv, CauseInv, LockInv, On, countVars, lockVars, Goto, Become, At
  <1>1. CASE UNCHANGED vars
    BY <1>1 DEF vars
  <1>2. ASSUME NEW t \in Threads, GoOn(t) PROVE StatusInv(u)' /\ CauseInv(u)' /\ LockInv(u)'
    <2>1. CASE u = t
      <3>1. pc[u] = "sleep" /\ pc'[u] = cont[u] /\ status'[u] = saved[u]
        BY <1>2, <2>1 DEF GoOn, Woken
      <3>2. cause' = cause /\ suspendLock' = suspendLock /\ listLock' = listLock
        BY <1>2 DEF GoOn
      <3> QED BY <3>1, <3>2
    <2>2. CASE u # t
      BY <1>2, <2>2 DEF GoOn
    <2> QED BY <2>1, <2>2
  <1>3. ASSUME NEW t \in Threads, SleepAgain(t) PROVE StatusInv(u)' /\ CauseInv(u)' /\ LockInv(u)'
    BY <1>3 DEF SleepAgain
  <1>4. ASSUME NEW t \in Threads, SafePoint(t) PROVE StatusInv(u)' /\ CauseInv(u)' /\ LockInv(u)'
    BY <1>4 DEF SafePoint, Sleep
  <1>5. ASSUME NEW t \in Threads, CheckSuspend(t) PROVE StatusInv(u)' /\ CauseInv(u)' /\ LockInv(u)'
    BY <1>5 DEF CheckSuspend, Sleep, AfterCheck
  <1>6. ASSUME NEW t \in Threads, LockSuspend(t) PROVE StatusInv(u)' /\ CauseInv(u)' /\ LockInv(u)'
    BY <1>6 DEF LockSuspend, Sleep
  <1>7. ASSUME NEW t \in Threads, SuspendOthers(t) PROVE StatusInv(u)' /\ CauseInv(u)' /\ LockInv(u)'
    BY <1>7 DEF SuspendOthers, LockList, AddToSuspendCounts
  <1>8. ASSUME NEW t \in Threads, SeeStopped(t) PROVE StatusInv(u)' /\ CauseInv(u)' /\ LockInv(u)'
    BY <1>8 DEF SeeStopped
  <1>9. ASSUME NEW t \in Threads, AllStopped(t) PROVE StatusInv(u)' /\ CauseInv(u)' /\ LockInv(u)'
    BY <1>9 DEF AllStopped
  <1>10. ASSUME NEW t \in Threads, EndGc(t) PROVE StatusInv(u)' /\ CauseInv(u)' /\ LockInv(u)'
    BY <1>10 DEF EndGc
  <1>11. ASSUME NEW t \in Threads, ResumeOthers(t) PROVE StatusInv(u)' /\ CauseInv(u)' /\ LockInv(u)'
    BY <1>11 DEF ResumeOthers, PassList, AddToSuspendCounts
  <1>12. ASSUME NEW t \in Threads, Broadcast(t) PROVE StatusInv(u)' /\ CauseInv(u)' /\ LockInv(u)'
    BY <1>12 DEF Broadcast
  <1>13. ASSUME NEW t \in Threads, HoldList(t) PROVE StatusInv(u)' /\ CauseInv(u)' /\ LockInv(u)'
    BY <1>13 DEF HoldList, LockList
  <1>14. ASSUME NEW t \in Threads, UnlockList(t) PROVE StatusInv(u)' /\ CauseInv(u)' /\ LockInv(u)'
    BY <1>14 DEF UnlockList
  <1>15. ASSUME NEW t \in Threads, SetWaitForEventThread(t) PROVE StatusInv(u)' /\ CauseInv(u)' /\ LockInv(u)'
    BY <1>15 DEF SetWaitForEventThread
  <1>16. ASSUME NEW t \in Threads, SuspendSelf(t) PROVE StatusInv(u)' /\ CauseInv(u)' /\ LockInv(u)'
    BY <1>16 DEF SuspendSelf, AddToSuspendCounts
  <1>17. ASSUME NEW t \in Mutators, CallNative(t) PROVE StatusInv(u)' /\ CauseInv(u)' /\ LockInv(u)'
    BY <1>17 DEF CallNative
  <1>18. ASSUME NEW t \in Mutators, Return(t) PROVE StatusInv(u)' /\ CauseInv(u)' /\ LockInv(u)'
    BY <1>18 DEF Return
  <1>19. ASSUME NEW t \in Mutators, Collect(t) PROVE StatusInv(u)' /\ CauseInv(u)' /\ LockInv(u)'
    BY <1>19 DEF Collect
  <1>20. ASSUME NEW t \in Mutators, ListThreads(t) PROVE StatusInv(u)' /\ CauseInv(u)' /\ LockInv(u)'
    BY <1>20 DEF ListThreads
  <1>21. ASSUME NEW t \in Mutators, PostEvent(t) PROVE StatusInv(u)' /\ CauseInv(u)' /\ LockInv(u)'
    BY <1>21 DEF PostEvent
  <1>22. CASE UndoDebuggerSuspensions
    BY <1>22 DEF UndoDebuggerSuspensions, PassList
  <1>23. CASE DdmDisconnected
    BY <1>23 DEF DdmDisconnected
  <1>24. CASE ProcessRequest
    BY <1>24 DEF ProcessRequest
  <1>25. CASE Handle
    BY <1>25 DEF Handle
  <1>26. CASE OneThread
    <2>1. CASE u = Jdwp
      <3>1. /\ pc[u] = "list" /\ pc'[u] \in {"await", "reply"} /\ cause' = cause
            /\ pc'[u] = "await" => listLock' = u
        BY <1>26, <2>1 DEF OneThread, LockList
      <3> QED BY <2>1, <3>1
    <2>2. CASE u # Jdwp
      <3>1. pc'[u] = pc[u] /\ status'[u] = status[u] /\ cause' = cause /\ cont' = cont
        BY <1>26, <2>2 DEF OneThread, LockList, PassList
      <3>2. /\ saved' = saved /\ suspendLock' = suspendLock
            /\ listLock = Nobody
        BY <1>26 DEF OneThread, LockList, PassList
      <3> QED BY <2>2, <3>1, <3>2
    <2> QED BY <2>1, <2>2
  <1>27. CASE Reply
    BY <1>27 DEF Reply
  <1>28. CASE Receive
    BY <1>28 DEF Receive
  <1>29. CASE Disconnect
    BY <1>29 DEF Disconnect
  <1> QED BY <1>1, <1>2, <1>3, <1>4, <1>5, <1>6, <1>7, <1>8, <1>9, <1>10, <1>11, <1>12,
         <1>13, <1>14, <1>15, <1>16, <1>17, <1>18, <1>19, <1>20, <1>21, <1>22, <1>23,
         <1>24, <1>25, <1>26, <1>27, <1>28, <1>29, Steps

(* Every step keeps what the debugger has asked for.                       *)
LEMMA RequestNext ==
    ASSUME TypeOK, PlaceInv, RequestInv, [Next]_vars
    PROVE  RequestInv'
  <1>a. CauseInv(Jdwp)
    BY DEF PlaceInv
  <1> USE <1>a DEF TypeOK, RequestInv, CauseInv, On, countVars, lockVars, Goto, Become, At
  <1>1. CASE UNCHANGED vars
    BY <1>1 DEF vars
  <1>2. ASSUME NEW t \in Threads, GoOn(t) PROVE RequestInv'
    <2>1. CASE t = Jdwp
      <3>1. pc[t] = "sleep" /\ pc'[t] = cont[t] /\ request' = request
        BY <1>2 DEF GoOn, Woken
      <3> QED BY <2>1, <3>1
    <2>2. CASE t # Jdwp
      BY <1>2, <2>2 DEF GoOn
    <2> QED BY <2>1, <2>2
  <1>3. ASSUME NEW t \in Threads, SleepAgain(t) PROVE RequestInv'
    BY <1>3 DEF SleepAgain
  <1>4. ASSUME NEW t \in Threads, SafePoint(t) PROVE RequestInv'
    BY <1>4 DEF SafePoint, Sleep
  <1>5. ASSUME NEW t \in Threads, CheckSuspend(t) PROVE RequestInv'
    BY <1>5 DEF CheckSuspend, Sleep, AfterCheck
  <1>6. ASSUME NEW t \in Threads, LockSuspend(t) PROVE RequestInv'
    BY <1>6 DEF LockSuspend, Sleep
  <1>7. ASSUME NEW t \in Threads, SuspendOthers(t) PROVE RequestInv'
    BY <1>7 DEF SuspendOthers, LockList, AddToSuspendCounts
  <1>8. ASSUME NEW t \in Threads, SeeStopped(t) PROVE RequestInv'
    BY <1>8 DEF SeeStopped
  <1>9. ASSUME NEW t \in Threads, AllStopped(t) PROVE RequestInv'
    BY <1>9 DEF AllStopped
  <1>10. ASSUME NEW t \in Threads, EndGc(t) PROVE RequestInv'
    BY <1>10 DEF EndGc
  <1>11. ASSUME NEW t \in Threads, ResumeOthers(t) PROVE RequestInv'
    BY <1>11 DEF ResumeOthers, PassList, AddToSuspendCounts
  <1>12. ASSUME NEW t \in Threads, Broadcast(t) PROVE RequestInv'
    BY <1>12 DEF Broadcast
  <1>13. ASSUME NEW t \in Threads, HoldList(t) PROVE RequestInv'
    BY <1>13 DEF HoldList, LockList
  <1>14. ASSUME NEW t \in Threads, UnlockList(t) PROVE RequestInv'
    BY <1>14 DEF UnlockList
  <1>15. ASSUME NEW t \in Threads, SetWaitForEventThread(t) PROVE RequestInv'
    BY <1>15 DEF SetWaitForEventThread
  <1>16. ASSUME NEW t \in Threads, SuspendSelf(t) PROVE RequestInv'
    BY <1>16 DEF SuspendSelf, AddToSuspendCounts
  <1>17. ASSUME NEW t \in Mutators, CallNative(t) PROVE RequestInv'
    BY <1>17 DEF CallNative
  <1>18. ASSUME NEW t \in Mutators, Return(t) PROVE RequestInv'
    BY <1>18 DEF Return
  <1>19. ASSUME NEW t \in Mutators, Collect(t) PROVE RequestInv'
    BY <1>19 DEF Collect
  <1>20. ASSUME NEW t \in Mutators, ListThreads(t) PROVE RequestInv'
    BY <1>20 DEF ListThreads
  <1>21. ASSUME NEW t \in Mutators, PostEvent(t) PROVE RequestInv'
    BY <1>21 DEF PostEvent
  <1>22. CASE UndoDebuggerSuspensions
    BY <1>22 DEF UndoDebuggerSuspensions, PassList
  <1>23. CASE DdmDisconnected
    BY <1>23 DEF DdmDisconnected
  <1>24. CASE ProcessRequest
    BY <1>24 DEF ProcessRequest
  <1>25. CASE Handle
    BY <1>25 DEF Handle
  <1>26. CASE OneThread
    BY <1>26 DEF OneThread, LockList, AddToSuspendCounts
  <1>27. CASE Reply
    BY <1>27 DEF Reply
  <1>28. CASE Receive
    BY <1>28 DEF Receive
  <1>29. CASE Disconnect
    BY <1>29 DEF Disconnect
  <1> QED BY <1>1, <1>2, <1>3, <1>4, <1>5, <1>6, <1>7, <1>8, <1>9, <1>10, <1>11, <1>12,
         <1>13, <1>14, <1>15, <1>16, <1>17, <1>18, <1>19, <1>20, <1>21, <1>22, <1>23,
         <1>24, <1>25, <1>26, <1>27, <1>28, <1>29, Steps

-----------------------------------------------------------------------------
(* CountsCover holds on where the collections that hold the world stay the *)
(* same and both counts of a thread change alike.                          *)
LEMMA CountsSame ==
    ASSUME CountsCover,
           \A v \in Threads : Holds(v)' <=> Holds(v),
           \A v \in Threads : suspendCount'[v] - dbgSuspendCount'[v]
                                 = suspendCount[v] - dbgSuspendCount[v],
           robbed \subseteq robbed'
    PROVE  CountsCover'
  <1>1. ASSUME NEW u \in Threads PROVE Holders(u)' = Holders(u)
    <2>1. {v \in Others(u) : Holds(v)'} = {v \in Others(u) : Holds(v)}
      BY DEF Others
    <2> QED BY <2>1 DEF Holders, Others
  <1> QED BY <1>1 DEF CountsCover

(* A collection that begins or ceases to hold the world is one more, or    *)
(* one less, for every other thread.                                       *)
LEMMA HoldersChange ==
    ASSUME NEW t \in Threads, NEW u \in Threads,
           \A v \in Threads \ {t} : Holds(v)' <=> Holds(v)
    PROVE  /\ Holders(u) \in Nat
           /\ t = u => Holders(u)' = Holders(u)
           /\ t # u /\ ~Holds(t) /\ Holds(t)' => Holders(u)' = Holders(u) + 1
           /\ t # u /\ Holds(t) /\ ~Holds(t)' => Holders(u)' = Holders(u) - 1
  <1> DEFINE B == {v \in Others(u) : Holds(v)}
             A == {v \in Others(u) : Holds(v)'}
  <1>1. IsFiniteSet(B) /\ IsFiniteSet(A)
    BY Finite DEF Others
  <1>2. ASSUME t = u PROVE A = B
    BY <1>2 DEF Others
  <1>3. ASSUME t # u, ~Holds(t), Holds(t)' PROVE A = B \cup {t} /\ t \notin B
    BY <1>3 DEF Others
  <1>4. ASSUME t # u, Holds(t), ~Holds(t)' PROVE A = B \ {t} /\ t \in B
    BY <1>4 DEF Others
  <1>5. ASSUME t # u, ~Holds(t), Holds(t)' PROVE Cardinality(A) = Cardinality(B) + 1
    BY <1>1, <1>3, <1>5, FS_AddElement
  <1>6. ASSUME t # u, Holds(t), ~Holds(t)' PROVE Cardinality(A) = Cardinality(B) - 1
    <2> HIDE DEF A, B
    <2>1. Cardinality(B \ {t}) = IF t \in B THEN Cardinality(B) - 1 ELSE Cardinality(B)
      BY <1>1, FS_RemoveElement
    <2> QED BY <1>4, <1>6, <2>1
  <1>7. Holders(u) = Cardinality(B) /\ Holders(u)' = Cardinality(A)
    BY DEF Holders, Others
  <1>8. Cardinality(B) \in Nat
    BY <1>1, FS_CardinalityType
  <1> HIDE DEF A, B
  <1> QED BY <1>2, <1>5, <1>6, <1>7, <1>8

(* Every step keeps the count of collections.                              *)
LEMMA CountsNext ==
    ASSUME Inv, [Next]_vars
    PROVE  CountsCover'
  <1> DEFINE Same == /\ \A v \in Threads : Holds(v)' <=> Holds(v)
                     /\ \A v \in Threads : suspendCount'[v] - dbgSuspendCount'[v]
                                               = suspendCount[v] - dbgSuspendCount[v]
                     /\ robbed \subseteq robbed'
  <1>a. TypeOK /\ CountsCover
    BY DEF Inv
  <1>b. \A t \in Threads : CauseInv(t)
    BY DEF Inv, PlaceInv
  <1> USE <1>a, <1>b DEF TypeOK, CauseInv, On, Holds, countVars, lockVars, Goto, Become, At
  <1>1. ASSUME UNCHANGED vars PROVE Same
    BY <1>1 DEF vars
  <1>2. ASSUME NEW t \in Threads, GoOn(t) PROVE Same
    BY <1>2 DEF GoOn, Woken
  <1>3. ASSUME NEW t \in Threads, SleepAgain(t) PROVE Same
    BY <1>3 DEF SleepAgain
  <1>4. ASSUME NEW t \in Threads, SafePoint(t) PROVE Same
    BY <1>4 DEF SafePoint, Sleep
  <1>5. ASSUME NEW t \in Threads, CheckSuspend(t) PROVE Same
    BY <1>5 DEF CheckSuspend, Sleep, AfterCheck
  <1>6. ASSUME NEW t \in Threads, LockSuspend(t) PROVE Same
    BY <1>6 DEF LockSuspend, Sleep
  <1>7. ASSUME NEW t \in Threads, SuspendOthers(t) PROVE CountsCover'
    <2>1. /\ suspendCount' = [u \in Threads |-> suspendCount[u] + IF u \in Affected(t) THEN 1 ELSE 0]
          /\ dbgSuspendCount' = [u \in Threads |-> dbgSuspendCount[u] +
                  IF u \in Affected(t) THEN IF Debug(cause[t]) THEN 1 ELSE 0 ELSE 0]
      BY <1>7 DEF SuspendOthers, AddToSuspendCounts
    <2>2. \A v \in Threads \ {t} : Holds(v)' <=> Holds(v)
      BY <1>7 DEF SuspendOthers
    <2>3. ~Holds(t)
      BY <1>7 DEF SuspendOthers
    <2>4. CASE cause[t] = "gc"
      <3>1. Holds(t)'
        BY <1>7, <2>4 DEF SuspendOthers
      <3> SUFFICES ASSUME NEW u \in Threads
                   PROVE  /\ suspendCount'[u] - dbgSuspendCount'[u] >= Holders(u)'
                          /\ u \notin robbed =>
                                 suspendCount'[u] - dbgSuspendCount'[u] = Holders(u)'
        BY <1>7 DEF CountsCover, SuspendOthers
      <3>a. /\ suspendCount[u] - dbgSuspendCount[u] >= Holders(u)
            /\ u \notin robbed => suspendCount[u] - dbgSuspendCount[u] = Holders(u)
        BY DEF CountsCover
      <3>b. suspendCount[u] - dbgSuspendCount[u] \in Int
        OBVIOUS
      <3>2. suspendCount'[u] - dbgSuspendCount'[u]
                = suspendCount[u] - dbgSuspendCount[u] + IF u = t THEN 0 ELSE 1
        BY <2>1, <2>4 DEF Affected, Others, Debug
      <3>3. Holders(u) \in Nat /\ Holders(u)' = Holders(u) + IF u = t THEN 0 ELSE 1
        <4> HIDE DEF Holds
        <4> QED BY <2>2, <2>3, <3>1, HoldersChange
      <3> QED BY <3>a, <3>b, <3>2, <3>3
    <2>5. CASE cause[t] # "gc"
      <3>1. Debug(cause[t]) /\ ~Holds(t)'
        BY <1>7, <2>5 DEF SuspendOthers, Debug
      <3>2. Same
        BY <1>7, <2>1, <2>2, <2>3, <2>5, <3>1 DEF SuspendOthers
      <3> QED BY <3>2, CountsSame
    <2> QED BY <2>4, <2>5
  <1>8. ASSUME NEW t \in Threads, SeeStopped(t) PROVE Same
    BY <1>8 DEF SeeStopped
  <1>9. ASSUME NEW t \in Threads, AllStopped(t) PROVE Same
    BY <1>9 DEF AllStopped
  <1>10. ASSUME NEW t \in Threads, EndGc(t) PROVE Same
    BY <1>10 DEF EndGc
  <1>11. ASSUME NEW t \in Threads, ResumeOthers(t) PROVE CountsCover'
    <2>1. \A u \in Threads :
              LET before == suspendCount[u] - dbgSuspendCount[u]
                  after  == suspendCount'[u] - dbgSuspendCount'[u]
                  share  == IF cause[t] = "gc" /\ u # t THEN 1 ELSE 0
              IN  /\ after \in {before, before - share}
                  /\ u \notin robbed => after = before - share
      BY <1>11, ResumeCounts
    <2>2. \A v \in Threads \ {t} : Holds(v)' <=> Holds(v)
      BY <1>11 DEF ResumeOthers
    <2>3. ~Holds(t)'
      BY <1>11 DEF ResumeOthers
    <2>4. CASE cause[t] = "gc"
      <3>1. Holds(t)
        BY <1>11, <2>4 DEF ResumeOthers
      <3> SUFFICES ASSUME NEW u \in Threads
                   PROVE  /\ suspendCount'[u] - dbgSuspendCount'[u] >= Holders(u)'
                          /\ u \notin robbed =>
                                 suspendCount'[u] - dbgSuspendCount'[u] = Holders(u)'
        BY <1>11 DEF CountsCover, ResumeOthers
      <3>2. /\ suspendCount[u] - dbgSuspendCount[u] >= Holders(u)
            /\ u \notin robbed => suspendCount[u] - dbgSuspendCount[u] = Holders(u)
        BY DEF CountsCover
      <3>3. Holders(u) \in Nat /\ Holders(u)' = Holders(u) - IF u = t THEN 0 ELSE 1
        <4> HIDE DEF Holds
        <4> QED BY <2>2, <2>3, <3>1, HoldersChange
      <3>4. suspendCount[u] - dbgSuspendCount[u] \in Int
        OBVIOUS
      <3> QED BY <2>1, <2>4, <3>2, <3>3, <3>4
    <2>5. CASE cause[t] # "gc"
      <3>1. Same
        BY <1>11, <2>1, <2>2, <2>3, <2>5 DEF ResumeOthers
      <3> QED BY <3>1, CountsSame
    <2> QED BY <2>4, <2>5
  <1>12. ASSUME NEW t \in Threads, Broadcast(t) PROVE Same
    BY <1>12 DEF Broadcast
  <1>13. ASSUME NEW t \in Threads, HoldList(t) PROVE Same
    BY <1>13 DEF HoldList, LockList
  <1>14. ASSUME NEW t \in Threads, UnlockList(t) PROVE Same
    BY <1>14 DEF UnlockList
  <1>15. ASSUME NEW t \in Threads, SetWaitForEventThread(t) PROVE Same
    BY <1>15 DEF SetWaitForEventThread
  <1>16. ASSUME NEW t \in Threads, SuspendSelf(t) PROVE Same
    BY <1>16 DEF SuspendSelf, AddToSuspendCounts
  <1>17. ASSUME NEW t \in Mutators, CallNative(t) PROVE Same
    BY <1>17 DEF CallNative
  <1>18. ASSUME NEW t \in Mutators, Return(t) PROVE Same
    BY <1>18 DEF Return
  <1>19. ASSUME NEW t \in Mutators, Collect(t) PROVE Same
    BY <1>19 DEF Collect
  <1>20. ASSUME NEW t \in Mutators, ListThreads(t) PROVE Same
    BY <1>20 DEF ListThreads
  <1>21. ASSUME NEW t \in Mutators, PostEvent(t) PROVE Same
    BY <1>21 DEF PostEvent
  <1>22. ASSUME UndoDebuggerSuspensions PROVE Same
    BY <1>22 DEF UndoDebuggerSuspensions, PassList
  <1>23. ASSUME DdmDisconnected PROVE Same
    BY <1>23 DEF DdmDisconnected
  <1>24. ASSUME ProcessRequest PROVE Same
    BY <1>24 DEF ProcessRequest
  <1>25. ASSUME Handle PROVE Same
    BY <1>25 DEF Handle
  <1>26. ASSUME OneThread PROVE Same
    BY <1>26 DEF OneThread, LockList, PassList, AddToSuspendCounts
  <1>27. ASSUME Reply PROVE Same
    BY <1>27 DEF Reply
  <1>28. ASSUME Receive PROVE Same
    BY <1>28 DEF Receive
  <1>29. ASSUME Disconnect PROVE Same
    BY <1>29 DEF Disconnect
  <1> QED BY <1>1, <1>2, <1>3, <1>4, <1>5, <1>6, <1>7, <1>8, <1>9, <1>10, <1>11, <1>12,
         <1>13, <1>14, <1>15, <1>16, <1>17, <1>18, <1>19, <1>20, <1>21, <1>22, <1>23,
         <1>24, <1>25, <1>26, <1>27, <1>28, <1>29, Steps, CountsSame

-----------------------------------------------------------------------------
(* Who has been robbed stays so.                                           *)
LEMMA RobbedStays ==
    ASSUME [Next]_vars
    PROVE  robbed \subseteq robbed'
  BY Steps DEF vars, GoOn, SleepAgain, SafePoint, CheckSuspend, LockSuspend,
     SuspendOthers, SeeStopped, AllStopped, EndGc, ResumeOthers, Broadcast, HoldList,
     UnlockList, SetWaitForEventThread, SuspendSelf, CallNative, Return, Collect,
     ListThreads, PostEvent, UndoDebuggerSuspensions, DdmDisconnected, ProcessRequest,
     Handle, OneThread, Reply, Receive, Disconnect

(* Every step leaves a thread its suspension while the collector waits.    *)
LEMMA AwaitNext ==
    ASSUME Inv, [Next]_vars
    PROVE  AwaitInv'
  <1> SUFFICES ASSUME NEW c \in Threads, NEW u \in Others(c),
                      At(c, "await")', cause'[c] = "gc"
               PROVE  suspendCount'[u] # 0
    BY DEF AwaitInv, Others
  <1>a. TypeOK /\ u \in Threads /\ u # c
    BY DEF Inv, Others
  <1>b. CauseInv(c) /\ LockInv(c)
    BY DEF Inv, PlaceInv
  <1>c. At(c, "await") /\ cause[c] = "gc" => suspendCount[u] # 0
    BY DEF Inv, AwaitInv
  <1> DEFINE Goal == suspendCount'[u] # 0
  <1> USE <1>a, <1>b, <1>c DEF TypeOK, CauseInv, LockInv, On, countVars, lockVars,
                               Goto, Become, At
  <1>1. CASE UNCHANGED vars
    BY <1>1 DEF vars
  <1>2. ASSUME NEW t \in Threads, GoOn(t) PROVE Goal
    BY <1>2 DEF GoOn, Woken
  <1>3. ASSUME NEW t \in Threads, SleepAgain(t) PROVE Goal
    BY <1>3 DEF SleepAgain
  <1>4. ASSUME NEW t \in Threads, SafePoint(t) PROVE Goal
    BY <1>4 DEF SafePoint, Sleep
  <1>5. ASSUME NEW t \in Threads, CheckSuspend(t) PROVE Goal
    BY <1>5 DEF CheckSuspend, Sleep, AfterCheck
  <1>6. ASSUME NEW t \in Threads, LockSuspend(t) PROVE Goal
    BY <1>6 DEF LockSuspend, Sleep
  <1>7. ASSUME NEW t \in Threads, SuspendOthers(t) PROVE Goal
    <2>1. CASE t = c
      BY <1>7, <2>1 DEF SuspendOthers, AddToSuspendCounts, Affected, Others
    <2>2. CASE t # c
      BY <1>7, <2>2 DEF SuspendOthers, LockList
    <2> QED BY <2>1, <2>2
  <1>8. ASSUME NEW t \in Threads, SeeStopped(t) PROVE Goal
    BY <1>8 DEF SeeStopped
  <1>9. ASSUME NEW t \in Threads, AllStopped(t) PROVE Goal
    BY <1>9 DEF AllStopped
  <1>10. ASSUME NEW t \in Threads, EndGc(t) PROVE Goal
    BY <1>10 DEF EndGc
  <1>11. ASSUME NEW t \in Threads, ResumeOthers(t) PROVE Goal
    BY <1>11 DEF ResumeOthers, PassList
  <1>12. ASSUME NEW t \in Threads, Broadcast(t) PROVE Goal
    BY <1>12 DEF Broadcast
  <1>13. ASSUME NEW t \in Threads, HoldList(t) PROVE Goal
    BY <1>13 DEF HoldList, LockList
  <1>14. ASSUME NEW t \in Threads, UnlockList(t) PROVE Goal
    BY <1>14 DEF UnlockList
  <1>15. ASSUME NEW t \in Threads, SetWaitForEventThread(t) PROVE Goal
    BY <1>15 DEF SetWaitForEventThread
  <1>16. ASSUME NEW t \in Threads, SuspendSelf(t) PROVE Goal
    BY <1>16 DEF SuspendSelf, AddToSuspendCounts
  <1>17. ASSUME NEW t \in Mutators, CallNative(t) PROVE Goal
    BY <1>17 DEF CallNative
  <1>18. ASSUME NEW t \in Mutators, Return(t) PROVE Goal
    BY <1>18 DEF Return
  <1>19. ASSUME NEW t \in Mutators, Collect(t) PROVE Goal
    BY <1>19 DEF Collect
  <1>20. ASSUME NEW t \in Mutators, ListThreads(t) PROVE Goal
    BY <1>20 DEF ListThreads
  <1>21. ASSUME NEW t \in Mutators, PostEvent(t) PROVE Goal
    BY <1>21 DEF PostEvent
  <1>22. CASE UndoDebuggerSuspensions
    BY <1>22 DEF UndoDebuggerSuspensions, PassList
  <1>23. CASE DdmDisconnected
    BY <1>23 DEF DdmDisconnected
  <1>24. CASE ProcessRequest
    BY <1>24 DEF ProcessRequest
  <1>25. CASE Handle
    BY <1>25 DEF Handle
  <1>26. CASE OneThread
    BY <1>26 DEF OneThread, LockList, PassList
  <1>27. CASE Reply
    BY <1>27 DEF Reply
  <1>28. CASE Receive
    BY <1>28 DEF Receive
  <1>29. CASE Disconnect
    BY <1>29 DEF Disconnect
  <1> QED BY <1>1, <1>2, <1>3, <1>4, <1>5, <1>6, <1>7, <1>8, <1>9, <1>10, <1>11, <1>12,
         <1>13, <1>14, <1>15, <1>16, <1>17, <1>18, <1>19, <1>20, <1>21, <1>22, <1>23,
         <1>24, <1>25, <1>26, <1>27, <1>28, <1>29, Steps

(* Every step keeps quiet whom a collector has seen.                       *)
LEMMA WorldNext ==
    ASSUME Inv, [Next]_vars
    PROVE  WorldInv'
  <1> SUFFICES ASSUME NEW c \in Threads, NEW u \in Others(c),
                        u \in robbed' => At(c, "await")'
               PROVE  HasSeen(c, u)' => Quiet(u)'
    BY DEF WorldInv, Others
  <1>a. TypeOK /\ u \in Threads /\ u # c
    BY DEF Inv, Others
  <1>b. /\ StatusInv(c) /\ CauseInv(c) /\ LockInv(c)
        /\ StatusInv(u) /\ CauseInv(u) /\ LockInv(u)
    BY <1>a DEF Inv, PlaceInv
  <1>r. u \in robbed => At(c, "await")'
    BY RobbedStays
  <1>c. HasSeen(c, u) /\ (u \in robbed => At(c, "await")) => Quiet(u) /\ Holds(c)
    BY DEF Inv, WorldInv, HasSeen, Holds, At
  <1>d. HasSeen(u, c) /\ At(u, "await") => Quiet(c)
    BY <1>a DEF Inv, WorldInv, Others
  <1>e. Holds(c) /\ (u \in robbed => At(c, "await")) => suspendCount[u] # 0
    <2>1. Holds(c) => suspendCount[u] > dbgSuspendCount[u]
      BY HeldIsCounted DEF Inv
    <2> QED BY <1>a, <2>1 DEF Inv, TypeOK, AwaitInv, Holds
  <1> USE <1>a, <1>b, <1>r, <1>c, <1>d, <1>e
      DEF TypeOK, StatusInv, CauseInv, LockInv, On, Holds, HasSeen, Quiet,
          countVars, lockVars, Goto, Become, At
  <1>1. CASE UNCHANGED vars
    BY <1>1 DEF vars
  <1>2. ASSUME NEW t \in Threads, GoOn(t) PROVE HasSeen(c, u)' => Quiet(u)'
    BY <1>2 DEF GoOn, Woken
  <1>3. ASSUME NEW t \in Threads, SleepAgain(t) PROVE HasSeen(c, u)' => Quiet(u)'
    BY <1>3 DEF SleepAgain
  <1>4. ASSUME NEW t \in Threads, SafePoint(t) PROVE HasSeen(c, u)' => Quiet(u)'
    BY <1>4 DEF SafePoint, Sleep
  <1>5. ASSUME NEW t \in Threads, CheckSuspend(t) PROVE HasSeen(c, u)' => Quiet(u)'
    BY <1>5 DEF CheckSuspend, Sleep, AfterCheck
  <1>6. ASSUME NEW t \in Threads, LockSuspend(t) PROVE HasSeen(c, u)' => Quiet(u)'
    BY <1>6 DEF LockSuspend, Sleep
  <1>7. ASSUME NEW t \in Threads, SuspendOthers(t) PROVE HasSeen(c, u)' => Quiet(u)'
    BY <1>7 DEF SuspendOthers, Affected, LockList, AddToSuspendCounts
  <1>8. ASSUME NEW t \in Threads, SeeStopped(t) PROVE HasSeen(c, u)' => Quiet(u)'
    BY <1>8 DEF SeeStopped
  <1>9. ASSUME NEW t \in Threads, AllStopped(t) PROVE HasSeen(c, u)' => Quiet(u)'
    BY <1>9 DEF AllStopped
  <1>10. ASSUME NEW t \in Threads, EndGc(t) PROVE HasSeen(c, u)' => Quiet(u)'
    BY <1>10 DEF EndGc
  <1>11. ASSUME NEW t \in Threads, ResumeOthers(t) PROVE HasSeen(c, u)' => Quiet(u)'
    BY <1>11 DEF ResumeOthers, PassList, AddToSuspendCounts
  <1>12. ASSUME NEW t \in Threads, Broadcast(t) PROVE HasSeen(c, u)' => Quiet(u)'
    BY <1>12 DEF Broadcast
  <1>13. ASSUME NEW t \in Threads, HoldList(t) PROVE HasSeen(c, u)' => Quiet(u)'
    BY <1>13 DEF HoldList, LockList
  <1>14. ASSUME NEW t \in Threads, UnlockList(t) PROVE HasSeen(c, u)' => Quiet(u)'
    BY <1>14 DEF UnlockList
  <1>15. ASSUME NEW t \in Threads, SetWaitForEventThread(t) PROVE HasSeen(c, u)' => Quiet(u)'
    BY <1>15 DEF SetWaitForEventThread
  <1>16. ASSUME NEW t \in Threads, SuspendSelf(t) PROVE HasSeen(c, u)' => Quiet(u)'
    BY <1>16 DEF SuspendSelf, AddToSuspendCounts
  <1>17. ASSUME NEW t \in Mutators, CallNative(t) PROVE HasSeen(c, u)' => Quiet(u)'
    BY <1>17 DEF CallNative
  <1>18. ASSUME NEW t \in Mutators, Return(t) PROVE HasSeen(c, u)' => Quiet(u)'
    BY <1>18 DEF Return
  <1>19. ASSUME NEW t \in Mutators, Collect(t) PROVE HasSeen(c, u)' => Quiet(u)'
    BY <1>19 DEF Collect
  <1>20. ASSUME NEW t \in Mutators, ListThreads(t) PROVE HasSeen(c, u)' => Quiet(u)'
    BY <1>20 DEF ListThreads
  <1>21. ASSUME NEW t \in Mutators, PostEvent(t) PROVE HasSeen(c, u)' => Quiet(u)'
    BY <1>21 DEF PostEvent
  <1>22. CASE UndoDebuggerSuspensions
    BY <1>22 DEF UndoDebuggerSuspensions, PassList
  <1>23. CASE DdmDisconnected
    BY <1>23 DEF DdmDisconnected
  <1>24. CASE ProcessRequest
    BY <1>24 DEF ProcessRequest
  <1>25. CASE Handle
    BY <1>25 DEF Handle
  <1>26. CASE OneThread
    BY <1>26 DEF OneThread, LockList, PassList, AddToSuspendCounts
  <1>27. CASE Reply
    BY <1>27 DEF Reply
  <1>28. CASE Receive
    BY <1>28 DEF Receive
  <1>29. CASE Disconnect
    BY <1>29 DEF Disconnect
  <1> QED BY <1>1, <1>2, <1>3, <1>4, <1>5, <1>6, <1>7, <1>8, <1>9, <1>10, <1>11, <1>12,
         <1>13, <1>14, <1>15, <1>16, <1>17, <1>18, <1>19, <1>20, <1>21, <1>22, <1>23,
         <1>24, <1>25, <1>26, <1>27, <1>28, <1>29, Steps

-----------------------------------------------------------------------------
(* SleeperHasWaker holds on where only threads with a count go to sleep,   *)
(* no count falls to 0 and nobody leaves off a broadcast.                  *)
LEMMA SleeperSame ==
    ASSUME SleeperHasWaker, asleep \subseteq Threads, asleep' \subseteq Threads,
           \A v \in asleep' : suspendCount'[v] = 0 => v \in asleep /\ suspendCount[v] = 0,
           \A v \in Threads : At(v, "broadcast") => At(v, "broadcast")'
    PROVE  SleeperHasWaker'
  BY DEF SleeperHasWaker

(* Every step leaves every sleeper its waker.                              *)
LEMMA SleeperNext ==
    ASSUME Inv, [Next]_vars
    PROVE  SleeperHasWaker'
  <1> DEFINE Same ==
          /\ asleep' \subseteq Threads
          /\ \A v \in asleep' : suspendCount'[v] = 0 => v \in asleep /\ suspendCount[v] = 0
          /\ \A v \in Threads : At(v, "broadcast") => At(v, "broadcast")'
  <1>a. TypeOK /\ SleeperHasWaker
    BY DEF Inv
  <1> USE <1>a DEF TypeOK, countVars, lockVars, Goto, Become, At
  <1>1. ASSUME UNCHANGED vars PROVE Same
    BY <1>1 DEF vars
  <1>2. ASSUME NEW t \in Threads, GoOn(t) PROVE Same
    BY <1>2 DEF GoOn, Woken
  <1>3. ASSUME NEW t \in Threads, SleepAgain(t) PROVE Same
    BY <1>3 DEF SleepAgain
  <1>4. ASSUME NEW t \in Threads, SafePoint(t) PROVE Same
    BY <1>4 DEF SafePoint, Sleep
  <1>5. ASSUME NEW t \in Threads, CheckSuspend(t) PROVE Same
    BY <1>5 DEF CheckSuspend, Sleep, AfterCheck
  <1>6. ASSUME NEW t \in Threads, LockSuspend(t) PROVE Same
    BY <1>6 DEF LockSuspend, Sleep
  <1>7. ASSUME NEW t \in Threads, SuspendOthers(t) PROVE Same
    BY <1>7 DEF SuspendOthers, LockList, AddToSuspendCounts
  <1>8. ASSUME NEW t \in Threads, SeeStopped(t) PROVE Same
    BY <1>8 DEF SeeStopped
  <1>9. ASSUME NEW t \in Threads, AllStopped(t) PROVE Same
    BY <1>9 DEF AllStopped
  <1>10. ASSUME NEW t \in Threads, EndGc(t) PROVE Same
    BY <1>10 DEF EndGc
  <1>11. ASSUME NEW t \in Threads, ResumeOthers(t) PROVE SleeperHasWaker'
    <2>1. pc'[t] = "broadcast"
      BY <1>11 DEF ResumeOthers
    <2> QED BY <2>1 DEF SleeperHasWaker
  <1>12. ASSUME NEW t \in Threads, Broadcast(t) PROVE SleeperHasWaker'
    BY <1>12 DEF Broadcast, SleeperHasWaker
  <1>13. ASSUME NEW t \in Threads, HoldList(t) PROVE Same
    BY <1>13 DEF HoldList, LockList
  <1>14. ASSUME NEW t \in Threads, UnlockList(t) PROVE Same
    BY <1>14 DEF UnlockList
  <1>15. ASSUME NEW t \in Threads, SetWaitForEventThread(t) PROVE Same
    BY <1>15 DEF SetWaitForEventThread
  <1>16. ASSUME NEW t \in Threads, SuspendSelf(t) PROVE Same
    BY <1>16 DEF SuspendSelf, AddToSuspendCounts
  <1>17. ASSUME NEW t \in Mutators, CallNative(t) PROVE Same
    BY <1>17 DEF CallNative
  <1>18. ASSUME NEW t \in Mutators, Return(t) PROVE Same
    BY <1>18 DEF Return
  <1>19. ASSUME NEW t \in Mutators, Collect(t) PROVE Same
    BY <1>19 DEF Collect
  <1>20. ASSUME NEW t \in Mutators, ListThreads(t) PROVE Same
    BY <1>20 DEF ListThreads
  <1>21. ASSUME NEW t \in Mutators, PostEvent(t) PROVE Same
    BY <1>21 DEF PostEvent
  <1>22. CASE UndoDebuggerSuspensions
    <2>1. pc'[Jdwp] = "broadcast"
      BY <1>22 DEF UndoDebuggerSuspensions
    <2> QED BY <2>1 DEF SleeperHasWaker
  <1>23. ASSUME DdmDisconnected PROVE Same
    BY <1>23 DEF DdmDisconnected
  <1>24. ASSUME ProcessRequest PROVE Same
    BY <1>24 DEF ProcessRequest
  <1>25. ASSUME Handle PROVE Same
    BY <1>25 DEF Handle
  <1>26. ASSUME OneThread PROVE Same
    <2>1. /\ asleep' \subseteq asleep
          /\ \A v \in asleep' : suspendCount'[v] = 0 => suspendCount[v] = 0
      BY <1>26 DEF OneThread, AddToSuspendCounts
    <2> QED BY <1>26, <2>1 DEF OneThread
  <1>27. ASSUME Reply PROVE Same
    BY <1>27 DEF Reply
  <1>28. ASSUME Receive PROVE Same
    BY <1>28 DEF Receive
  <1>29. ASSUME Disconnect PROVE Same
    BY <1>29 DEF Disconnect
  <1> QED BY <1>1, <1>2, <1>3, <1>4, <1>5, <1>6, <1>7, <1>8, <1>9, <1>10, <1>11, <1>12,
         <1>13, <1>14, <1>15, <1>16, <1>17, <1>18, <1>19, <1>20, <1>21, <1>22, <1>23,
         <1>24, <1>25, <1>26, <1>27, <1>28, <1>29, Steps, SleeperSame

-----------------------------------------------------------------------------
(* The invariant holds initially, ...                                      *)
LEMMA InvInit == Init => Inv
  <1> SUFFICES ASSUME Init PROVE Inv
    OBVIOUS
  <1> USE DEF Init, At
  <1>1. TypeOK
    BY TypeInit
  <1>2. PlaceInv
    BY DEF PlaceInv, StatusInv, CauseInv, LockInv, On
  <1>3. RequestInv
    BY DEF RequestInv, On
  <1>4. CountsCover
    <2>1. \A v \in Threads : ~Holds(v)
      BY DEF Holds
    <2>2. \A u \in Threads : Holders(u) = 0
      <3> SUFFICES ASSUME NEW u \in Threads PROVE Holders(u) = 0
        OBVIOUS
      <3>1. {v \in Others(u) : Holds(v)} = {}
        BY <2>1 DEF Others
      <3> QED BY <3>1, FS_EmptySet DEF Holders
    <2> QED BY <2>2 DEF CountsCover
  <1>5. WorldInv
    BY DEF WorldInv, HasSeen, Holds
  <1>6. SleeperHasWaker
    BY DEF SleeperHasWaker
  <1>7. AwaitInv
    BY DEF AwaitInv
  <1> QED BY <1>1, <1>2, <1>3, <1>4, <1>5, <1>6, <1>7 DEF Inv

(* ... every step keeps it, ...                                            *)
LEMMA InvNext ==
    ASSUME Inv, [Next]_vars
    PROVE  Inv'
  <1>1. TypeOK'
    BY TypeNext
  <1>2. PlaceInv'
    BY PlaceNext DEF Inv
  <1>3. RequestInv'
    BY RequestNext DEF Inv
  <1>4. CountsCover'
    BY CountsNext
  <1>5. WorldInv'
    BY WorldNext
  <1>6. SleeperHasWaker'
    BY SleeperNext
  <1>7. AwaitInv'
    BY AwaitNext
  <1> QED BY <1>1, <1>2, <1>3, <1>4, <1>5, <1>6, <1>7 DEF Inv

(* ... so it holds always.                                                 *)
LEMMA InvAlways == Spec => []Inv
  <1>1. Inv /\ [Next]_vars => Inv'
    BY InvNext
  <1> QED BY <1>1, InvInit, PTL DEF Spec

(* The types are kept: no suspend count falls below 0, nor a debugger's    *)
(* share, but where the debugger has resumed what a collection held.       *)
THEOREM TypeCorrect == Spec => []TypeOK
  <1>1. Inv => TypeOK
    BY DEF Inv
  <1> QED BY <1>1, InvAlways, PTL

(* dvmSuspendAllThreads stops the world: whoever collects is alone with    *)
(* the managed heap, but for threads fresh out of dvmLockThreadList and    *)
(* those that the debugger has resumed although a collection held them.    *)
THEOREM WorldStops == Spec => []StopTheWorld
  <1>1. Inv => StopTheWorld
    <2> SUFFICES ASSUME Inv, NEW t \in Threads, NEW u \in Threads \ robbed,
                        At(t, "stopped"), t # u
                 PROVE  ~AtWork(u)
      BY DEF StopTheWorld
    <2>1. cause[t] = "gc"
      BY DEF Inv, PlaceInv, CauseInv, At
    <2>2. HasSeen(t, u) /\ u \in Others(t)
      BY <2>1 DEF HasSeen, Others
    <2> QED BY <2>2 DEF Inv, WorldInv, Quiet, AtWork
  <1> QED BY <1>1, InvAlways, PTL

(* dvmAddToSuspendCounts keeps the shares of the collector and of the      *)
(* debugger apart, whatever the order of their suspensions and resumes,    *)
(* up to the resume of a thread that only a collection holds; even then    *)
(* the debugger's share never exceeds the count.                           *)
THEOREM CountsApart == Spec => []CountsCover
  <1>1. Inv => CountsCover
    BY DEF Inv
  <1> QED BY <1>1, InvAlways, PTL

(* fullSuspendCheck and dvmResumeAllThreads lose no wakeup: a sleeper      *)
(* without a count has a broadcast under way.                              *)
THEOREM NoLostWakeup == Spec => []SleeperHasWaker
  <1>1. Inv => SleeperHasWaker
    BY DEF Inv
  <1> QED BY <1>1, InvAlways, PTL

=============================================================================
