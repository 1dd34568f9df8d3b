--------------------------- MODULE MonitorProofs ---------------------------
(* Theorems about Monitor, for any number of threads, any size of the      *)
(* count field and any nesting.                                            *)
EXTENDS Monitor, TLAPS, SequenceTheorems

(* The types of what LockInv speaks about. *)
LockType ==
    /\ word \in [fat : BOOLEAN, owner : Threads \cup {NoThread}, count : Nat]
    /\ mutex \in Threads \cup {NoThread}
    /\ owner \in Threads \cup {NoThread}
    /\ lockCount \in Nat
    /\ pc \in [Threads -> Labels]
    /\ prevLockCount \in [Threads -> Nat]
    /\ held \in [Threads -> Nat]

Inv == LockType /\ LockInv

USE DEF Parked, InWait, OnFat, Suspending

(* The first state satisfies the invariant. *)
LEMMA InvInit == Init => Inv
  BY MonitorAssumption
     DEF Init, Inv, LockType, LockInv, WordInv, PlaceInv, HoldInv, Labels,
         Unowned, Thin

(* Nesting one level deeper on a thin lock, which may fatten it. *)
LEMMA LockThinOwnedInv ==
    ASSUME Inv, NEW t \in Threads, LockThinOwned(t)
    PROVE  Inv'
  <1>1. pc[t] = "lock" /\ ~word.fat /\ word.owner = t /\ held[t] = word.count + 1
    BY MonitorAssumption
       DEF LockThinOwned, ThinOwned, Inv, LockInv, WordInv, PlaceInv, HoldInv, LockType
  <1>2. /\ held' = [held EXCEPT ![t] = @ + 1]
        /\ pc' = [pc EXCEPT ![t] = "run"]
        /\ UNCHANGED prevLockCount
    BY DEF LockThinOwned, Returned, Goto, waitVars
  <1>3. CASE word.count + 1 = CountMask
    <2>1. /\ word' = Fat /\ mutex' = t /\ owner' = t /\ lockCount' = word.count + 1
      BY <1>3 DEF LockThinOwned, Inflate
    <2>2. LockType'
      BY <1>2, <1>3, <2>1, MonitorAssumption DEF Inv, LockType, Fat, Labels
    <2>3. WordInv'
      BY <2>1, MonitorAssumption DEF WordInv, Fat
    <2>4. ASSUME NEW u \in Threads PROVE PlaceInv(u)'
      BY <1>1, <1>2, <2>1, <2>4, MonitorAssumption
         DEF Inv, LockInv, WordInv, PlaceInv, LockType, Fat, Labels
    <2>5. ASSUME NEW u \in Threads PROVE HoldInv(u)'
      BY <1>1, <1>2, <2>1, <2>5, MonitorAssumption
         DEF Inv, LockInv, WordInv, PlaceInv, HoldInv, LockType, Fat, Labels
    <2> QED BY <2>2, <2>3, <2>4, <2>5 DEF Inv, LockInv
  <1>4. CASE word.count + 1 # CountMask
    <2>1. word' = Thin(t, word.count + 1) /\ UNCHANGED <<mutex, owner, lockCount>>
      BY <1>4 DEF LockThinOwned
    <2>2. LockType'
      BY <1>2, <2>1, MonitorAssumption DEF Inv, LockType, Thin, Labels
    <2>3. WordInv'
      BY <1>1, <2>1, MonitorAssumption DEF Inv, LockInv, WordInv, Thin
    <2>4. ASSUME NEW u \in Threads PROVE PlaceInv(u)'
      BY <1>1, <1>2, <2>1, <2>4, MonitorAssumption
         DEF Inv, LockInv, WordInv, PlaceInv, LockType, Thin, Labels
    <2>5. ASSUME NEW u \in Threads PROVE HoldInv(u)'
      BY <1>1, <1>2, <2>1, <2>5, MonitorAssumption
         DEF Inv, LockInv, WordInv, PlaceInv, HoldInv, LockType, Thin, Labels
    <2> QED BY <2>2, <2>3, <2>4, <2>5 DEF Inv, LockInv
  <1> QED BY <1>3, <1>4

(* A thread that only moves on, lock and nesting as they are.              *)
LEMMA MoveInv ==
    ASSUME Inv, NEW t \in Threads, NEW label \in Labels,
           UNCHANGED <<wordVars, prevLockCount, held>>, Goto(t, label),
           PlaceInv(t)', HoldInv(t)'
    PROVE  Inv'
  <1>1. LockType'
    BY DEF Inv, LockType, Goto, wordVars
  <1>2. WordInv'
    BY DEF Inv, LockInv, WordInv, wordVars
  <1>3. ASSUME NEW u \in Threads, u # t PROVE PlaceInv(u)' /\ HoldInv(u)'
    <2>1. pc'[u] = pc[u] BY <1>3 DEF Goto, Inv, LockType
    <2> QED BY <1>3, <2>1 DEF Inv, LockInv, PlaceInv, HoldInv, wordVars
  <1> QED BY <1>1, <1>2, <1>3 DEF Inv, LockInv

(* A thread takes an unowned thin lock.                                    *)
LEMMA TakeThinInv ==
    ASSUME Inv, NEW t \in Threads, word = Unowned, word' = Thin(t, 0),
           held[t] = 0, UNCHANGED <<mutex, owner, lockCount, prevLockCount>>,
           \/ /\ pc' = [pc EXCEPT ![t] = "run"]
              /\ held' = [held EXCEPT ![t] = 1]
           \/ /\ pc' = [pc EXCEPT ![t] = "fatten"]
              /\ UNCHANGED held
    PROVE  Inv'
  <1>1. LockType'
    BY MonitorAssumption DEF Inv, LockType, Thin, Labels
  <1>2. WordInv'
    BY MonitorAssumption DEF Inv, LockInv, WordInv, Thin, Unowned
  <1>3. ASSUME NEW u \in Threads PROVE PlaceInv(u)'
    BY <1>3, MonitorAssumption
       DEF Inv, LockInv, WordInv, PlaceInv, LockType, Thin, Unowned, Labels
  <1>4. ASSUME NEW u \in Threads PROVE HoldInv(u)'
    BY <1>4, MonitorAssumption
       DEF Inv, LockInv, WordInv, PlaceInv, HoldInv, LockType, Thin, Unowned, Labels
  <1> QED BY <1>1, <1>2, <1>3, <1>4 DEF Inv, LockInv

(* The winner of the spin turns its thin lock into a Monitor.              *)
LEMMA FattenInv ==
    ASSUME Inv, NEW t \in Threads, Fatten(t)
    PROVE  Inv'
  <1>a. pc[t] = "fatten" /\ ~word.fat /\ word.owner = t /\ word.count = 0 /\ held[t] = 0
    BY DEF Fatten, Inv, LockInv, PlaceInv
  <1>1. /\ word' = Fat /\ mutex' = t /\ owner' = t /\ lockCount' = 0
        /\ held' = [held EXCEPT ![t] = 1]
        /\ pc' = [pc EXCEPT ![t] = "run"] /\ UNCHANGED prevLockCount
    BY <1>a DEF Fatten, Inflate, Returned, Goto, waitVars
  <1>2. LockType'
    BY <1>1, MonitorAssumption DEF Inv, LockType, Fat, Labels
  <1>3. WordInv'
    BY <1>1, MonitorAssumption DEF WordInv, Fat
  <1>4. ASSUME NEW u \in Threads PROVE PlaceInv(u)'
    BY <1>a, <1>1, <1>4, MonitorAssumption
       DEF Inv, LockInv, WordInv, PlaceInv, LockType, Fat, Labels
  <1>5. ASSUME NEW u \in Threads PROVE HoldInv(u)'
    BY <1>a, <1>1, <1>5, MonitorAssumption
       DEF Inv, LockInv, WordInv, PlaceInv, HoldInv, LockType, Fat, Labels
  <1> QED BY <1>2, <1>3, <1>4, <1>5 DEF Inv, LockInv

(* The owner of the Monitor enters once more.                              *)
LEMMA MonitorReenterInv ==
    ASSUME Inv, NEW t \in Threads, MonitorReenter(t)
    PROVE  Inv'
  <1>a. pc[t] = "monitor" /\ owner = t /\ mutex = t /\ held[t] = lockCount + 1 /\ word.fat
    BY MonitorAssumption DEF MonitorReenter, Inv, LockInv, WordInv, PlaceInv, HoldInv, LockType
  <1>1. /\ pc[t] = "monitor" /\ owner = t /\ mutex = t /\ held[t] = lockCount + 1 /\ word.fat
        /\ lockCount' = lockCount + 1 /\ UNCHANGED <<word, mutex, owner, prevLockCount>>
        /\ held' = [held EXCEPT ![t] = @ + 1]
        /\ pc' = [pc EXCEPT ![t] = "run"]
    BY <1>a DEF MonitorReenter, Returned, Goto, waitVars
  <1>2. LockType'
    BY <1>a, <1>1, MonitorAssumption DEF Inv, LockInv, PlaceInv, HoldInv, LockType, Labels
  <1>3. WordInv'
    BY <1>a, <1>1, MonitorAssumption DEF Inv, LockInv, WordInv, PlaceInv, LockType
  <1>4. ASSUME NEW u \in Threads PROVE PlaceInv(u)'
    BY <1>a, <1>1, <1>4, MonitorAssumption
       DEF Inv, LockInv, WordInv, PlaceInv, HoldInv, LockType, Labels
  <1>5. ASSUME NEW u \in Threads PROVE HoldInv(u)'
    BY <1>a, <1>1, <1>5, MonitorAssumption
       DEF Inv, LockInv, WordInv, PlaceInv, HoldInv, LockType, Labels
  <1> QED BY <1>2, <1>3, <1>4, <1>5 DEF Inv, LockInv

(* A thread takes the mutex for the first time.                            *)
LEMMA MonitorEnterInv ==
    ASSUME Inv, NEW t \in Threads, MonitorEnter(t)
    PROVE  Inv'
  <1>a. held[t] = 0 /\ lockCount = 0 /\ word.fat /\ pc[t] \in {"monitor", "blocked"}
    BY MonitorAssumption DEF MonitorEnter, TakeMutex, Inv, LockInv, WordInv, PlaceInv, HoldInv, LockType
  <1>1. /\ mutex = NoThread /\ mutex' = t /\ owner' = t /\ UNCHANGED <<word, lockCount, prevLockCount>>
        /\ held' = [held EXCEPT ![t] = 1]
        /\ pc' = [pc EXCEPT ![t] = "run"]
    BY <1>a DEF MonitorEnter, TakeMutex, Returned, Goto, waitVars
  <1>2. LockType'
    BY <1>a, <1>1, MonitorAssumption DEF Inv, LockInv, PlaceInv, HoldInv, LockType, Labels
  <1>3. WordInv'
    BY <1>a, <1>1, MonitorAssumption DEF Inv, LockInv, WordInv, PlaceInv, LockType
  <1>4. ASSUME NEW u \in Threads PROVE PlaceInv(u)'
    BY <1>a, <1>1, <1>4, MonitorAssumption
       DEF Inv, LockInv, WordInv, PlaceInv, HoldInv, LockType, Labels
  <1>5. ASSUME NEW u \in Threads PROVE HoldInv(u)'
    BY <1>a, <1>1, <1>5, MonitorAssumption
       DEF Inv, LockInv, WordInv, PlaceInv, HoldInv, LockType, Labels
  <1> QED BY <1>2, <1>3, <1>4, <1>5 DEF Inv, LockInv

(* A thread takes the mutex again at the end of its wait.                  *)
LEMMA MonitorReturnInv ==
    ASSUME Inv, NEW t \in Threads, MonitorReturn(t)
    PROVE  Inv'
  <1>1. /\ pc[t] \in {"relock", "reblocked"} /\ mutex = NoThread
        /\ mutex' = t /\ owner' = t /\ UNCHANGED <<word, lockCount, prevLockCount, held>>
        /\ pc' = [pc EXCEPT ![t] = "done"]
    BY DEF MonitorReturn, TakeMutex, Goto, waitVars
  <1>2. LockType'
    BY <1>1, MonitorAssumption DEF Inv, LockInv, PlaceInv, HoldInv, LockType, Labels
  <1>3. WordInv'
    BY <1>1, MonitorAssumption DEF Inv, LockInv, WordInv, PlaceInv, LockType
  <1>4. ASSUME NEW u \in Threads PROVE PlaceInv(u)'
    BY <1>1, <1>4, MonitorAssumption
       DEF Inv, LockInv, WordInv, PlaceInv, HoldInv, LockType, Labels
  <1>5. ASSUME NEW u \in Threads PROVE HoldInv(u)'
    BY <1>1, <1>5, MonitorAssumption
       DEF Inv, LockInv, WordInv, PlaceInv, HoldInv, LockType, Labels
  <1> QED BY <1>2, <1>3, <1>4, <1>5 DEF Inv, LockInv

(* An exit from a thin lock.                                               *)
LEMMA UnlockThinInv ==
    ASSUME Inv, NEW t \in Threads, UnlockThin(t)
    PROVE  Inv'
  <1>a. pc[t] = "run" /\ ~word.fat /\ word.owner = t /\ held[t] = word.count + 1
    BY MonitorAssumption DEF UnlockThin, ThinOwned, Inv, LockInv, WordInv, PlaceInv, HoldInv, LockType
  <1>1. /\ word' = IF word.count = 0 THEN Unowned ELSE Thin(t, word.count - 1)
        /\ UNCHANGED <<mutex, owner, lockCount, pc, prevLockCount>>
        /\ held' = [held EXCEPT ![t] = @ - 1]
    BY <1>a DEF UnlockThin, waitVars
  <1>2. LockType'
    BY <1>a, <1>1, MonitorAssumption DEF Inv, LockInv, PlaceInv, HoldInv, LockType, Labels, Thin, Unowned
  <1>3. WordInv'
    BY <1>a, <1>1, MonitorAssumption DEF Inv, LockInv, WordInv, PlaceInv, LockType, Thin, Unowned
  <1>4. ASSUME NEW u \in Threads PROVE PlaceInv(u)'
    BY <1>a, <1>1, <1>4, MonitorAssumption
       DEF Inv, LockInv, WordInv, PlaceInv, HoldInv, LockType, Labels, Thin, Unowned
  <1>5. ASSUME NEW u \in Threads PROVE HoldInv(u)'
    BY <1>a, <1>1, <1>5, MonitorAssumption
       DEF Inv, LockInv, WordInv, PlaceInv, HoldInv, LockType, Labels, Thin, Unowned
  <1> QED BY <1>2, <1>3, <1>4, <1>5 DEF Inv, LockInv

(* An exit from a fat lock.                                                *)
LEMMA UnlockFatInv ==
    ASSUME Inv, NEW t \in Threads, UnlockFat(t)
    PROVE  Inv'
  <1>a. pc[t] = "run" /\ word.fat /\ owner = t /\ mutex = t /\ held[t] = lockCount + 1
    BY MonitorAssumption DEF UnlockFat, FatOwned, Inv, LockInv, WordInv, PlaceInv, HoldInv, LockType
  <1>1. /\ IF lockCount = 0
              THEN owner' = NoThread /\ mutex' = NoThread /\ UNCHANGED lockCount
              ELSE lockCount' = lockCount - 1 /\ UNCHANGED <<owner, mutex>>
        /\ UNCHANGED <<word, pc, prevLockCount>>
        /\ held' = [held EXCEPT ![t] = @ - 1]
    BY <1>a DEF UnlockFat, waitVars
  <1>2. LockType'
    BY <1>a, <1>1, MonitorAssumption DEF Inv, LockInv, PlaceInv, HoldInv, LockType, Labels
  <1>3. WordInv'
    BY <1>a, <1>1, MonitorAssumption DEF Inv, LockInv, WordInv, PlaceInv, LockType
  <1>4. ASSUME NEW u \in Threads PROVE PlaceInv(u)'
    BY <1>a, <1>1, <1>4, MonitorAssumption
       DEF Inv, LockInv, WordInv, PlaceInv, HoldInv, LockType, Labels
  <1>5. ASSUME NEW u \in Threads PROVE HoldInv(u)'
    BY <1>a, <1>1, <1>5, MonitorAssumption
       DEF Inv, LockInv, WordInv, PlaceInv, HoldInv, LockType, Labels
  <1> QED BY <1>2, <1>3, <1>4, <1>5 DEF Inv, LockInv

(* A wait gives up the nesting.                                            *)
LEMMA WaitStartInv ==
    ASSUME Inv, NEW t \in Threads, NEW m \in Modes, WaitStart(t, m)
    PROVE  Inv'
  <1>a. /\ pc[t] = "run" /\ held[t] > 0
        /\ word.fat => mutex = t /\ held[t] = lockCount + 1
        /\ ~word.fat => word.owner = t /\ held[t] = word.count + 1
    BY MonitorAssumption DEF WaitStart, ThinOwned, FatOwned, Inv, LockInv, WordInv, PlaceInv,
                           HoldInv, LockType
  <1>1. /\ word' = Fat /\ mutex' = t /\ lockCount' = 0 /\ owner' = NoThread
        /\ prevLockCount' = [prevLockCount EXCEPT
                                ![t] = IF word.fat THEN lockCount ELSE word.count]
        /\ pc' = [pc EXCEPT ![t] = "arm"] /\ UNCHANGED held
    BY <1>a DEF WaitStart, Goto
  <1>2. LockType'
    BY <1>a, <1>1, MonitorAssumption DEF Inv, LockInv, PlaceInv, HoldInv, LockType, Labels, Fat
  <1>3. WordInv'
    BY <1>a, <1>1, MonitorAssumption DEF Inv, LockInv, WordInv, PlaceInv, LockType, Fat
  <1>4. ASSUME NEW u \in Threads PROVE PlaceInv(u)'
    BY <1>a, <1>1, <1>4, MonitorAssumption
       DEF Inv, LockInv, WordInv, PlaceInv, HoldInv, LockType, Labels, Fat
  <1>5. ASSUME NEW u \in Threads PROVE HoldInv(u)'
    BY <1>a, <1>1, <1>5, MonitorAssumption
       DEF Inv, LockInv, WordInv, PlaceInv, HoldInv, LockType, Labels, Fat
  <1> QED BY <1>2, <1>3, <1>4, <1>5 DEF Inv, LockInv

(* The waiting thread lets the mutex go.                                   *)
LEMMA WaitReleaseInv ==
    ASSUME Inv, NEW t \in Threads, WaitRelease(t)
    PROVE  Inv'
  <1>1. /\ pc[t] = "release" /\ mutex' = NoThread
        /\ UNCHANGED <<word, owner, lockCount, prevLockCount, held>>
        /\ pc' = [pc EXCEPT ![t] = "sleeping"]
    BY DEF WaitRelease, Goto, waitVars
  <1>2. LockType'
    BY <1>1, MonitorAssumption DEF Inv, LockInv, PlaceInv, HoldInv, LockType, Labels
  <1>3. WordInv'
    BY <1>1, MonitorAssumption DEF Inv, LockInv, WordInv, PlaceInv, LockType
  <1>4. ASSUME NEW u \in Threads PROVE PlaceInv(u)'
    BY <1>1, <1>4, MonitorAssumption
       DEF Inv, LockInv, WordInv, PlaceInv, HoldInv, LockType, Labels
  <1>5. ASSUME NEW u \in Threads PROVE HoldInv(u)'
    BY <1>1, <1>5, MonitorAssumption
       DEF Inv, LockInv, WordInv, PlaceInv, HoldInv, LockType, Labels
  <1> QED BY <1>2, <1>3, <1>4, <1>5 DEF Inv, LockInv

(* The nesting before the wait is restored.                                *)
LEMMA WaitDoneInv ==
    ASSUME Inv, NEW t \in Threads, WaitDone(t)
    PROVE  Inv'
  <1>1. /\ pc[t] = "done" /\ owner' = t /\ lockCount' = prevLockCount[t]
        /\ UNCHANGED <<word, mutex, prevLockCount, held>>
        /\ pc' = [pc EXCEPT ![t] = "back"]
    BY DEF WaitDone, Goto, waitVars
  <1>2. LockType'
    BY <1>1, MonitorAssumption DEF Inv, LockInv, PlaceInv, HoldInv, LockType, Labels
  <1>3. WordInv'
    BY <1>1, MonitorAssumption DEF Inv, LockInv, WordInv, PlaceInv, LockType
  <1>4. ASSUME NEW u \in Threads PROVE PlaceInv(u)'
    BY <1>1, <1>4, MonitorAssumption
       DEF Inv, LockInv, WordInv, PlaceInv, HoldInv, LockType, Labels
  <1>5. ASSUME NEW u \in Threads PROVE HoldInv(u)'
    BY <1>1, <1>5, MonitorAssumption
       DEF Inv, LockInv, WordInv, PlaceInv, HoldInv, LockType, Labels
  <1> QED BY <1>2, <1>3, <1>4, <1>5 DEF Inv, LockInv

(* The wait returns to the program.                                        *)
LEMMA WaitBackInv ==
    ASSUME Inv, NEW t \in Threads, WaitBack(t)
    PROVE  Inv'
  <1>1. /\ pc[t] = "back" /\ prevLockCount' = [prevLockCount EXCEPT ![t] = 0]
        /\ UNCHANGED <<word, mutex, owner, lockCount, held>>
        /\ pc' = [pc EXCEPT ![t] = "run"]
    BY DEF WaitBack, Goto, wordVars
  <1>2. LockType'
    BY <1>1, MonitorAssumption DEF Inv, LockInv, PlaceInv, HoldInv, LockType, Labels
  <1>3. WordInv'
    BY <1>1, MonitorAssumption DEF Inv, LockInv, WordInv, PlaceInv, LockType
  <1>4. ASSUME NEW u \in Threads PROVE PlaceInv(u)'
    BY <1>1, <1>4, MonitorAssumption
       DEF Inv, LockInv, WordInv, PlaceInv, HoldInv, LockType, Labels
  <1>5. ASSUME NEW u \in Threads PROVE HoldInv(u)'
    BY <1>1, <1>5, MonitorAssumption
       DEF Inv, LockInv, WordInv, PlaceInv, HoldInv, LockType, Labels
  <1> QED BY <1>2, <1>3, <1>4, <1>5 DEF Inv, LockInv

(* Every step keeps the invariant.                                         *)
LEMMA NextInv == Inv /\ [Next]_vars => Inv'
  <1> SUFFICES ASSUME Inv, [Next]_vars PROVE Inv'
    OBVIOUS
  <1>1. CASE UNCHANGED vars
    BY <1>1 DEF vars, wordVars, waitVars, Inv, LockType, LockInv, WordInv, PlaceInv, HoldInv
  <1>2. ASSUME NEW t \in Threads, Proceed(t) PROVE Inv'
    <2>1. CASE LockThinOwned(t)   BY <2>1, LockThinOwnedInv
    <2>2. CASE LockThinUnowned(t)
      <3>1. held[t] = 0
        BY <2>2, MonitorAssumption
           DEF LockThinUnowned, ThinOwned, Inv, LockInv, WordInv, PlaceInv, HoldInv, LockType
      <3>2. UNCHANGED <<wordVars, prevLockCount, held>> /\ Goto(t, "cas")
        BY <2>2 DEF LockThinUnowned, waitVars
      <3>3. pc[t] = "lock" /\ pc'[t] = "cas"
        BY <2>2, <3>2 DEF LockThinUnowned, Goto, Inv, LockType
      <3>4. PlaceInv(t)' /\ HoldInv(t)'
        BY <3>1, <3>2, <3>3 DEF Inv, LockInv, PlaceInv, HoldInv, wordVars
      <3> QED BY <3>2, <3>4, MoveInv DEF Labels
    <2>3. CASE Cas(t)
      <3>1. pc[t] = "cas" /\ held[t] = 0
        BY <2>3 DEF Cas, Inv, LockInv, PlaceInv
      <3>2. CASE word = Unowned
        BY <2>3, <3>1, <3>2, TakeThinInv DEF Cas, Returned, Goto, waitVars
      <3>3. CASE word # Unowned
        <4>1. UNCHANGED <<wordVars, prevLockCount, held>> /\ Goto(t, "lock")
          BY <2>3, <3>3 DEF Cas, waitVars, wordVars
        <4>2. pc'[t] = "lock"
          BY <4>1 DEF Goto, Inv, LockType
        <4>3. PlaceInv(t)' /\ HoldInv(t)'
          BY <3>1, <4>1, <4>2 DEF Inv, LockInv, PlaceInv, HoldInv, wordVars
        <4> QED BY <4>1, <4>3, MoveInv DEF Labels
      <3> QED BY <3>2, <3>3
    <2>4. CASE LockThinContended(t)
      <3>1. held[t] = 0
        BY <2>4, MonitorAssumption
           DEF LockThinContended, Inv, LockInv, WordInv, PlaceInv, HoldInv, LockType
      <3>2. UNCHANGED <<wordVars, prevLockCount, held>> /\ Goto(t, "spin")
        BY <2>4 DEF LockThinContended, waitVars
      <3>3. pc[t] = "lock" /\ pc'[t] = "spin"
        BY <2>4, <3>2 DEF LockThinContended, Goto, Inv, LockType
      <3>4. PlaceInv(t)' /\ HoldInv(t)'
        BY <3>1, <3>2, <3>3 DEF Inv, LockInv, PlaceInv, HoldInv, wordVars
      <3> QED BY <3>2, <3>4, MoveInv DEF Labels
    <2>5. CASE Spin(t)
      <3>1. PICK label \in {"spincas", "lock"} :
               UNCHANGED <<wordVars, prevLockCount, held>> /\ Goto(t, label)
        BY <2>5 DEF Spin, waitVars
      <3>2. pc[t] = "spin" /\ pc'[t] = label
        BY <2>5, <3>1 DEF Spin, Goto, Inv, LockType
      <3>3. PlaceInv(t)' /\ HoldInv(t)'
        BY <3>1, <3>2 DEF Inv, LockInv, PlaceInv, HoldInv, wordVars
      <3> QED BY <3>1, <3>3, MoveInv DEF Labels
    <2>6. CASE SpinCas(t)
      <3>1. pc[t] = "spincas" /\ held[t] = 0
        BY <2>6 DEF SpinCas, Inv, LockInv, PlaceInv
      <3>2. CASE word = Unowned /\ word' = Thin(t, 0) /\ Goto(t, "fatten")
        BY <2>6, <3>1, <3>2, TakeThinInv DEF SpinCas, Goto, waitVars
      <3>3. CASE word # Unowned /\ Goto(t, "spin") /\ UNCHANGED word
        <4>2. UNCHANGED <<wordVars, prevLockCount, held>> /\ Goto(t, "spin")
          BY <2>6, <3>3 DEF SpinCas, waitVars, wordVars
        <4>3. pc[t] = "spincas" /\ pc'[t] = "spin"
          BY <2>6, <4>2 DEF SpinCas, Goto, Inv, LockType
        <4>4. PlaceInv(t)' /\ HoldInv(t)'
          BY <3>1, <4>2, <4>3 DEF Inv, LockInv, PlaceInv, HoldInv, wordVars
        <4> QED BY <4>2, <4>4, MoveInv DEF Labels
      <3> QED BY <2>6, <3>2, <3>3 DEF SpinCas
    <2>7. CASE Fatten(t)          BY <2>7, FattenInv
    <2>8. CASE LockFat(t)
      <3>1. /\ UNCHANGED <<wordVars, prevLockCount, held>> /\ Goto(t, "monitor")
            /\ word.fat
        BY <2>8 DEF LockFat, waitVars
      <3>2. pc[t] = "lock" /\ pc'[t] = "monitor"
        BY <2>8, <3>1 DEF LockFat, Goto, Inv, LockType
      <3>3. PlaceInv(t)' /\ HoldInv(t)'
        BY <3>1, <3>2 DEF Inv, LockInv, PlaceInv, HoldInv, wordVars
      <3> QED BY <3>1, <3>3, MoveInv DEF Labels
    <2>9. CASE MonitorReenter(t)  BY <2>9, MonitorReenterInv
    <2>10. CASE MonitorEnter(t)
      BY <2>10, MonitorEnterInv
    <2>11. CASE MonitorReturn(t)  BY <2>11, MonitorReturnInv
    <2>12. CASE MonitorBusy(t)
      <3>1. CASE pc[t] = "monitor" /\ owner # t /\ Goto(t, "blocked")
        <4>1. UNCHANGED <<wordVars, prevLockCount, held>>
          BY <2>12 DEF MonitorBusy, waitVars
        <4>2. pc'[t] = "blocked" /\ word.fat
          BY <3>1 DEF Goto, Inv, LockInv, LockType, PlaceInv, OnFat
        <4>3. held[t] = 0
          BY <3>1, <4>2 DEF Inv, LockInv, LockType, HoldInv, InWait
        <4>4. PlaceInv(t)' /\ HoldInv(t)'
          BY <3>1, <4>1, <4>2, <4>3 DEF Inv, LockInv, PlaceInv, HoldInv, wordVars
        <4> QED BY <3>1, <4>1, <4>4, MoveInv DEF Labels
      <3>2. CASE pc[t] = "relock" /\ Goto(t, "reblocked")
        <4>1. UNCHANGED <<wordVars, prevLockCount, held>>
          BY <2>12 DEF MonitorBusy, waitVars
        <4>2. pc'[t] = "reblocked"
          BY <3>2 DEF Goto, Inv, LockType
        <4>3. PlaceInv(t)' /\ HoldInv(t)'
          BY <3>2, <4>1, <4>2 DEF Inv, LockInv, PlaceInv, HoldInv, wordVars
        <4> QED BY <3>2, <4>1, <4>3, MoveInv DEF Labels
      <3> QED BY <2>12, <3>1, <3>2 DEF MonitorBusy
    <2>13. CASE WaitArm(t)
      <3>1. PICK label \in {"done", "release"} :
               UNCHANGED <<wordVars, prevLockCount, held>> /\ Goto(t, label)
        BY <2>13 DEF WaitArm
      <3>2. pc[t] = "arm" /\ pc'[t] = label
        BY <2>13, <3>1 DEF WaitArm, Goto, Inv, LockType
      <3>3. PlaceInv(t)' /\ HoldInv(t)'
        BY <3>1, <3>2 DEF Inv, LockInv, PlaceInv, HoldInv, wordVars
      <3> QED BY <3>1, <3>3, MoveInv DEF Labels
    <2>14. CASE WaitRelease(t)    BY <2>14, WaitReleaseInv
    <2>15. CASE WaitSleep(t)
      <3>1. UNCHANGED <<wordVars, prevLockCount, held>> /\ Goto(t, "asleep")
        BY <2>15 DEF WaitSleep, waitVars
      <3>2. pc[t] = "sleeping" /\ pc'[t] = "asleep"
        BY <2>15, <3>1 DEF WaitSleep, Goto, Inv, LockType
      <3>3. PlaceInv(t)' /\ HoldInv(t)'
        BY <3>1, <3>2 DEF Inv, LockInv, PlaceInv, HoldInv, wordVars
      <3> QED BY <3>1, <3>3, MoveInv DEF Labels
    <2>16. CASE Wake(t)
      <3>1. UNCHANGED <<wordVars, prevLockCount, held>> /\ Goto(t, "relock")
        BY <2>16 DEF Wake, WakeUp, waitVars
      <3>2. pc[t] = "asleep" /\ pc'[t] = "relock"
        BY <2>16, <3>1 DEF Wake, WakeUp, Goto, Inv, LockType
      <3>3. PlaceInv(t)' /\ HoldInv(t)'
        BY <3>1, <3>2 DEF Inv, LockInv, PlaceInv, HoldInv, wordVars
      <3> QED BY <3>1, <3>3, MoveInv DEF Labels
    <2>17. CASE WaitDone(t)       BY <2>17, WaitDoneInv
    <2>18. CASE WaitBack(t)       BY <2>18, WaitBackInv
    <2>19. CASE NotifySignal(t)
      <3>1. pc[t] \in {"notify", "notifyAll"} /\ UNCHANGED <<wordVars, prevLockCount, held>>
        BY <2>19 DEF NotifySignal
      <3>2. Goto(t, "run") \/ Goto(t, pc[t])
        BY <2>19 DEF NotifySignal, Goto, Inv, LockType
      <3>3. PICK label \in {"run", "notify", "notifyAll"} :
               /\ Goto(t, label)
               /\ pc[t] # label => label = "run"
        BY <3>1, <3>2
      <3>4. pc'[t] = label
        BY <3>3 DEF Goto, Inv, LockType
      <3>5. PlaceInv(t)' /\ HoldInv(t)'
        BY <3>1, <3>4 DEF Inv, LockInv, PlaceInv, HoldInv, wordVars
      <3> QED BY <3>1, <3>3, <3>5, MoveInv DEF Labels
    <2>20. CASE QueryClear(t)
      <3>2. UNCHANGED <<wordVars, prevLockCount, held>> /\ Goto(t, "run")
        BY <2>20 DEF QueryClear, waitVars
      <3>3. pc[t] = "query" /\ pc'[t] = "run"
        BY <2>20, <3>2 DEF QueryClear, Goto, Inv, LockType
      <3>4. PlaceInv(t)' /\ HoldInv(t)'
        BY <3>2, <3>3 DEF Inv, LockInv, PlaceInv, HoldInv, wordVars
      <3> QED BY <3>2, <3>4, MoveInv DEF Labels
    <2> QED
      BY <1>2, <2>1, <2>2, <2>3, <2>4, <2>5, <2>6, <2>7, <2>8, <2>9, <2>10, <2>11,
         <2>12, <2>13, <2>14, <2>15, <2>16, <2>17, <2>18, <2>19, <2>20 DEF Proceed
  <1>3. ASSUME NEW t \in Threads, CallLock(t) PROVE Inv'
    <2>2. UNCHANGED <<wordVars, prevLockCount, held>> /\ Goto(t, "lock")
      BY <1>3 DEF CallLock, waitVars
    <2>3. pc[t] = "run" /\ pc'[t] = "lock"
      BY <1>3, <2>2 DEF CallLock, Goto, Inv, LockType
    <2>4. PlaceInv(t)' /\ HoldInv(t)'
      BY <2>2, <2>3 DEF Inv, LockInv, PlaceInv, HoldInv, wordVars
    <2> QED BY <2>2, <2>4, MoveInv DEF Labels
  <1>4. ASSUME NEW t \in Threads, UnlockThin(t) PROVE Inv'
    BY <1>4, UnlockThinInv
  <1>5. ASSUME NEW t \in Threads, UnlockFat(t) PROVE Inv'
    BY <1>5, UnlockFatInv
  <1>6. ASSUME NEW t \in Threads, NEW m \in Modes, WaitStart(t, m) PROVE Inv'
    BY <1>6, WaitStartInv
  <1>7. ASSUME NEW t \in Threads, WakeEarly(t) PROVE Inv'
    <2>1. UNCHANGED <<wordVars, prevLockCount, held>> /\ Goto(t, "relock")
      BY <1>7 DEF WakeEarly, WakeUp, waitVars
    <2>2. pc[t] = "asleep" /\ pc'[t] = "relock"
      BY <1>7, <2>1 DEF WakeEarly, WakeUp, Goto, Inv, LockType
    <2>3. PlaceInv(t)' /\ HoldInv(t)'
      BY <2>1, <2>2 DEF Inv, LockInv, PlaceInv, HoldInv, wordVars
    <2> QED BY <2>1, <2>3, MoveInv DEF Labels
  <1>8. ASSUME NEW t \in Threads, NEW label \in {"notify", "notifyAll"}, Notify(t, label)
        PROVE  Inv'
    <2>2. UNCHANGED <<wordVars, prevLockCount, held>> /\ Goto(t, label)
      BY <1>8 DEF Notify, waitVars
    <2>3. pc[t] = "run" /\ pc'[t] = label
      BY <1>8, <2>2 DEF Notify, Goto, Inv, LockType
    <2>4. PlaceInv(t)' /\ HoldInv(t)'
      BY <2>2, <2>3 DEF Inv, LockInv, PlaceInv, HoldInv, wordVars
    <2> QED BY <2>2, <2>4, MoveInv DEF Labels
  <1>9. ASSUME NEW t \in Threads, NEW u \in Waiters, Interrupt(t, u) PROVE Inv'
    BY <1>9 DEF Interrupt, wordVars, Inv, LockType, LockInv, WordInv, PlaceInv, HoldInv
  <1>10. ASSUME NEW t \in Threads, QueryInterrupted(t) PROVE Inv'
    <2>2. UNCHANGED <<wordVars, prevLockCount, held>> /\ Goto(t, "query")
      BY <1>10 DEF QueryInterrupted, waitVars
    <2>3. pc[t] = "run" /\ pc'[t] = "query"
      BY <1>10, <2>2 DEF QueryInterrupted, Goto, Inv, LockType
    <2>4. PlaceInv(t)' /\ HoldInv(t)'
      BY <2>2, <2>3 DEF Inv, LockInv, PlaceInv, HoldInv, wordVars
    <2> QED BY <2>2, <2>4, MoveInv DEF Labels
  <1> QED
    BY <1>1, <1>2, <1>3, <1>4, <1>5, <1>6, <1>7, <1>8, <1>9, <1>10 DEF Next

(* The invariant holds in every reachable state.                           *)
LEMMA InvAlways == Spec => []Inv
  BY InvInit, NextInv, PTL DEF Spec

(* Who owns the lock, and how deep each waiting thread will own it again,  *)
(* in terms of the nesting of the threads.                                 *)
ParkedDepth == [t \in Threads |-> IF Parked(t) THEN prevLockCount[t] + 1 ELSE 0]
ParkedHeld == [t \in Threads |-> IF Parked(t) THEN held[t] ELSE 0]

Nesting ==
    /\ LockHolder \in Threads \cup {NoThread}
    /\ LockHolder = NoThread => LockDepth = 0
    /\ \A t \in Threads : LockHolder = t =>
         /\ ~Parked(t)
         /\ LockDepth = IF pc[t] = "fatten" THEN 1 ELSE held[t]
         /\ LockDepth > 0
    /\ \A t \in Threads : held[t] > 0 /\ ~Parked(t) => LockHolder = t
    /\ \A t \in Threads : Parked(t) => held[t] > 0
    /\ ParkedDepth = ParkedHeld

LEMMA HolderNesting == Inv => Nesting
  <1> SUFFICES ASSUME Inv PROVE Nesting
    OBVIOUS
  <1>0. ParkedDepth = ParkedHeld /\ \A t \in Threads : Parked(t) => held[t] > 0
    BY DEF ParkedDepth, ParkedHeld, Inv, LockInv, PlaceInv, LockType
  <1>1. CASE word.fat
    <2>1. LockHolder = mutex
      BY <1>1 DEF LockHolder
    <2>2. mutex # NoThread => LockDepth = IF pc[mutex] \in {"arm", "release", "done"}
                                          THEN prevLockCount[mutex] + 1
                                          ELSE lockCount + 1
      BY <1>1, <2>1 DEF LockDepth
    <2>3. \A t \in Threads : mutex = t =>
            /\ ~Parked(t) /\ pc[t] # "fatten" /\ held[t] > 0
            /\ held[t] = IF pc[t] \in {"arm", "release", "done"}
                          THEN prevLockCount[t] + 1 ELSE lockCount + 1
      BY <1>1 DEF Inv, LockInv, PlaceInv, HoldInv
    <2>4. \A t \in Threads : held[t] > 0 /\ ~Parked(t) => mutex = t
      BY <1>1 DEF Inv, LockInv, PlaceInv, HoldInv
    <2>5. mutex \in Threads \cup {NoThread} /\ LockHolder = NoThread => LockDepth = 0
      BY DEF LockDepth, Inv, LockType
    <2> QED BY <1>0, <2>1, <2>2, <2>3, <2>4, <2>5, MonitorAssumption DEF Inv, LockType, Nesting
  <1>2. CASE ~word.fat
    <2>1. LockHolder = word.owner
      BY <1>2 DEF LockHolder
    <2>2. word.owner # NoThread => LockDepth = word.count + 1
      BY <1>2, <2>1 DEF LockDepth
    <2>3. \A t \in Threads : word.owner = t =>
            /\ ~Parked(t)
            /\ word.count + 1 = IF pc[t] = "fatten" THEN 1 ELSE held[t]
            /\ word.count + 1 > 0
      BY <1>2 DEF Inv, LockInv, PlaceInv, HoldInv, LockType
    <2>4. \A t \in Threads : held[t] > 0 /\ ~Parked(t) => word.owner = t
      BY <1>2 DEF Inv, LockInv, PlaceInv, HoldInv
    <2>5. word.owner \in Threads \cup {NoThread} /\ (LockHolder = NoThread => LockDepth = 0)
      BY DEF LockDepth, Inv, LockType
    <2> QED BY <1>0, <2>1, <2>2, <2>3, <2>4, <2>5, MonitorAssumption DEF Nesting
  <1> QED BY <1>1, <1>2

(* Only the thread the lock names is inside, at exactly its own nesting.   *)
THEOREM HolderSafe == Spec => []HolderOwns
  <1>1. Inv => HolderOwns
    BY HolderNesting DEF HolderOwns, Nesting
  <1> QED BY <1>1, InvAlways, PTL

(* A fat word is never written again.                                      *)
LEMMA FatStays ==
    ASSUME Inv, Next, word.fat
    PROVE  word' = word
  <1>1. word = Fat /\ word # Unowned
    BY DEF Inv, LockInv, WordInv, Fat, Unowned, Thin
  <1>2. \A t \in Threads : pc[t] # "fatten"
    BY DEF Inv, LockInv, PlaceInv
  <1> QED
    BY <1>1, <1>2
       DEF Next, Proceed, wordVars, CallLock, LockThinOwned, LockThinUnowned, Cas,
           LockThinContended, Spin, SpinCas, Fatten, LockFat, MonitorReenter,
           MonitorEnter, MonitorReturn, MonitorBusy, TakeMutex, UnlockThin,
           UnlockFat, WaitStart, WaitArm, WaitRelease, WaitSleep, Wake, WakeEarly,
           WakeUp, WaitDone, WaitBack, Notify, NotifySignal, Interrupt,
           QueryInterrupted, QueryClear, ThinOwned

(* A fat lock stays fat, whatever a thread read before.                    *)
THEOREM FatForever == Spec => FattensOnce
  <1>1. Inv /\ [Next]_vars => [word.fat => UNCHANGED word]_vars
    BY FatStays
  <1> QED BY <1>1, InvAlways, PTL DEF Spec, FattensOnce

LEMMA NestingNext == Inv' => Nesting'
  BY HolderNesting, PTL

(* A step that changes neither the holder, nor the nesting, nor who is      *)
(* parked is no step of the abstract monitor.                              *)
LEMMA SameMonitor ==
    ASSUME Inv, Inv', LockHolder' = LockHolder, UNCHANGED held,
           \A t \in Threads : Parked(t)' = Parked(t),
           \A t \in Threads : (pc'[t] = "fatten") = (pc[t] = "fatten")
    PROVE  UNCHANGED <<LockHolder, LockDepth, ParkedDepth>>
  <1>1. Nesting /\ Nesting'
    BY HolderNesting, NestingNext
  <1>2. LockDepth' = LockDepth
    BY <1>1 DEF Nesting
  <1> QED BY <1>1, <1>2 DEF Nesting, ParkedHeld

LEMMA EnterStep ==
    ASSUME Inv, Inv', NEW t \in Threads, ~Parked(t), pc[t] # "fatten",
           LockHolder \in {NoThread, t}, LockHolder' = t,
           \/ held' = [held EXCEPT ![t] = @ + 1] /\ pc'[t] # "fatten"
           \/ UNCHANGED held /\ held[t] = 0 /\ pc'[t] = "fatten",
           \A u \in Threads : Parked(u)' = Parked(u)
    PROVE  JM!Enter(t)
  <1>1. Nesting /\ Nesting' /\ held \in [Threads -> Nat]
    BY HolderNesting, NestingNext DEF Inv, LockType
  <1>2. LockDepth = held[t]
    BY <1>1, MonitorAssumption DEF Nesting
  <1>3. LockDepth' = LockDepth + 1
    BY <1>1, <1>2 DEF Nesting
  <1>4. ParkedHeld' = ParkedHeld /\ ParkedHeld[t] = 0
    BY <1>1 DEF ParkedHeld
  <1>5. ParkedDepth' = ParkedDepth /\ ParkedDepth[t] = 0
    BY <1>1, <1>4 DEF Nesting
  <1> QED BY <1>3, <1>5 DEF JM!Enter, ParkedDepth

LEMMA EnterRun ==
    ASSUME Inv, Inv', NEW t \in Threads, ~Parked(t), pc[t] # "fatten",
           LockHolder \in {NoThread, t}, LockHolder' = t,
           pc' = [pc EXCEPT ![t] = "run"], held' = [held EXCEPT ![t] = @ + 1]
    PROVE  JM!Enter(t)
  <1>1. pc \in [Threads -> Labels]
    BY DEF Inv, LockType
  <1>2. pc'[t] # "fatten" /\ \A u \in Threads : Parked(u)' = Parked(u)
    BY <1>1
  <1> QED BY <1>2, EnterStep

LEMMA ExitStep ==
    ASSUME Inv, Inv', NEW t \in Threads, LockHolder = t, pc[t] # "fatten",
           LockHolder' = IF held[t] = 1 THEN NoThread ELSE t,
           held' = [held EXCEPT ![t] = @ - 1], UNCHANGED pc
    PROVE  JM!Exit(t)
  <1>1. Nesting /\ Nesting' /\ held \in [Threads -> Nat]
    BY HolderNesting, NestingNext DEF Inv, LockType
  <1>2. LockDepth = held[t] /\ ~Parked(t) /\ held[t] > 0
    BY <1>1 DEF Nesting
  <1>3. LockDepth' = LockDepth - 1
    BY <1>1, <1>2, MonitorAssumption DEF Nesting
  <1>4. ParkedHeld' = ParkedHeld
    BY <1>1, <1>2 DEF ParkedHeld
  <1> QED BY <1>1, <1>2, <1>3, <1>4 DEF JM!Exit, ParkedDepth, Nesting

LEMMA WaitStep ==
    ASSUME Inv, Inv', NEW t \in Threads, LockHolder = t, pc[t] # "fatten",
           LockHolder' = NoThread, UNCHANGED held, Parked(t)',
           \A u \in Threads \ {t} : Parked(u)' = Parked(u)
    PROVE  JM!Wait(t)
  <1>1. Nesting /\ Nesting' /\ held \in [Threads -> Nat]
    BY HolderNesting, NestingNext DEF Inv, LockType
  <1>2. LockDepth = held[t] /\ LockDepth' = 0
    BY <1>1 DEF Nesting
  <1>3. ParkedHeld' = [ParkedHeld EXCEPT ![t] = held[t]]
    BY <1>1 DEF ParkedHeld
  <1> QED BY <1>1, <1>2, <1>3 DEF JM!Wait, ParkedDepth, Nesting

LEMMA ReturnStep ==
    ASSUME Inv, Inv', NEW t \in Threads, LockHolder = NoThread, Parked(t),
           LockHolder' = t, UNCHANGED held, ~Parked(t)', pc'[t] # "fatten",
           \A u \in Threads \ {t} : Parked(u)' = Parked(u)
    PROVE  JM!Return(t)
  <1>1. Nesting /\ Nesting' /\ held \in [Threads -> Nat]
    BY HolderNesting, NestingNext DEF Inv, LockType
  <1>2. LockDepth' = held[t] /\ held[t] > 0
    BY <1>1 DEF Nesting
  <1>3. ParkedHeld' = [ParkedHeld EXCEPT ![t] = 0] /\ ParkedHeld[t] = held[t]
    BY <1>1 DEF ParkedHeld
  <1> QED BY <1>1, <1>2, <1>3 DEF JM!Return, ParkedDepth, Nesting

LEMMA MoveSame ==
    ASSUME Inv, Inv', NEW t \in Threads, NEW label \in Labels, Goto(t, label),
           UNCHANGED <<word, mutex, held>>,
           Parked(t) <=> label \in {"sleeping", "asleep", "relock", "reblocked"},
           pc[t] # "fatten", label # "fatten"
    PROVE  UNCHANGED <<LockHolder, LockDepth, ParkedDepth>>
  <1>1. \A u \in Threads : pc'[u] = IF u = t THEN label ELSE pc[u]
    BY DEF Goto, Inv, LockType
  <1>2. LockHolder' = LockHolder
    BY DEF LockHolder
  <1>3. \A u \in Threads : Parked(u)' = Parked(u)
    BY <1>1
  <1>4. \A u \in Threads : (pc'[u] = "fatten") = (pc[u] = "fatten")
    BY <1>1
  <1> QED BY <1>2, <1>3, <1>4, SameMonitor

(* Every step of the lock is one of the abstract monitor, or none.         *)
LEMMA NextRefines ==
    ASSUME Inv, Inv', [Next]_vars
    PROVE  [JM!Next]_<<LockHolder, LockDepth, ParkedDepth>>
  <1> DEFINE Same == UNCHANGED <<LockHolder, LockDepth, ParkedDepth>>
             Refines == JM!Next \/ Same
  <1>0. Nesting /\ pc \in [Threads -> Labels] /\ held \in [Threads -> Nat]
    BY HolderNesting DEF Inv, LockType
  <1>1. CASE UNCHANGED vars
    BY <1>1 DEF vars, wordVars, waitVars, LockHolder, LockDepth, ParkedDepth
  <1>2. ASSUME NEW t \in Threads, Proceed(t) PROVE Refines
    <2>1. CASE LockThinOwned(t)
      <3>1. pc[t] = "lock" /\ pc' = [pc EXCEPT ![t] = "run"] /\ held' = [held EXCEPT ![t] = @ + 1]
        BY <2>1 DEF LockThinOwned, Returned, Goto
      <3>2. LockHolder = t /\ LockHolder' = t
        BY <2>1 DEF LockThinOwned, ThinOwned, LockHolder, Inflate, Fat, Thin
      <3>3. JM!Enter(t)
        BY <1>0, <3>1, <3>2, EnterRun
      <3> QED BY <3>3 DEF JM!Next
    <2>3. CASE Cas(t)
      <3>1. pc[t] = "cas" BY <2>3 DEF Cas
      <3>2. CASE word = Unowned /\ word' = Thin(t, 0) /\ Returned(t)
        <4>1. /\ pc' = [pc EXCEPT ![t] = "run"] /\ held' = [held EXCEPT ![t] = @ + 1]
              /\ LockHolder = NoThread /\ LockHolder' = t
          BY <3>2 DEF Returned, Goto, LockHolder, Unowned, Thin
        <4>2. JM!Enter(t)
          BY <1>0, <3>1, <4>1, EnterRun
        <4> QED BY <4>2 DEF JM!Next
      <3>3. CASE Goto(t, "lock") /\ UNCHANGED <<word, held>>
        BY <2>3, <3>1, <3>3, MoveSame DEF Cas, Labels
      <3> QED BY <2>3, <3>2, <3>3 DEF Cas
    <2>6. CASE SpinCas(t)
      <3>1. pc[t] = "spincas" /\ held[t] = 0
        BY <2>6 DEF SpinCas, Inv, LockInv, PlaceInv
      <3>2. CASE word = Unowned /\ word' = Thin(t, 0) /\ Goto(t, "fatten")
        <4>1. /\ pc' = [pc EXCEPT ![t] = "fatten"] /\ UNCHANGED held
              /\ LockHolder = NoThread /\ LockHolder' = t
          BY <2>6, <3>2 DEF SpinCas, Goto, LockHolder, Unowned, Thin
        <4>2. JM!Enter(t)
          BY <1>0, <3>1, <4>1, EnterStep
        <4> QED BY <4>2 DEF JM!Next
      <3>3. CASE Goto(t, "spin") /\ UNCHANGED word
        BY <2>6, <3>1, <3>3, MoveSame DEF SpinCas, Labels
      <3> QED BY <2>6, <3>2, <3>3 DEF SpinCas
    <2>7. CASE Fatten(t)
      <3>1. /\ pc[t] = "fatten" /\ word.owner = t /\ ~word.fat /\ held[t] = 0
            /\ pc' = [pc EXCEPT ![t] = "run"] /\ held' = [held EXCEPT ![t] = @ + 1]
        BY <2>7 DEF Fatten, Returned, Goto, Inv, LockInv, PlaceInv
      <3>2. LockHolder = t /\ LockHolder' = t
        BY <2>7, <3>1 DEF Fatten, LockHolder, Inflate, Fat
      <3>3. Nesting'
        BY NestingNext
      <3>4. LockDepth = 1 /\ LockDepth' = 1
        BY <1>0, <3>1, <3>2, <3>3 DEF Nesting
      <3>5. ParkedHeld' = ParkedHeld
        BY <1>0, <3>1 DEF ParkedHeld
      <3> QED BY <1>0, <3>2, <3>3, <3>4, <3>5 DEF Nesting
    <2>9. CASE MonitorReenter(t)
      <3>1. /\ pc[t] = "monitor" /\ owner = t /\ UNCHANGED <<word, mutex>>
            /\ pc' = [pc EXCEPT ![t] = "run"] /\ held' = [held EXCEPT ![t] = @ + 1]
        BY <2>9 DEF MonitorReenter, Returned, Goto
      <3>2. LockHolder = t /\ LockHolder' = t
        BY <3>1, MonitorAssumption DEF LockHolder, Inv, LockInv, WordInv, PlaceInv
      <3>3. JM!Enter(t)
        BY <1>0, <3>1, <3>2, EnterRun
      <3> QED BY <3>3 DEF JM!Next
    <2>10. CASE MonitorEnter(t)
      <3>1. /\ pc[t] \in {"monitor", "blocked"} /\ mutex = NoThread /\ mutex' = t
            /\ pc' = [pc EXCEPT ![t] = "run"] /\ held' = [held EXCEPT ![t] = @ + 1]
            /\ UNCHANGED word
        BY <2>10 DEF MonitorEnter, TakeMutex, Returned, Goto
      <3>2. LockHolder = NoThread /\ LockHolder' = t
        BY <3>1 DEF LockHolder, Inv, LockInv, PlaceInv
      <3>3. JM!Enter(t)
        BY <1>0, <3>1, <3>2, EnterRun
      <3> QED BY <3>3 DEF JM!Next
    <2>11. CASE MonitorReturn(t)
      <3>1. /\ pc[t] \in {"relock", "reblocked"} /\ mutex = NoThread /\ mutex' = t
            /\ pc' = [pc EXCEPT ![t] = "done"] /\ UNCHANGED <<word, held>>
        BY <2>11 DEF MonitorReturn, TakeMutex, Goto
      <3>2. LockHolder = NoThread /\ LockHolder' = t
        BY <3>1 DEF LockHolder, Inv, LockInv, PlaceInv
      <3>3. JM!Return(t)
        BY <1>0, <3>1, <3>2, ReturnStep
      <3> QED BY <3>3 DEF JM!Next
    <2>14. CASE WaitRelease(t)
      <3>1. /\ pc[t] = "release" /\ mutex' = NoThread
            /\ pc' = [pc EXCEPT ![t] = "sleeping"] /\ UNCHANGED <<word, held>>
        BY <2>14 DEF WaitRelease, Goto
      <3>2. LockHolder = t /\ LockHolder' = NoThread
        BY <3>1 DEF LockHolder, Inv, LockInv, PlaceInv
      <3>3. JM!Wait(t)
        BY <1>0, <3>1, <3>2, WaitStep
      <3> QED BY <3>3 DEF JM!Next
    <2>19. CASE NotifySignal(t)
      <3>1. pc[t] \in {"notify", "notifyAll"} /\ UNCHANGED <<word, mutex, held>>
        BY <2>19 DEF NotifySignal, wordVars
      <3>2. Goto(t, "run") \/ Goto(t, pc[t])
        BY <1>0, <2>19 DEF NotifySignal, Goto
      <3> QED BY <3>1, <3>2, MoveSame DEF Labels
    <2>2. CASE LockThinUnowned(t)
      <3>1. pc[t] = "lock" /\ Goto(t, "cas") /\ UNCHANGED <<word, mutex, held>>
        BY <2>2 DEF LockThinUnowned, waitVars, wordVars
      <3> QED BY <3>1, MoveSame DEF Labels
    <2>4. CASE LockThinContended(t)
      <3>1. pc[t] = "lock" /\ Goto(t, "spin") /\ UNCHANGED <<word, mutex, held>>
        BY <2>4 DEF LockThinContended, waitVars, wordVars
      <3> QED BY <3>1, MoveSame DEF Labels
    <2>5. CASE Spin(t)
      <3>1. pc[t] = "spin" /\ (Goto(t, "spincas") \/ Goto(t, "lock")) /\ UNCHANGED <<word, mutex, held>>
        BY <2>5 DEF Spin, waitVars, wordVars
      <3> QED BY <3>1, MoveSame DEF Labels
    <2>8. CASE LockFat(t)
      <3>1. pc[t] = "lock" /\ Goto(t, "monitor") /\ UNCHANGED <<word, mutex, held>>
        BY <2>8 DEF LockFat, waitVars, wordVars
      <3> QED BY <3>1, MoveSame DEF Labels
    <2>12. CASE MonitorBusy(t)
      <3>1. /\ UNCHANGED <<word, mutex, held>>
            /\ \/ pc[t] = "monitor" /\ Goto(t, "blocked")
               \/ pc[t] = "relock" /\ Goto(t, "reblocked")
        BY <2>12 DEF MonitorBusy, wordVars
      <3> QED BY <3>1, MoveSame DEF Labels
    <2>13. CASE WaitArm(t)
      <3>1. pc[t] = "arm" /\ (Goto(t, "done") \/ Goto(t, "release")) /\ UNCHANGED <<word, mutex, held>>
        BY <2>13 DEF WaitArm, waitVars, wordVars
      <3> QED BY <3>1, MoveSame DEF Labels
    <2>15. CASE WaitSleep(t)
      <3>1. pc[t] = "sleeping" /\ Goto(t, "asleep") /\ UNCHANGED <<word, mutex, held>>
        BY <2>15 DEF WaitSleep, waitVars, wordVars
      <3> QED BY <3>1, MoveSame DEF Labels
    <2>16. CASE Wake(t)
      <3>1. pc[t] = "asleep" /\ Goto(t, "relock") /\ UNCHANGED <<word, mutex, held>>
        BY <2>16 DEF Wake, WakeUp, wordVars
      <3> QED BY <3>1, MoveSame DEF Labels
    <2>17. CASE WaitDone(t)
      <3>1. pc[t] = "done" /\ Goto(t, "back") /\ UNCHANGED <<word, mutex, held>>
        BY <2>17 DEF WaitDone, waitVars, wordVars
      <3> QED BY <3>1, MoveSame DEF Labels
    <2>18. CASE WaitBack(t)
      <3>1. pc[t] = "back" /\ Goto(t, "run") /\ UNCHANGED <<word, mutex, held>>
        BY <2>18 DEF WaitBack, waitVars, wordVars
      <3> QED BY <3>1, MoveSame DEF Labels
    <2>20. CASE QueryClear(t)
      <3>1. pc[t] = "query" /\ Goto(t, "run") /\ UNCHANGED <<word, mutex, held>>
        BY <2>20 DEF QueryClear, waitVars, wordVars
      <3> QED BY <3>1, MoveSame DEF Labels
    <2> QED
      BY <1>2, <2>1, <2>2, <2>3, <2>4, <2>5, <2>6, <2>7, <2>8, <2>9, <2>10, <2>11,
         <2>12, <2>13, <2>14, <2>15, <2>16, <2>17, <2>18, <2>19, <2>20 DEF Proceed
  <1>3. ASSUME NEW t \in Threads, CallLock(t) PROVE Refines
    <2>1. pc[t] = "run" /\ Goto(t, "lock") /\ UNCHANGED <<word, mutex, held>>
      BY <1>3 DEF CallLock, waitVars, wordVars
    <2> QED BY <2>1, MoveSame DEF Labels
  <1>4. ASSUME NEW t \in Threads, UnlockThin(t) PROVE Refines
    <2>1. /\ pc[t] = "run" /\ ~word.fat /\ word.owner = t /\ held[t] = word.count + 1
          /\ held' = [held EXCEPT ![t] = @ - 1] /\ UNCHANGED pc
          /\ word' = IF word.count = 0 THEN Unowned ELSE Thin(t, word.count - 1)
      BY <1>4 DEF UnlockThin, ThinOwned, Inv, LockInv, HoldInv
    <2>2. word.count \in Nat
      BY DEF Inv, LockType
    <2>3. LockHolder = t /\ LockHolder' = IF held[t] = 1 THEN NoThread ELSE t
      BY <2>1, <2>2 DEF LockHolder, Unowned, Thin
    <2>4. JM!Exit(t)
      BY <2>1, <2>3, ExitStep
    <2> QED BY <2>4 DEF JM!Next
  <1>5. ASSUME NEW t \in Threads, UnlockFat(t) PROVE Refines
    <2>1. /\ pc[t] = "run" /\ word.fat /\ mutex = t /\ held[t] = lockCount + 1
          /\ held' = [held EXCEPT ![t] = @ - 1] /\ UNCHANGED <<pc, word>>
          /\ mutex' = IF lockCount = 0 THEN NoThread ELSE mutex
      BY <1>5, MonitorAssumption
         DEF UnlockFat, FatOwned, Inv, LockInv, WordInv, HoldInv, LockType
    <2>2. LockHolder = t /\ LockHolder' = IF held[t] = 1 THEN NoThread ELSE t
      BY <2>1 DEF LockHolder, Inv, LockType
    <2>3. JM!Exit(t)
      BY <2>1, <2>2, ExitStep
    <2> QED BY <2>3 DEF JM!Next
  <1>6. ASSUME NEW t \in Threads, NEW m \in Modes, WaitStart(t, m) PROVE Refines
    <2>1. /\ pc[t] = "run" /\ pc' = [pc EXCEPT ![t] = "arm"] /\ UNCHANGED held
          /\ word' = Fat /\ mutex' = t
      BY <1>6 DEF WaitStart, Goto
    <2>2. LockHolder = t
      BY <1>6, MonitorAssumption
         DEF WaitStart, ThinOwned, FatOwned, LockHolder, Inv, LockInv, WordInv
    <2>3. LockHolder' = t
      BY <2>1 DEF LockHolder, Fat
    <2>4. \A u \in Threads : /\ Parked(u)' = Parked(u)
                             /\ (pc'[u] = "fatten") = (pc[u] = "fatten")
      BY <1>0, <2>1
    <2> QED BY <2>1, <2>2, <2>3, <2>4, SameMonitor
  <1>7. ASSUME NEW t \in Threads, WakeEarly(t) PROVE Refines
    <2>1. pc[t] = "asleep" /\ Goto(t, "relock") /\ UNCHANGED <<word, mutex, held>>
      BY <1>7 DEF WakeEarly, WakeUp, wordVars
    <2> QED BY <2>1, MoveSame DEF Labels
  <1>8. ASSUME NEW t \in Threads, NEW label \in {"notify", "notifyAll"}, Notify(t, label) PROVE Refines
    <2>1. pc[t] = "run" /\ Goto(t, label) /\ UNCHANGED <<word, mutex, held>>
      BY <1>8 DEF Notify, waitVars, wordVars
    <2> QED BY <2>1, MoveSame DEF Labels
  <1>9. ASSUME NEW t \in Threads, NEW u \in Waiters, Interrupt(t, u) PROVE Refines
    <2>1. UNCHANGED <<wordVars, pc, prevLockCount>>
      BY <1>9 DEF Interrupt
    <2> QED BY <2>1 DEF wordVars, LockHolder, LockDepth, ParkedDepth
  <1>10. ASSUME NEW t \in Threads, QueryInterrupted(t) PROVE Refines
    <2>1. pc[t] = "run" /\ Goto(t, "query") /\ UNCHANGED <<word, mutex, held>>
      BY <1>10 DEF QueryInterrupted, waitVars, wordVars
    <2> QED BY <2>1, MoveSame DEF Labels
  <1> QED
    BY <1>1, <1>2, <1>3, <1>4, <1>5, <1>6, <1>7, <1>8, <1>9, <1>10 DEF Next

(* The thin lock and the Monitor it is fattened into implement the Java     *)
(* monitor: enter, exit, wait and return, each at one step of the lock.    *)
THEOREM MonitorRefinement == Spec => RefinesJavaMonitor
  <1>1. Init => JM!Init
    BY MonitorAssumption
       DEF Init, JM!Init, LockHolder, LockDepth, Unowned, Thin
  <1>2. Inv /\ Inv' /\ [Next]_vars => [JM!Next]_(JM!vars)
    BY NextRefines DEF JM!vars, ParkedDepth
  <1> QED
    BY <1>1, <1>2, InvAlways, PTL DEF Spec, JM!Spec, RefinesJavaMonitor

-----------------------------------------------------------------------------
(* What waitMonitor and Thread.interrupted have read of the flag is known  *)
(* only until they are done, and an interrupt is in one place or the other.*)
InterruptInv ==
    /\ pc \in [Threads -> Labels]
    /\ interrupted \in [Threads -> BOOLEAN]
    /\ wasInterrupted \in [Threads -> BOOLEAN]
    /\ owed \in [Threads -> {"none", "owed", "swallowed"}]
    /\ \A t \in Threads : wasInterrupted[t] =>
            pc[t] \in {"relock", "reblocked", "done", "back", "query"}
    /\ InterruptKept

(* Every step keeps it.                                                    *)
LEMMA InterruptNext == InterruptInv /\ [Next]_vars => InterruptInv'
  <1> SUFFICES ASSUME InterruptInv, [Next]_vars PROVE InterruptInv'
    OBVIOUS
  <1> USE DEF InterruptInv, InterruptKept, Labels, wordVars, waitVars, intrVars, Goto
  <1>1. CASE UNCHANGED vars
    BY <1>1 DEF vars
  <1>2. ASSUME NEW t \in Threads, Proceed(t) PROVE InterruptInv'
    <2>1. CASE LockThinOwned(t)
      BY <2>1 DEF LockThinOwned, Returned
    <2>2. CASE LockThinUnowned(t)
      BY <2>2 DEF LockThinUnowned
    <2>3. CASE Cas(t)
      BY <2>3 DEF Cas, Returned
    <2>4. CASE LockThinContended(t)
      BY <2>4 DEF LockThinContended
    <2>5. CASE Spin(t)
      BY <2>5 DEF Spin
    <2>6. CASE SpinCas(t)
      BY <2>6 DEF SpinCas
    <2>7. CASE Fatten(t)
      BY <2>7 DEF Fatten, Returned
    <2>8. CASE LockFat(t)
      BY <2>8 DEF LockFat
    <2>9. CASE MonitorReenter(t)
      BY <2>9 DEF MonitorReenter, Returned
    <2>10. CASE MonitorEnter(t)
      BY <2>10 DEF MonitorEnter, Returned
    <2>11. CASE MonitorReturn(t)
      BY <2>11 DEF MonitorReturn
    <2>12. CASE MonitorBusy(t)
      BY <2>12 DEF MonitorBusy
    <2>13. CASE WaitArm(t)
      BY <2>13 DEF WaitArm
    <2>14. CASE WaitRelease(t)
      BY <2>14 DEF WaitRelease
    <2>15. CASE WaitSleep(t)
      BY <2>15 DEF WaitSleep
    <2>16. CASE Wake(t)
      BY <2>16 DEF Wake, WakeUp
    <2>17. CASE WaitDone(t)
      BY <2>17 DEF WaitDone
    <2>18. CASE WaitBack(t)
      BY <2>18 DEF WaitBack
    <2>19. CASE NotifySignal(t)
      BY <2>19 DEF NotifySignal
    <2>20. CASE QueryClear(t)
      BY <2>20 DEF QueryClear
    <2> QED BY <1>2, <2>1, <2>2, <2>3, <2>4, <2>5, <2>6, <2>7, <2>8, <2>9, <2>10, <2>11, <2>12, <2>13, <2>14, <2>15, <2>16, <2>17, <2>18, <2>19, <2>20 DEF Proceed
  <1>3. ASSUME NEW t \in Threads, CallLock(t) \/ UnlockThin(t) \/ UnlockFat(t)
        PROVE  InterruptInv'
    BY <1>3 DEF CallLock, UnlockThin, UnlockFat
  <1>4. ASSUME NEW t \in Threads, NEW m \in Modes, WaitStart(t, m) PROVE InterruptInv'
    BY <1>4 DEF WaitStart
  <1>5. ASSUME NEW t \in Threads, WakeEarly(t) PROVE InterruptInv'
    BY <1>5 DEF WakeEarly, WakeUp
  <1>6. ASSUME NEW t \in Threads, NEW label \in {"notify", "notifyAll"}, Notify(t, label)
        PROVE  InterruptInv'
    BY <1>6 DEF Notify
  <1>7. ASSUME NEW t \in Threads, NEW u \in Waiters, Interrupt(t, u) PROVE InterruptInv'
    BY <1>7, MonitorAssumption DEF Interrupt
  <1>8. ASSUME NEW t \in Threads, QueryInterrupted(t) PROVE InterruptInv'
    BY <1>8 DEF QueryInterrupted
  <1> QED BY <1>1, <1>2, <1>3, <1>4, <1>5, <1>6, <1>7, <1>8 DEF Next

(* An interrupt stays raised until it is queried, thrown or, by the wait   *)
(* of class initialization or an unguarded query, swallowed.               *)
THEOREM InterruptSafe == Spec => []InterruptKept
  <1>1. Init => InterruptInv
    BY DEF Init, InterruptInv, InterruptKept, Labels
  <1>2. InterruptInv => InterruptKept
    BY DEF InterruptInv
  <1> QED BY <1>1, <1>2, InterruptNext, PTL DEF Spec

-----------------------------------------------------------------------------
(* What the operations of the wait set do: append, take the head, unlink.  *)

(* A thread that was not in a sequence joins at its end.                   *)
LEMMA JoinSet ==
    ASSUME NEW s \in Seq(Threads), IsInjective(s), NEW t \in Threads, ~Contains(s, t)
    PROVE  /\ Append(s, t) \in Seq(Threads)
           /\ IsInjective(Append(s, t))
           /\ \A u \in Threads : Contains(Append(s, t), u) <=> (u = t \/ Contains(s, u))
  <1>1. /\ Append(s, t) \in Seq(Threads)
        /\ Len(Append(s, t)) = Len(s) + 1 /\ Len(s) \in Nat
        /\ \A i \in 1..Len(s) : Append(s, t)[i] = s[i]
        /\ Append(s, t)[Len(s) + 1] = t
    BY AppendProperties, LenProperties
  <1>2. DOMAIN Append(s, t) = 1..(Len(s) + 1) /\ DOMAIN s = 1..Len(s)
    BY <1>1, LenProperties
  <1>3. IsInjective(Append(s, t))
    BY <1>1, <1>2 DEF IsInjective, Contains
  <1>4. ASSUME NEW u \in Threads
        PROVE  Contains(Append(s, t), u) <=> (u = t \/ Contains(s, u))
    BY <1>1 DEF Contains
  <1> QED BY <1>1, <1>3, <1>4

(* The head of a sequence without repetitions is in none of the rest.      *)
LEMMA PopSet ==
    ASSUME NEW s \in Seq(Threads), IsInjective(s), s # <<>>
    PROVE  /\ Tail(s) \in Seq(Threads)
           /\ Head(s) \in Threads
           /\ IsInjective(Tail(s))
           /\ \A u \in Threads : Contains(Tail(s), u) <=> (u # Head(s) /\ Contains(s, u))
  <1>1. /\ Tail(s) \in Seq(Threads) /\ Head(s) \in Threads
        /\ Len(Tail(s)) = Len(s) - 1
        /\ \A i \in 1..Len(Tail(s)) : Tail(s)[i] = s[i + 1]
    BY HeadTailProperties
  <1>2. /\ Len(s) \in Nat \ {0} /\ DOMAIN s = 1..Len(s)
        /\ DOMAIN Tail(s) = 1..(Len(s) - 1)
    BY <1>1, LenProperties, EmptySeq
  <1>3. Head(s) = s[1]
    OBVIOUS
  <1>4. IsInjective(Tail(s))
    BY <1>1, <1>2 DEF IsInjective
  <1>5. ASSUME NEW u \in Threads, Contains(Tail(s), u)
        PROVE  u # Head(s) /\ Contains(s, u)
    <2>1. PICK i \in 1..(Len(s) - 1) : s[i + 1] = u
      BY <1>1, <1>2, <1>5 DEF Contains
    <2>2. i + 1 \in 1..Len(s) /\ i + 1 # 1
      BY <1>2
    <2> QED BY <1>2, <1>3, <2>1, <2>2 DEF IsInjective, Contains
  <1>6. ASSUME NEW u \in Threads, u # Head(s), Contains(s, u)
        PROVE  Contains(Tail(s), u)
    <2>1. PICK i \in 1..Len(s) : s[i] = u
      BY <1>6 DEF Contains
    <2>2. i - 1 \in 1..Len(Tail(s)) /\ Tail(s)[i - 1] = s[(i - 1) + 1]
      BY <1>1, <1>2, <1>3, <1>6, <2>1
    <2>3. (i - 1) + 1 = i
      OBVIOUS
    <2> QED BY <2>1, <2>2, <2>3 DEF Contains
  <1> QED BY <1>1, <1>4, <1>5, <1>6

(* Unlinking takes one thread out, wherever it is, and no other.           *)
LEMMA UnlinkSet ==
    ASSUME NEW s \in Seq(Threads), IsInjective(s), NEW t \in Threads
    PROVE  /\ RemoveFirst(s, t) \in Seq(Threads)
           /\ IsInjective(RemoveFirst(s, t))
           /\ \A u \in Threads :
                  Contains(RemoveFirst(s, t), u) <=> (u # t /\ Contains(s, u))
  <1>1. Len(s) \in Nat /\ DOMAIN s = 1..Len(s) /\ \A i \in 1..Len(s) : s[i] \in Threads
    BY LenProperties, ElementOfSeq
  <1>2. CASE ~Contains(s, t)
    BY <1>2 DEF RemoveFirst, Contains
  <1>3. CASE Contains(s, t)
    <2>1. PICK i \in 1..Len(s) : s[i] = t
      BY <1>3 DEF Contains
    <2>2. {j \in 1..Len(s) : s[j] = t} = {i}
      BY <1>1, <2>1 DEF IsInjective
    <2>3. SelectInSeq(s, LAMBDA v : v = t) = i
      BY <2>2 DEF SelectInSeq, Min
    <2>4. RemoveFirst(s, t) = SubSeq(s, 1, i - 1) \o SubSeq(s, i + 1, Len(s))
      BY <2>1, <2>3 DEF RemoveFirst, RemoveAt
    <2> DEFINE a == SubSeq(s, 1, i - 1)
               b == SubSeq(s, i + 1, Len(s))
               r == RemoveFirst(s, t)
    <2>5. /\ a \in Seq(Threads) /\ Len(a) = i - 1
          /\ \A j \in 1..(i - 1) : a[j] = s[j]
      <3>1. \A j \in 1..(i - 1) : s[j] \in Threads
        BY <1>1
      <3>2. /\ SubSeq(s, 1, i - 1) \in Seq(Threads)
            /\ Len(SubSeq(s, 1, i - 1)) = IF 1 <= i - 1 THEN (i - 1) - 1 + 1 ELSE 0
            /\ \A j \in 1..((i - 1) - 1 + 1) : SubSeq(s, 1, i - 1)[j] = s[1 + j - 1]
        BY <3>1, SubSeqProperties
      <3>3. (i - 1) - 1 + 1 = i - 1 /\ \A j \in 1..(i - 1) : 1 + j - 1 = j
        OBVIOUS
      <3>4. \A j \in 1..(i - 1) : SubSeq(s, 1, i - 1)[j] = s[j]
        BY <3>2, <3>3
      <3> QED BY <1>1, <3>2, <3>4
    <2>6. /\ b \in Seq(Threads) /\ Len(b) = Len(s) - i
          /\ \A j \in 1..(Len(s) - i) : b[j] = s[i + j]
      <3>1. \A j \in (i + 1)..Len(s) : s[j] \in Threads
        BY <1>1
      <3>2. /\ SubSeq(s, i + 1, Len(s)) \in Seq(Threads)
            /\ Len(SubSeq(s, i + 1, Len(s))) =
                    IF i + 1 <= Len(s) THEN Len(s) - (i + 1) + 1 ELSE 0
            /\ \A j \in 1..(Len(s) - (i + 1) + 1) :
                    SubSeq(s, i + 1, Len(s))[j] = s[(i + 1) + j - 1]
        BY <1>1, <3>1, SubSeqProperties
      <3>3. /\ Len(s) - (i + 1) + 1 = Len(s) - i
            /\ \A j \in 1..(Len(s) - i) : (i + 1) + j - 1 = i + j
        BY <1>1
      <3>4. \A j \in 1..(Len(s) - i) : SubSeq(s, i + 1, Len(s))[j] = s[i + j]
        BY <3>2, <3>3
      <3>5. ASSUME NEW n \in Nat, NEW k \in 1..n
            PROVE  (k + 1 <= n => n - (k + 1) + 1 = n - k) /\ (~(k + 1 <= n) => 0 = n - k)
        OBVIOUS
      <3>6. Len(b) = Len(s) - i
        <4>1. CASE i + 1 <= Len(s)
          BY <1>1, <3>2, <3>5, <4>1
        <4>2. CASE ~(i + 1 <= Len(s))
          BY <1>1, <3>2, <3>5, <4>2
        <4> QED BY <4>1, <4>2
      <3>7. b \in Seq(Threads)
        BY <3>2
      <3> QED BY <3>4, <3>6, <3>7
    <2> HIDE DEF a, b
    <2>7. /\ r \in Seq(Threads) /\ Len(r) = Len(s) - 1
          /\ \A j \in 1..(Len(s) - 1) : r[j] = IF j <= i - 1 THEN a[j] ELSE b[j - (i - 1)]
      <3>1. r = a \o b
        BY <2>4 DEF a, b
      <3>2. /\ a \o b \in Seq(Threads)
            /\ Len(a \o b) = Len(a) + Len(b)
            /\ \A j \in 1..(Len(a) + Len(b)) :
                    (a \o b)[j] = IF j <= Len(a) THEN a[j] ELSE b[j - Len(a)]
        BY <2>5, <2>6, ConcatProperties
      <3>3. Len(a) + Len(b) = Len(s) - 1
        BY <1>1, <2>5, <2>6
      <3> QED BY <2>5, <3>1, <3>2, <3>3
    <2> HIDE DEF r
    <2>8. \A j \in 1..(Len(s) - 1) : r[j] = IF j < i THEN s[j] ELSE s[j + 1]
      <3>1. ASSUME NEW j \in 1..(Len(s) - 1), j < i PROVE r[j] = s[j]
        BY <1>1, <2>5, <2>7, <3>1
      <3>2. ASSUME NEW j \in 1..(Len(s) - 1), ~(j < i) PROVE r[j] = s[j + 1]
        <4>1. /\ j - (i - 1) \in 1..(Len(s) - i)
              /\ i + (j - (i - 1)) = j + 1
              /\ ~(j <= i - 1)
          BY <1>1, <3>2
        <4>2. r[j] = b[j - (i - 1)]
          BY <2>7, <4>1
        <4>3. b[j - (i - 1)] = s[i + (j - (i - 1))]
          BY <2>6, <4>1
        <4> QED BY <4>1, <4>2, <4>3
      <3> QED BY <3>1, <3>2
    <2>9. DOMAIN r = 1..(Len(s) - 1)
      BY <2>7, LenProperties
    <2>10. IsInjective(r)
      <3> DEFINE from(j) == IF j < i THEN j ELSE j + 1
      <3>1. \A j \in 1..(Len(s) - 1) : from(j) \in 1..Len(s) /\ r[j] = s[from(j)]
        BY <1>1, <2>8
      <3>2. \A j, k \in 1..(Len(s) - 1) : from(j) = from(k) => j = k
        OBVIOUS
      <3> HIDE DEF from
      <3> QED BY <1>1, <2>9, <3>1, <3>2 DEF IsInjective
    <2>11. ASSUME NEW u \in Threads, Contains(r, u)
           PROVE  u # t /\ Contains(s, u)
      <3>1. PICK j \in 1..(Len(s) - 1) : r[j] = u
        BY <2>7, <2>11 DEF Contains
      <3>2. PICK k \in 1..Len(s) : k # i /\ s[k] = u
        <4>1. j \in 1..Len(s) /\ j + 1 \in 1..Len(s)
          BY <1>1
        <4> QED BY <2>8, <3>1, <4>1
      <3> QED BY <1>1, <2>1, <3>2 DEF IsInjective, Contains
    <2>12. ASSUME NEW u \in Threads, u # t, Contains(s, u)
           PROVE  Contains(r, u)
      <3>1. PICK k \in 1..Len(s) : s[k] = u /\ k # i
        BY <2>1, <2>12 DEF Contains
      <3>2. CASE k < i
        <4>1. k \in 1..(Len(s) - 1) BY <1>1, <3>2
        <4> QED BY <2>7, <2>8, <3>1, <3>2, <4>1 DEF Contains
      <3>3. CASE ~(k < i)
        <4>1. k - 1 \in 1..(Len(s) - 1) /\ ~(k - 1 < i) /\ (k - 1) + 1 = k
          BY <1>1, <3>1, <3>3
        <4>2. r[k - 1] = s[(k - 1) + 1]
          BY <2>8, <4>1
        <4> QED BY <2>7, <3>1, <4>1, <4>2 DEF Contains
      <3> QED BY <3>2, <3>3
    <2> QED BY <2>7, <2>10, <2>11, <2>12 DEF r
  <1> QED BY <1>2, <1>3

-----------------------------------------------------------------------------
(* Every step keeps the types; the wait set stays a sequence of threads    *)
(* because none is in it twice.                                            *)
LEMMA TypeNext ==
    ASSUME TypeOK, LockType', IsInjective(waitSet), [Next]_vars
    PROVE  TypeOK'
  <1> USE DEF TypeOK, LockType, Labels, Goto, SetStatus, WaitStatus, wordVars, waitVars,
              intrVars
  <1>1. CASE UNCHANGED vars
    BY <1>1 DEF vars
  <1>2. ASSUME NEW t \in Threads, Proceed(t) PROVE TypeOK'
    <2>1. CASE LockThinOwned(t)
      BY <2>1 DEF LockThinOwned, Returned, Inflate, ThinOwned
    <2>2. CASE LockThinUnowned(t)
      BY <2>2 DEF LockThinUnowned, ThinOwned
    <2>3. CASE Cas(t)
      BY <2>3 DEF Cas, Returned
    <2>4. CASE LockThinContended(t)
      BY <2>4 DEF LockThinContended
    <2>5. CASE Spin(t)
      BY <2>5 DEF Spin, ThinOwned
    <2>6. CASE SpinCas(t)
      BY <2>6 DEF SpinCas
    <2>7. CASE Fatten(t)
      BY <2>7 DEF Fatten, Returned, Inflate
    <2>8. CASE LockFat(t)
      BY <2>8 DEF LockFat
    <2>9. CASE MonitorReenter(t)
      BY <2>9 DEF MonitorReenter, Returned
    <2>10. CASE MonitorEnter(t)
      <3>1. /\ UNCHANGED <<waitSet, waitVars, intrVars, target>>
            /\ status' = status \/ SetStatus(t, "RUNNING")
        BY <2>10, Zenon DEF MonitorEnter
      <3>2. status' \in [Threads -> {"RUNNING", "MONITOR", "WAIT", "TIMED_WAIT"}]
        BY <3>1
      <3> QED BY <3>1, <3>2
    <2>11. CASE MonitorReturn(t)
      BY <2>11 DEF MonitorReturn, TakeMutex
    <2>12. CASE MonitorBusy(t)
      BY <2>12 DEF MonitorBusy
    <2>13. CASE WaitArm(t)
      BY <2>13 DEF WaitArm
    <2>14. CASE WaitRelease(t)
      BY <2>14 DEF WaitRelease
    <2>15. CASE WaitSleep(t)
      BY <2>15 DEF WaitSleep
    <2>16. CASE Wake(t)
      BY <2>16 DEF Wake, WakeUp
    <2>17. CASE WaitDone(t)
      <3>1. RemoveFirst(waitSet, t) \in Seq(Threads)
        BY UnlinkSet
      <3> QED BY <2>17, <3>1 DEF WaitDone, WaitSetRemove
    <2>18. CASE WaitBack(t)
      <3>1. /\ interrupted' \in [Threads -> BOOLEAN]
            /\ owed' \in [Threads -> {"none", "owed", "swallowed"}]
        <4>1. CASE wasInterrupted[t]
          <5> DEFINE o == IF mode[t] = "init" THEN "swallowed" ELSE "none"
          <5>1. o \in {"none", "owed", "swallowed"} OBVIOUS
          <5>2. /\ interrupted' = [interrupted EXCEPT ![t] = FALSE]
                /\ owed' = [owed EXCEPT ![t] = o]
            BY <2>18, <4>1 DEF WaitBack
          <5> HIDE DEF o
          <5> QED BY <5>1, <5>2
        <4>2. CASE ~wasInterrupted[t] BY <2>18, <4>2 DEF WaitBack
        <4> QED BY <4>1, <4>2
      <3> QED BY <2>18, <3>1 DEF WaitBack
    <2>19. CASE NotifySignal(t)
      <3>1. waitSet # <<>> => Head(waitSet) \in Threads /\ Tail(waitSet) \in Seq(Threads)
        BY PopSet
      <3>2. /\ UNCHANGED <<status, mode, prevLockCount, wasInterrupted, waitMonitor,
                             interrupted, owed>>
            /\ signaled' = [signaled EXCEPT
                              ![target[t]] = @ \/ waitMonitor[target[t]]]
        BY <2>19 DEF NotifySignal
      <3>3. signaled' \in [Threads -> BOOLEAN]
        BY <3>2, Zenon
      <3>4. /\ waitSet' \in Seq(Threads)
            /\ target' \in [Threads -> Threads \cup {NoThread}]
        <4>1. CASE waitSet = <<>> \/ (pc[t] = "notify" /\ waitMonitor[target[t]])
          <5>1. UNCHANGED waitSet /\ target' = [target EXCEPT ![t] = NoThread]
            BY <2>19, <4>1, Zenon DEF NotifySignal
          <5> QED BY <5>1
        <4>2. CASE ~(waitSet = <<>> \/ (pc[t] = "notify" /\ waitMonitor[target[t]]))
          <5>1. PopWaiter(t) /\ waitSet # <<>>
            BY <2>19, <4>2, Zenon DEF NotifySignal
          <5> QED BY <3>1, <5>1 DEF PopWaiter
        <4> QED BY <4>1, <4>2
      <3> QED BY <3>2, <3>3, <3>4
    <2>20. CASE QueryClear(t)
      BY <2>20 DEF QueryClear
    <2> QED BY <1>2, <2>1, <2>2, <2>3, <2>4, <2>5, <2>6, <2>7, <2>8, <2>9, <2>10, <2>11, <2>12, <2>13, <2>14, <2>15, <2>16, <2>17, <2>18, <2>19, <2>20 DEF Proceed
  <1>3. ASSUME NEW t \in Threads, CallLock(t) PROVE TypeOK'
    BY <1>3 DEF CallLock
  <1>4. ASSUME NEW t \in Threads, UnlockThin(t) PROVE TypeOK'
    BY <1>4 DEF UnlockThin, ThinOwned
  <1>5. ASSUME NEW t \in Threads, UnlockFat(t) PROVE TypeOK'
    BY <1>5 DEF UnlockFat, FatOwned
  <1>6. ASSUME NEW t \in Threads, NEW m \in Modes, WaitStart(t, m) PROVE TypeOK'
    <2>1. Append(waitSet, t) \in Seq(Threads)
      BY AppendProperties
    <2> QED BY <1>6, <2>1, MonitorAssumption DEF WaitStart
  <1>7. ASSUME NEW t \in Threads, WakeEarly(t) PROVE TypeOK'
    BY <1>7 DEF WakeEarly, WakeUp
  <1>8. ASSUME NEW t \in Threads, NEW label \in {"notify", "notifyAll"}, Notify(t, label) PROVE TypeOK'
    <2>1. waitSet # <<>> => Head(waitSet) \in Threads /\ Tail(waitSet) \in Seq(Threads)
      BY PopSet
    <2> QED BY <1>8, <2>1 DEF Notify, PopWaiter
  <1>9. ASSUME NEW t \in Threads, NEW u \in Waiters, Interrupt(t, u) PROVE TypeOK'
    BY <1>9, MonitorAssumption DEF Interrupt
  <1>10. ASSUME NEW t \in Threads, QueryInterrupted(t) PROVE TypeOK'
    BY <1>10 DEF QueryInterrupted
  <1> HIDE DEF TypeOK, LockType
  <1> QED BY <1>1, <1>2, <1>3, <1>4, <1>5, <1>6, <1>7, <1>8, <1>9, <1>10 DEF Next

-----------------------------------------------------------------------------
(* Where a waiting thread is while it waits: in the wait set until a       *)
(* notifier takes it off, then in that notifier's hands until it has its   *)
(* signal, which is sent only to a thread that really sleeps.              *)
Notifying == {"notify", "notifyAll"}

InHands(t) == \E u \in Threads : target[u] = t

WaitPlace(t) ==
    /\ Contains(waitSet, t) => InWait(t)
    /\ target[t] # NoThread => pc[t] \in Notifying
    /\ pc[t] \in Notifying => target[t] \in Threads /\ held[t] > 0 /\ word.fat
    /\ pc[t] \in {"arm", "release"} => Contains(waitSet, t)
    /\ pc[t] \in {"release", "sleeping", "asleep"} => waitMonitor[t]
    /\ pc[t] \in {"release", "sleeping"} => ~interrupted[t]
    /\ pc[t] = "sleeping" => Contains(waitSet, t) \/ InHands(t)
    /\ pc[t] = "asleep" => /\ Contains(waitSet, t) \/ signaled[t] \/ InHands(t)
                           /\ interrupted[t] => signaled[t]

WaitInv == TypeOK /\ IsInjective(waitSet) /\ \A t \in Threads : WaitPlace(t)


(* The waits of a thread from its call to its return.                      *)
Leaving == {"relock", "reblocked", "done"}
Waiting == {"arm", "release", "sleeping", "asleep"} \cup Leaving

(* A step of a thread that is neither in a wait nor in a notify, or is on  *)
(* its way out of a wait, leaves every place of a wait as it was.          *)
LEMMA QuietStep ==
    ASSUME WaitInv, TypeOK', NEW t \in Threads,
           UNCHANGED <<waitSet, target, signaled, waitMonitor>>,
           word.fat => word'.fat,
           \A u \in Threads : u # t =>
               pc'[u] = pc[u] /\ held'[u] = held[u] /\ interrupted'[u] = interrupted[u],
           \/ pc[t] \notin Waiting \cup Notifying /\ pc'[t] \notin Waiting \cup Notifying
           \/ pc[t] \in Leaving /\ pc'[t] \in Leaving
    PROVE  WaitInv'
  <1>1. \A u \in Threads : Contains(waitSet', u) <=> Contains(waitSet, u)
    OBVIOUS
  <1>2. \A u \in Threads : InHands(u)' <=> InHands(u)
    BY DEF InHands
  <1> HIDE DEF InHands
  <1>3. ASSUME NEW u \in Threads PROVE WaitPlace(u)'
    <2>1. WaitPlace(u)
      BY DEF WaitInv
    <2>2. CASE u # t
      BY <1>1, <1>2, <2>1, <2>2 DEF WaitPlace, Notifying
    <2>3. CASE u = t
      BY <1>1, <2>1, <2>3 DEF WaitPlace, Notifying, Waiting, Leaving
    <2> QED BY <2>2, <2>3
  <1>4. IsInjective(waitSet')
    BY DEF WaitInv
  <1> QED BY <1>3, <1>4 DEF WaitInv

(* A notifier owns the lock, so nobody else that owns it can be about to    *)
(* wait, and no other thread notifies.                                     *)
LEMMA NotifierOwns ==
    ASSUME Inv, WaitInv
    PROVE  \A u \in Threads : pc[u] \in Notifying => mutex = u
  BY DEF Inv, LockInv, HoldInv, WaitInv, WaitPlace, Notifying

(* Every step keeps the places of the waits.                               *)
LEMMA WaitNext ==
    ASSUME Inv, WaitInv, TypeOK', [Next]_vars
    PROVE  WaitInv'
  <1>0. /\ TypeOK /\ TypeOK' /\ IsInjective(waitSet) /\ WaitInv
        /\ waitSet \in Seq(Threads)
        /\ pc \in [Threads -> Labels] /\ target \in [Threads -> Threads \cup {NoThread}]
        /\ signaled \in [Threads -> BOOLEAN] /\ interrupted \in [Threads -> BOOLEAN]
        /\ waitMonitor \in [Threads -> BOOLEAN] /\ held \in [Threads -> Nat]
        /\ (word.fat => word'.fat)
    BY FatStays DEF WaitInv, TypeOK, vars, wordVars
  <1>h. \A u \in Threads : WaitPlace(u)
    BY DEF WaitInv
  <1> USE DEF Goto, SetStatus, wordVars, waitVars, intrVars
  <1> HIDE DEF TypeOK
  <1>1. CASE UNCHANGED vars
    BY <1>0, <1>1
       DEF vars, wordVars, waitVars, intrVars, WaitInv, WaitPlace, InHands
  <1>2. ASSUME NEW t \in Threads, Proceed(t) PROVE WaitInv'
    <2>1. CASE LockThinOwned(t)
      <3>1. /\ UNCHANGED <<waitSet, target, signaled, waitMonitor>>
            /\ \A u \in Threads : u # t =>
                 pc'[u] = pc[u] /\ held'[u] = held[u] /\ interrupted'[u] = interrupted[u]
        BY <1>0, <2>1 DEF LockThinOwned, Returned, Inflate, ThinOwned
      <3>2. \/ pc[t] \notin Waiting \cup Notifying /\ pc'[t] \notin Waiting \cup Notifying
            \/ pc[t] \in Leaving /\ pc'[t] \in Leaving
        BY <1>0, <2>1 DEF LockThinOwned, Returned, Inflate, ThinOwned, Waiting, Leaving, Notifying
      <3> QED BY <1>0, <3>1, <3>2, QuietStep
    <2>2. CASE LockThinUnowned(t)
      <3>1. /\ UNCHANGED <<waitSet, target, signaled, waitMonitor>>
            /\ \A u \in Threads : u # t =>
                 pc'[u] = pc[u] /\ held'[u] = held[u] /\ interrupted'[u] = interrupted[u]
        BY <1>0, <2>2 DEF LockThinUnowned, ThinOwned
      <3>2. \/ pc[t] \notin Waiting \cup Notifying /\ pc'[t] \notin Waiting \cup Notifying
            \/ pc[t] \in Leaving /\ pc'[t] \in Leaving
        BY <1>0, <2>2 DEF LockThinUnowned, ThinOwned, Waiting, Leaving, Notifying
      <3> QED BY <1>0, <3>1, <3>2, QuietStep
    <2>3. CASE Cas(t)
      <3>1. /\ UNCHANGED <<waitSet, target, signaled, waitMonitor>>
            /\ \A u \in Threads : u # t =>
                 pc'[u] = pc[u] /\ held'[u] = held[u] /\ interrupted'[u] = interrupted[u]
        BY <1>0, <2>3 DEF Cas, Returned
      <3>2. \/ pc[t] \notin Waiting \cup Notifying /\ pc'[t] \notin Waiting \cup Notifying
            \/ pc[t] \in Leaving /\ pc'[t] \in Leaving
        BY <1>0, <2>3 DEF Cas, Returned, Waiting, Leaving, Notifying
      <3> QED BY <1>0, <3>1, <3>2, QuietStep
    <2>4. CASE LockThinContended(t)
      <3>1. /\ UNCHANGED <<waitSet, target, signaled, waitMonitor>>
            /\ \A u \in Threads : u # t =>
                 pc'[u] = pc[u] /\ held'[u] = held[u] /\ interrupted'[u] = interrupted[u]
        BY <1>0, <2>4 DEF LockThinContended
      <3>2. \/ pc[t] \notin Waiting \cup Notifying /\ pc'[t] \notin Waiting \cup Notifying
            \/ pc[t] \in Leaving /\ pc'[t] \in Leaving
        BY <1>0, <2>4 DEF LockThinContended, Waiting, Leaving, Notifying
      <3> QED BY <1>0, <3>1, <3>2, QuietStep
    <2>5. CASE Spin(t)
      <3>1. /\ UNCHANGED <<waitSet, target, signaled, waitMonitor>>
            /\ \A u \in Threads : u # t =>
                 pc'[u] = pc[u] /\ held'[u] = held[u] /\ interrupted'[u] = interrupted[u]
        BY <1>0, <2>5 DEF Spin, ThinOwned
      <3>2. \/ pc[t] \notin Waiting \cup Notifying /\ pc'[t] \notin Waiting \cup Notifying
            \/ pc[t] \in Leaving /\ pc'[t] \in Leaving
        BY <1>0, <2>5 DEF Spin, ThinOwned, Waiting, Leaving, Notifying
      <3> QED BY <1>0, <3>1, <3>2, QuietStep
    <2>6. CASE SpinCas(t)
      <3>1. /\ UNCHANGED <<waitSet, target, signaled, waitMonitor>>
            /\ \A u \in Threads : u # t =>
                 pc'[u] = pc[u] /\ held'[u] = held[u] /\ interrupted'[u] = interrupted[u]
        BY <1>0, <2>6 DEF SpinCas
      <3>2. \/ pc[t] \notin Waiting \cup Notifying /\ pc'[t] \notin Waiting \cup Notifying
            \/ pc[t] \in Leaving /\ pc'[t] \in Leaving
        BY <1>0, <2>6 DEF SpinCas, Waiting, Leaving, Notifying
      <3> QED BY <1>0, <3>1, <3>2, QuietStep
    <2>7. CASE Fatten(t)
      <3>1. /\ UNCHANGED <<waitSet, target, signaled, waitMonitor>>
            /\ \A u \in Threads : u # t =>
                 pc'[u] = pc[u] /\ held'[u] = held[u] /\ interrupted'[u] = interrupted[u]
        BY <1>0, <2>7 DEF Fatten, Returned, Inflate
      <3>2. \/ pc[t] \notin Waiting \cup Notifying /\ pc'[t] \notin Waiting \cup Notifying
            \/ pc[t] \in Leaving /\ pc'[t] \in Leaving
        BY <1>0, <2>7 DEF Fatten, Returned, Inflate, Waiting, Leaving, Notifying
      <3> QED BY <1>0, <3>1, <3>2, QuietStep
    <2>8. CASE LockFat(t)
      <3>1. /\ UNCHANGED <<waitSet, target, signaled, waitMonitor>>
            /\ \A u \in Threads : u # t =>
                 pc'[u] = pc[u] /\ held'[u] = held[u] /\ interrupted'[u] = interrupted[u]
        BY <1>0, <2>8 DEF LockFat
      <3>2. \/ pc[t] \notin Waiting \cup Notifying /\ pc'[t] \notin Waiting \cup Notifying
            \/ pc[t] \in Leaving /\ pc'[t] \in Leaving
        BY <1>0, <2>8 DEF LockFat, Waiting, Leaving, Notifying
      <3> QED BY <1>0, <3>1, <3>2, QuietStep
    <2>9. CASE MonitorReenter(t)
      <3>1. /\ UNCHANGED <<waitSet, target, signaled, waitMonitor>>
            /\ \A u \in Threads : u # t =>
                 pc'[u] = pc[u] /\ held'[u] = held[u] /\ interrupted'[u] = interrupted[u]
        BY <1>0, <2>9 DEF MonitorReenter, Returned
      <3>2. \/ pc[t] \notin Waiting \cup Notifying /\ pc'[t] \notin Waiting \cup Notifying
            \/ pc[t] \in Leaving /\ pc'[t] \in Leaving
        BY <1>0, <2>9 DEF MonitorReenter, Returned, Waiting, Leaving, Notifying
      <3> QED BY <1>0, <3>1, <3>2, QuietStep
    <2>10. CASE MonitorEnter(t)
      <3>1. /\ UNCHANGED <<waitSet, target, signaled, waitMonitor>>
            /\ \A u \in Threads : u # t =>
                 pc'[u] = pc[u] /\ held'[u] = held[u] /\ interrupted'[u] = interrupted[u]
        BY <1>0, <2>10 DEF MonitorEnter, Returned, TakeMutex
      <3>2. \/ pc[t] \notin Waiting \cup Notifying /\ pc'[t] \notin Waiting \cup Notifying
            \/ pc[t] \in Leaving /\ pc'[t] \in Leaving
        BY <1>0, <2>10 DEF MonitorEnter, Returned, TakeMutex, Waiting, Leaving, Notifying
      <3> QED BY <1>0, <3>1, <3>2, QuietStep
    <2>11. CASE MonitorReturn(t)
      <3>1. /\ UNCHANGED <<waitSet, target, signaled, waitMonitor>>
            /\ \A u \in Threads : u # t =>
                 pc'[u] = pc[u] /\ held'[u] = held[u] /\ interrupted'[u] = interrupted[u]
        BY <1>0, <2>11 DEF MonitorReturn, TakeMutex
      <3>2. \/ pc[t] \notin Waiting \cup Notifying /\ pc'[t] \notin Waiting \cup Notifying
            \/ pc[t] \in Leaving /\ pc'[t] \in Leaving
        BY <1>0, <2>11 DEF MonitorReturn, TakeMutex, Waiting, Leaving, Notifying
      <3> QED BY <1>0, <3>1, <3>2, QuietStep
    <2>12. CASE MonitorBusy(t)
      <3>1. /\ UNCHANGED <<waitSet, target, signaled, waitMonitor>>
            /\ \A u \in Threads : u # t =>
                 pc'[u] = pc[u] /\ held'[u] = held[u] /\ interrupted'[u] = interrupted[u]
        BY <1>0, <2>12 DEF MonitorBusy
      <3>2. \/ pc[t] \notin Waiting \cup Notifying /\ pc'[t] \notin Waiting \cup Notifying
            \/ pc[t] \in Leaving /\ pc'[t] \in Leaving
        BY <1>0, <2>12 DEF MonitorBusy, Waiting, Leaving, Notifying
      <3> QED BY <1>0, <3>1, <3>2, QuietStep
    <2>13. CASE WaitArm(t)
      <3>f. pc[t] = "arm" /\ pc'[t] = (IF interrupted[t] THEN "done" ELSE "release") /\ waitMonitor'[t] = ~interrupted[t] /\ interrupted' = interrupted
        BY <1>0, <2>13 DEF WaitArm
      <3>1. /\ UNCHANGED <<waitSet, target>>
            /\ \A u \in Threads : u # t =>
                 /\ pc'[u] = pc[u] /\ held'[u] = held[u] /\ interrupted'[u] = interrupted[u]
                 /\ signaled'[u] = signaled[u] /\ waitMonitor'[u] = waitMonitor[u]
        BY <1>0, <2>13 DEF WaitArm
      <3>2. \A u \in Threads : InHands(u)' <=> InHands(u)
        BY <3>1 DEF InHands
      <3>3. ASSUME NEW u \in Threads, u # t PROVE WaitPlace(u)'
        BY <1>0, <1>h, <3>1, <3>2, <3>3 DEF WaitPlace, Notifying
      <3>4. WaitPlace(t)'
        BY <1>0, <1>h, <3>1, <3>2, <3>f DEF WaitPlace, Notifying
      <3> QED BY <3>1, <3>3, <3>4 DEF WaitInv
    <2>14. CASE WaitRelease(t)
      <3>f. pc[t] = "release" /\ pc'[t] = "sleeping" /\ waitMonitor' = waitMonitor /\ interrupted' = interrupted
        BY <1>0, <2>14 DEF WaitRelease
      <3>1. /\ UNCHANGED <<waitSet, target>>
            /\ \A u \in Threads : u # t =>
                 /\ pc'[u] = pc[u] /\ held'[u] = held[u] /\ interrupted'[u] = interrupted[u]
                 /\ signaled'[u] = signaled[u] /\ waitMonitor'[u] = waitMonitor[u]
        BY <1>0, <2>14 DEF WaitRelease
      <3>2. \A u \in Threads : InHands(u)' <=> InHands(u)
        BY <3>1 DEF InHands
      <3>3. ASSUME NEW u \in Threads, u # t PROVE WaitPlace(u)'
        BY <1>0, <1>h, <3>1, <3>2, <3>3 DEF WaitPlace, Notifying
      <3>4. WaitPlace(t)'
        BY <1>0, <1>h, <3>1, <3>2, <3>f DEF WaitPlace, Notifying
      <3> QED BY <3>1, <3>3, <3>4 DEF WaitInv
    <2>15. CASE WaitSleep(t)
      <3>1. /\ UNCHANGED <<waitSet, target>>
            /\ \A u \in Threads : u # t =>
                 /\ pc'[u] = pc[u] /\ held'[u] = held[u] /\ interrupted'[u] = interrupted[u]
                 /\ signaled'[u] = signaled[u] /\ waitMonitor'[u] = waitMonitor[u]
        BY <1>0, <2>15 DEF WaitSleep
      <3>2. \A u \in Threads : InHands(u)' <=> InHands(u)
        BY <3>1 DEF InHands
      <3>3. ASSUME NEW u \in Threads, u # t PROVE WaitPlace(u)'
        BY <1>0, <1>h, <3>1, <3>2, <3>3 DEF WaitPlace, Notifying
      <3>4. WaitPlace(t)'
        BY <1>0, <1>h, <3>1, <3>2, <2>15 DEF WaitSleep, WaitPlace, Notifying
      <3> QED BY <3>1, <3>3, <3>4 DEF WaitInv
    <2>16. CASE Wake(t)
      <3>1. /\ UNCHANGED <<waitSet, target>>
            /\ \A u \in Threads : u # t =>
                 /\ pc'[u] = pc[u] /\ held'[u] = held[u] /\ interrupted'[u] = interrupted[u]
                 /\ signaled'[u] = signaled[u] /\ waitMonitor'[u] = waitMonitor[u]
        BY <1>0, <2>16 DEF Wake, WakeUp
      <3>2. \A u \in Threads : InHands(u)' <=> InHands(u)
        BY <3>1 DEF InHands
      <3>3. ASSUME NEW u \in Threads, u # t PROVE WaitPlace(u)'
        BY <1>0, <1>h, <3>1, <3>2, <3>3 DEF WaitPlace, Notifying
      <3>4. WaitPlace(t)'
        BY <1>0, <1>h, <3>1, <3>2, <2>16 DEF Wake, WakeUp, WaitPlace, Notifying
      <3> QED BY <3>1, <3>3, <3>4 DEF WaitInv
    <2>17. CASE WaitDone(t)
      <3>1. /\ UNCHANGED <<target, signaled, waitMonitor, interrupted, held>>
            /\ \A u \in Threads : u # t => pc'[u] = pc[u]
            /\ pc'[t] = "back"
        BY <1>0, <2>17 DEF WaitDone, WaitSetRemove, Goto
      <3>2. /\ IsInjective(waitSet')
            /\ \A u \in Threads : Contains(waitSet', u) <=> (u # t /\ Contains(waitSet, u))
        BY <2>17, <1>0, UnlinkSet DEF WaitDone, WaitSetRemove
      <3>3. ASSUME NEW u \in Threads, u # t PROVE WaitPlace(u)'
        BY <1>0, <1>h, <3>1, <3>2, <3>3 DEF WaitPlace, Notifying, InHands
      <3>4. WaitPlace(t)'
        BY <1>0, <1>h, <3>1, <3>2, <2>17 DEF WaitDone, WaitSetRemove, WaitPlace, Notifying, InHands
      <3> QED BY <3>2, <3>3, <3>4 DEF WaitInv
    <2>18. CASE WaitBack(t)
      <3>1. /\ UNCHANGED <<waitSet, target, signaled, waitMonitor>>
            /\ \A u \in Threads : u # t =>
                 pc'[u] = pc[u] /\ held'[u] = held[u] /\ interrupted'[u] = interrupted[u]
        BY <1>0, <2>18 DEF WaitBack
      <3>2. \/ pc[t] \notin Waiting \cup Notifying /\ pc'[t] \notin Waiting \cup Notifying
            \/ pc[t] \in Leaving /\ pc'[t] \in Leaving
        BY <1>0, <2>18 DEF WaitBack, Waiting, Leaving, Notifying
      <3> QED BY <1>0, <3>1, <3>2, QuietStep
    <2>19. CASE NotifySignal(t)
      <3> DEFINE last == waitSet = <<>> \/ (pc[t] = "notify" /\ waitMonitor[target[t]])
      <3>1. /\ pc[t] \in Notifying /\ UNCHANGED <<waitMonitor, interrupted, held, word>>
            /\ pc[target[t]] \notin {"release", "sleeping"}
            /\ signaled' = [signaled EXCEPT ![target[t]] = @ \/ waitMonitor[target[t]]]
        BY <2>19 DEF NotifySignal, WaitMutexFree, Notifying, wordVars, intrVars
      <3>2. target[t] \in Threads /\ mutex = t /\ held[t] > 0 /\ word.fat
        BY <1>h, <3>1, NotifierOwns DEF WaitPlace
      <3>3. \A u \in Threads : u # target[t] => signaled'[u] = signaled[u]
        BY <1>0, <3>1, <3>2
      <3>4. waitMonitor[target[t]] \/ signaled[target[t]] => signaled'[target[t]]
        BY <1>0, <3>1, <3>2
      <3>5. \A u \in Threads : pc[u] \notin {"arm", "release"}
        BY <3>1, <3>2 DEF Inv, LockInv, PlaceInv, Notifying
      <3>6. CASE last
        <4>1. /\ pc' = [pc EXCEPT ![t] = "run"]
              /\ target' = [target EXCEPT ![t] = NoThread] /\ UNCHANGED waitSet
          BY <2>19, <3>6 DEF NotifySignal, Goto
        <4>2. \A u \in Threads : InHands(u) => InHands(u)' \/ u = target[t]
          BY <1>0, <4>1 DEF InHands
        <4>3. ASSUME NEW u \in Threads, u # t PROVE WaitPlace(u)'
          BY <1>0, <1>h, <3>1, <3>3, <3>4, <3>5, <4>1, <4>2, <4>3 DEF WaitPlace, Notifying
        <4>4. WaitPlace(t)'
          BY <1>0, <1>h, <3>1, <4>1 DEF WaitPlace, Notifying
        <4> QED BY <4>1, <4>3, <4>4 DEF WaitInv
      <3>7. CASE ~last
        <4>1. /\ waitSet # <<>> /\ waitSet' = Tail(waitSet) /\ UNCHANGED pc
              /\ target' = [target EXCEPT ![t] = Head(waitSet)]
          BY <2>19, <3>7 DEF NotifySignal, PopWaiter
        <4>h. PICK w \in Threads : w = Head(waitSet)
          BY <1>0, <4>1, PopSet
        <4>2. /\ IsInjective(waitSet')
              /\ \A u \in Threads :
                   Contains(waitSet', u) <=> (u # w /\ Contains(waitSet, u))
          BY <1>0, <4>1, <4>h, PopSet
        <4>3. InHands(w)'
          BY <1>0, <3>2, <4>1, <4>h DEF InHands
        <4>4. \A u \in Threads : InHands(u) => InHands(u)' \/ u = target[t]
          BY <1>0, <4>1 DEF InHands
        <4>5. ASSUME NEW u \in Threads PROVE WaitPlace(u)'
          BY <1>0, <1>h, <3>1, <3>2, <3>3, <3>4, <3>5, <4>1, <4>2, <4>3, <4>4 DEF WaitPlace, Notifying
        <4> QED BY <4>2, <4>5 DEF WaitInv
      <3> QED BY <3>6, <3>7
    <2>20. CASE QueryClear(t)
      <3>1. /\ UNCHANGED <<waitSet, target, signaled, waitMonitor>>
            /\ \A u \in Threads : u # t =>
                 pc'[u] = pc[u] /\ held'[u] = held[u] /\ interrupted'[u] = interrupted[u]
        BY <1>0, <2>20 DEF QueryClear
      <3>2. \/ pc[t] \notin Waiting \cup Notifying /\ pc'[t] \notin Waiting \cup Notifying
            \/ pc[t] \in Leaving /\ pc'[t] \in Leaving
        BY <1>0, <2>20 DEF QueryClear, Waiting, Leaving, Notifying
      <3> QED BY <1>0, <3>1, <3>2, QuietStep
    <2> QED BY <1>2, <2>1, <2>2, <2>3, <2>4, <2>5, <2>6, <2>7, <2>8, <2>9, <2>10, <2>11, <2>12, <2>13, <2>14, <2>15, <2>16, <2>17, <2>18, <2>19, <2>20 DEF Proceed
  <1>3. ASSUME NEW t \in Threads, CallLock(t) PROVE WaitInv'
    <2>1. /\ UNCHANGED <<waitSet, target, signaled, waitMonitor>>
          /\ \A u \in Threads : u # t =>
               pc'[u] = pc[u] /\ held'[u] = held[u] /\ interrupted'[u] = interrupted[u]
      BY <1>0, <1>3 DEF CallLock
    <2>2. \/ pc[t] \notin Waiting \cup Notifying /\ pc'[t] \notin Waiting \cup Notifying
          \/ pc[t] \in Leaving /\ pc'[t] \in Leaving
      BY <1>0, <1>3 DEF CallLock, Waiting, Leaving, Notifying
    <2> QED BY <1>0, <2>1, <2>2, QuietStep
  <1>4. ASSUME NEW t \in Threads, UnlockThin(t) PROVE WaitInv'
    <2>1. /\ UNCHANGED <<waitSet, target, signaled, waitMonitor>>
          /\ \A u \in Threads : u # t =>
               pc'[u] = pc[u] /\ held'[u] = held[u] /\ interrupted'[u] = interrupted[u]
      BY <1>0, <1>4 DEF UnlockThin, ThinOwned
    <2>2. \/ pc[t] \notin Waiting \cup Notifying /\ pc'[t] \notin Waiting \cup Notifying
          \/ pc[t] \in Leaving /\ pc'[t] \in Leaving
      BY <1>0, <1>4 DEF UnlockThin, ThinOwned, Waiting, Leaving, Notifying
    <2> QED BY <1>0, <2>1, <2>2, QuietStep
  <1>5. ASSUME NEW t \in Threads, UnlockFat(t) PROVE WaitInv'
    <2>1. /\ UNCHANGED <<waitSet, target, signaled, waitMonitor>>
          /\ \A u \in Threads : u # t =>
               pc'[u] = pc[u] /\ held'[u] = held[u] /\ interrupted'[u] = interrupted[u]
      BY <1>0, <1>5 DEF UnlockFat, FatOwned
    <2>2. \/ pc[t] \notin Waiting \cup Notifying /\ pc'[t] \notin Waiting \cup Notifying
          \/ pc[t] \in Leaving /\ pc'[t] \in Leaving
      BY <1>0, <1>5 DEF UnlockFat, FatOwned, Waiting, Leaving, Notifying
    <2> QED BY <1>0, <2>1, <2>2, QuietStep
  <1>6. ASSUME NEW t \in Threads, NEW m \in Modes, WaitStart(t, m) PROVE WaitInv'
    <2>1. /\ UNCHANGED <<target, signaled, waitMonitor, interrupted, held>>
          /\ \A u \in Threads : u # t => pc'[u] = pc[u]
          /\ pc[t] = "run" /\ pc'[t] = "arm"
      BY <1>0, <1>6 DEF WaitStart, Goto
    <2>2. ~Contains(waitSet, t) /\ target[t] = NoThread
      BY <1>h, <2>1 DEF WaitPlace, Notifying
    <2>3. /\ IsInjective(waitSet')
          /\ \A u \in Threads : Contains(waitSet', u) <=> (u = t \/ Contains(waitSet, u))
      BY <1>6, <1>0, <2>2, JoinSet DEF WaitStart
    <2>4. ASSUME NEW u \in Threads, u # t PROVE WaitPlace(u)'
      BY <1>0, <1>h, <2>1, <2>3, <2>4 DEF WaitPlace, Notifying, InHands
    <2>5. WaitPlace(t)'
      BY <1>0, <1>h, <2>1, <2>2, <2>3 DEF WaitPlace, Notifying, InHands
    <2> QED BY <2>3, <2>4, <2>5 DEF WaitInv
  <1>7. ASSUME NEW t \in Threads, WakeEarly(t) PROVE WaitInv'
    <2>1. /\ UNCHANGED <<waitSet, target>>
          /\ \A u \in Threads : u # t =>
               /\ pc'[u] = pc[u] /\ held'[u] = held[u] /\ interrupted'[u] = interrupted[u]
               /\ signaled'[u] = signaled[u] /\ waitMonitor'[u] = waitMonitor[u]
      BY <1>0, <1>7 DEF WakeEarly, WakeUp
    <2>2. \A u \in Threads : InHands(u)' <=> InHands(u)
      BY <2>1 DEF InHands
    <2>3. ASSUME NEW u \in Threads, u # t PROVE WaitPlace(u)'
      BY <1>0, <1>h, <2>1, <2>2, <2>3 DEF WaitPlace, Notifying
    <2>4. WaitPlace(t)'
      BY <1>0, <1>h, <2>1, <2>2, <1>7 DEF WakeEarly, WakeUp, WaitPlace, Notifying
    <2> QED BY <2>1, <2>3, <2>4 DEF WaitInv
  <1>8. ASSUME NEW t \in Threads, NEW label \in {"notify", "notifyAll"}, Notify(t, label) PROVE WaitInv'
    <2>1. /\ UNCHANGED <<signaled, waitMonitor, interrupted, held, word>>
          /\ \A u \in Threads : u # t => pc'[u] = pc[u] /\ target'[u] = target[u]
          /\ pc[t] = "run" /\ pc'[t] \in Notifying /\ target'[t] = Head(waitSet)
          /\ waitSet # <<>> /\ waitSet' = Tail(waitSet) /\ word.fat /\ owner = t
      BY <1>0, <1>8 DEF Notify, PopWaiter, Goto, FatOwned, Notifying, waitVars, intrVars, wordVars
    <2>h. PICK w \in Threads : w = Head(waitSet)
      BY <1>0, <2>1, PopSet
    <2>2. /\ IsInjective(waitSet')
          /\ \A u \in Threads : Contains(waitSet', u) <=> (u # w /\ Contains(waitSet, u))
      BY <1>0, <2>1, <2>h, PopSet
    <2>3. mutex = t /\ held[t] > 0
      BY <2>1, MonitorAssumption DEF Inv, LockInv, WordInv, HoldInv
    <2>4. \A u \in Threads : pc[u] \notin {"arm", "release"} \/ u = t
      BY <2>3 DEF Inv, LockInv, PlaceInv
    <2>e. target[t] = NoThread /\ NoThread \notin Threads /\ target'[t] = w
      BY <1>h, <2>h, <2>1, MonitorAssumption DEF WaitPlace, Notifying
    <2>5. \A u \in Threads : InHands(u)' <=> (u = w \/ InHands(u))
      BY <2>1, <2>e DEF InHands
    <2>6. ASSUME NEW u \in Threads, u # t PROVE WaitPlace(u)'
      BY <1>0, <1>h, <2>h, <2>1, <2>2, <2>4, <2>5, <2>6 DEF WaitPlace, Notifying
    <2>7. WaitPlace(t)'
      BY <1>0, <1>h, <2>h, <2>1, <2>2, <2>3, <2>5, MonitorAssumption DEF WaitPlace, Notifying
    <2> QED BY <2>2, <2>6, <2>7 DEF WaitInv
  <1>9. ASSUME NEW t \in Threads, NEW u \in Waiters, Interrupt(t, u) PROVE WaitInv'
    <2>1. /\ UNCHANGED <<waitSet, target, waitMonitor, held, word, pc>>
          /\ pc[u] \notin {"release", "sleeping"} /\ u \in Threads
          /\ interrupted' = [interrupted EXCEPT ![u] = TRUE]
          /\ signaled' = [signaled EXCEPT ![u] = @ \/ waitMonitor[u]]
      BY <1>9, MonitorAssumption DEF Interrupt, WaitMutexFree, wordVars
    <2>2. /\ \A v \in Threads : v # u => signaled'[v] = signaled[v] /\ interrupted'[v] = interrupted[v]
          /\ signaled[u] \/ waitMonitor[u] => signaled'[u]
      BY <1>0, <2>1
    <2>3. \A v \in Threads : InHands(v)' <=> InHands(v)
      BY <2>1 DEF InHands
    <2>4. ASSUME NEW v \in Threads PROVE WaitPlace(v)'
      BY <1>0, <1>h, <2>1, <2>2, <2>3 DEF WaitPlace, Notifying
    <2> QED BY <2>1, <2>4 DEF WaitInv
  <1>10. ASSUME NEW t \in Threads, QueryInterrupted(t) PROVE WaitInv'
    <2>1. /\ UNCHANGED <<waitSet, target, signaled, waitMonitor>>
          /\ \A u \in Threads : u # t =>
               pc'[u] = pc[u] /\ held'[u] = held[u] /\ interrupted'[u] = interrupted[u]
      BY <1>0, <1>10 DEF QueryInterrupted
    <2>2. \/ pc[t] \notin Waiting \cup Notifying /\ pc'[t] \notin Waiting \cup Notifying
          \/ pc[t] \in Leaving /\ pc'[t] \in Leaving
      BY <1>0, <1>10 DEF QueryInterrupted, Waiting, Leaving, Notifying
    <2> QED BY <1>0, <2>1, <2>2, QuietStep
  <1> QED BY <1>1, <1>2, <1>3, <1>4, <1>5, <1>6, <1>7, <1>8, <1>9, <1>10 DEF Next

(* Every reachable state has its places of waits.                          *)
LEMMA WaitAlways == Spec => []WaitInv
  <1>1. Init => WaitInv
    <2> SUFFICES ASSUME Init PROVE WaitInv
      OBVIOUS
    <2>1. TypeOK
      BY MonitorAssumption DEF Init, TypeOK, Labels, Unowned, Thin
    <2>2. IsInjective(waitSet) /\ \A t \in Threads : WaitPlace(t)
      BY MonitorAssumption DEF Init, IsInjective, WaitPlace, Notifying, Contains, InHands
    <2> QED BY <2>1, <2>2 DEF WaitInv
  <1>2. Inv /\ Inv' /\ WaitInv /\ [Next]_vars => WaitInv'
    BY TypeNext, WaitNext DEF Inv, WaitInv
  <1> QED BY <1>1, <1>2, InvAlways, PTL DEF Spec

(* Every variable has its type, the count of a nested lock included: no    *)
(* sequence of enters, exits and waits lowers it below zero.               *)
THEOREM TypeSafe == Spec => []TypeOK
  <1>1. WaitInv => TypeOK
    BY DEF WaitInv
  <1> QED BY <1>1, WaitAlways, PTL

(* The wait set names each thread once and only threads inside a wait.     *)
THEOREM NoStaleWaiterSafe == Spec => []NoStaleWaiter
  <1>1. WaitInv => NoStaleWaiter
    <2> SUFFICES ASSUME WaitInv, NEW i \in DOMAIN waitSet
                 PROVE  InWait(waitSet[i])
      BY DEF WaitInv, NoStaleWaiter, ToSet
    <2>1. waitSet[i] \in Threads /\ Contains(waitSet, waitSet[i])
      BY ElementOfSeq, LenProperties DEF WaitInv, TypeOK, Contains
    <2> QED BY <2>1 DEF WaitInv, WaitPlace
  <1> QED BY <1>1, WaitAlways, PTL

(* A thread asleep in a wait can be reached: it is in the wait set, in the *)
(* hands of a notifier or signaled, and signaled if it is interrupted.     *)
THEOREM SleeperSafe == Spec => []SleeperReachable
  <1>1. WaitInv => SleeperReachable
    BY DEF WaitInv, WaitPlace, SleeperReachable, InHands
  <1> QED BY <1>1, WaitAlways, PTL

=============================================================================
