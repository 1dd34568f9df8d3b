-------------------------- MODULE ClassInitProofs --------------------------
(* Proofs about class initialization: for any number of threads and        *)
(* classes and any program over them, <clinit> runs once, every thread is  *)
(* told the same of a class, what is told stays so, a thread that waits    *)
(* for a class has another to wake it, and a <clinit> starts after that of *)
(* the superclass or inside it.                                            *)
EXTENDS ClassInit, TLAPS

Inv == Types /\ InitInv

LEMMA TypesInit == Init => Types
  BY ClassInitAssumption DEF Init, Types, Statuses, Front, Phases, Verdicts

(* Every step keeps the types. *)
LEMMA TypesNext == Types /\ [Next]_vars => Types'
  <1> SUFFICES ASSUME Types, [Next]_vars PROVE Types'
    OBVIOUS
  <1> USE ClassInitAssumption DEF Types, Statuses, Front, Phases, Verdicts,
          codeVars, frontVars, backVars, histVars, Goto, Lock, Unlock,
          SetStatus,
          SetPhase, NotifyAll, Call
  <1>1. CASE UNCHANGED vars
    BY <1>1 DEF vars
  <1>2. ASSUME NEW t \in Threads, NEW c \in Classes, Ask(t, c) PROVE Types'
    BY <1>2 DEF Ask
  <1>3. ASSUME NEW t \in Threads, WakeEarly(t) PROVE Types'
    <2>1. early' \in 0..MaxEarly
      BY <1>3 DEF WakeEarly
    <2>2. waiters' \in [Classes -> SUBSET Threads]
      BY <1>3 DEF WakeEarly
    <2> QED BY <1>3, <2>1, <2>2 DEF WakeEarly
  <1>4. ASSUME NEW t \in Threads, Enter(t) PROVE Types'
    BY <1>4 DEF Enter
  <1>5. ASSUME NEW t \in Threads, Verify(t) PROVE Types'
    <2>1. CASE SetStatus(target[t], "verified") /\ UNCHANGED <<lock, at>>
      BY <1>5, <2>1 DEF Verify
    <2>2. CASE /\ SetStatus(target[t], "error") /\ Unlock(target[t])
               /\ Goto(t, "return")
      BY <1>5, <2>2 DEF Verify
    <2> QED BY <1>5, <2>1, <2>2 DEF Verify
  <1>6. ASSUME NEW t \in Threads, Answer(t) PROVE Types'
    BY <1>6 DEF Answer
  <1>7. ASSUME NEW t \in Threads, Wait(t) PROVE Types'
    BY <1>7 DEF Wait
  <1>8. ASSUME NEW t \in Threads, Relock(t) PROVE Types'
    BY <1>8 DEF Relock
  <1>9. ASSUME NEW t \in Threads, Recheck(t) PROVE Types'
    BY <1>9 DEF Recheck
  <1>10. ASSUME NEW t \in Threads, Claim(t) PROVE Types'
    <2>1. CASE /\ initThreadId' = [initThreadId EXCEPT ![target[t]] = t]
               /\ Goto(t, "publish") /\ UNCHANGED <<status, lock>>
      BY <1>10, <2>1 DEF Claim
    <2>2. CASE /\ SetStatus(target[t], "error") /\ Unlock(target[t])
               /\ Goto(t, "return") /\ UNCHANGED initThreadId
      BY <1>10, <2>2 DEF Claim
    <2> QED BY <1>10, <2>1, <2>2 DEF Claim
  <1>11. ASSUME NEW t \in Threads, Publish(t) PROVE Types'
    BY <1>11 DEF Publish
  <1>12. ASSUME NEW t \in Threads, Return(t) PROVE Types'
    <2>1. ret' \in [Threads -> Verdicts]
      BY <1>12 DEF Return, Verdict, Verdicts
    <2>2. seen' \in [Threads -> [Classes -> Verdicts]]
      <3>1. /\ target[t] \in Classes \cup {NoClass}
            /\ Verdict(target[t]) \in Verdicts
            /\ seen \in [Threads -> [Classes -> Verdicts]]
            /\ seen[t] \in [Classes -> Verdicts]
        BY DEF Verdict
      <3>2. PICK v \in Verdicts \cup {seen[t][target[t]]} :
               seen' = [seen EXCEPT ![t] = [seen[t] EXCEPT ![target[t]] = v]]
        BY <1>12, <3>1 DEF Return
      <3> HIDE DEF Types, Verdicts
      <3>3. ASSUME NEW f \in [Classes -> Verdicts], NEW c,
                   c \in Classes => v \in Verdicts
            PROVE  [f EXCEPT ![c] = v] \in [Classes -> Verdicts]
        BY <3>3
      <3>4. target[t] \in Classes => v \in Verdicts
        BY <3>1, <3>2
      <3>5. [seen[t] EXCEPT ![target[t]] = v] \in [Classes -> Verdicts]
        BY <3>1, <3>3, <3>4
      <3> QED BY <3>1, <3>2, <3>5
    <2> QED BY <1>12, <2>1, <2>2 DEF Return
  <1>13. ASSUME NEW t \in Threads, NEW c \in Classes, InitSuper(t, c) PROVE Types'
    <2>1. CASE StartClinit(t, c) /\ UNCHANGED frontVars
      BY <1>13, <2>1 DEF InitSuper, StartClinit
    <2>2. CASE /\ ~SuperReady(c) /\ SetPhase(t, c, "superDone")
               /\ Call(t, super[c]) /\ UNCHANGED <<todo, clinits>>
      BY <1>13, <2>2 DEF InitSuper, SuperReady
    <2> QED BY <1>13, <2>1, <2>2 DEF InitSuper
  <1>14. ASSUME NEW t \in Threads, NEW c \in Classes, SuperReturned(t, c) PROVE Types'
    <2>1. CASE StartClinit(t, c) /\ UNCHANGED status
      BY <1>14, <2>1 DEF SuperReturned, StartClinit
    <2>2. CASE /\ SetStatus(c, "error") /\ SetPhase(t, c, "failed")
               /\ UNCHANGED <<todo, clinits>>
      BY <1>14, <2>2 DEF SuperReturned
    <2> QED BY <1>14, <2>1, <2>2 DEF SuperReturned
  <1>15. ASSUME NEW t \in Threads, NEW c \in Classes, NEW d \in Classes, Use(t, c, d)
         PROVE Types'
    BY <1>15 DEF Use
  <1>16. ASSUME NEW t \in Threads, NEW c \in Classes, UseReturned(t, c) PROVE Types'
    BY <1>16 DEF UseReturned
  <1>17. ASSUME NEW t \in Threads, NEW c \in Classes, ClinitReturned(t, c) PROVE Types'
    <2>1. CASE SetPhase(t, c, "succeeded")
      BY <1>17, <2>1 DEF ClinitReturned
    <2>2. CASE SetPhase(t, c, "clinitDone")
      BY <1>17, <2>2 DEF ClinitReturned
    <2> QED BY <1>17, <2>1, <2>2 DEF ClinitReturned
  <1>18. ASSUME NEW t \in Threads, NEW c \in Classes, Settle(t, c) PROVE Types'
    BY <1>18 DEF Settle
  <1>19. ASSUME NEW t \in Threads, NEW c \in Classes, Notify(t, c) PROVE Types'
    BY <1>19 DEF Notify, Popped
  <1> QED
    BY <1>1, <1>2, <1>3, <1>4, <1>5, <1>6, <1>7, <1>8, <1>9, <1>10, <1>11,
      <1>12,
       <1>13, <1>14, <1>15, <1>16, <1>17, <1>18, <1>19 DEF Next, Proceed

LEMMA InvInit == Init => Inv
  <1> SUFFICES ASSUME Init PROVE InitInv
    BY TypesInit DEF Inv
  <1> QED BY ClassInitAssumption DEF Init, InitInv, PlaceInv, ClaimInv,
    StatusInv, Claimed

(* A step of t leaves the others where they are, and what they hold or     *)
(* have claimed as it is ...                                               *)
Apart(t) ==
    \A u \in Threads \ {t} :
        /\ at'[u] = at[u] /\ target'[u] = target[u]
        /\ \A e \in Classes :
              /\ phase'[u][e] = phase[u][e]
              /\ lock[e] = u => lock'[e] = u
              /\ (lock[e] = u /\ status[e] \in {"resolved", "verified"}) \/ Claimed(u, e)
                    => /\ status'[e] = status[e]
                       /\ initThreadId'[e] = initThreadId[e]
                       /\ clinits'[e] = clinits[e]

(* ... and no class goes back.                                             *)
Forward ==
    \A e \in Classes :
        /\ Settled(e) => status'[e] = status[e]
        /\ status[e] = "initializing" => status'[e] \notin {"resolved", "verified"}

LEMMA OthersKeep ==
    ASSUME Inv, Types', NEW t \in Threads, Apart(t), Forward, NEW u \in Threads, u # t
    PROVE  PlaceInv(u)' /\ \A e \in Classes : ClaimInv(u, e)'
  <1>1. /\ at'[u] = at[u] /\ target'[u] = target[u]
        /\ \A e \in Classes :
              /\ phase'[u][e] = phase[u][e]
              /\ lock[e] = u => lock'[e] = u
              /\ (lock[e] = u /\ status[e] \in {"resolved", "verified"}) \/ Claimed(u, e)
                    => /\ status'[e] = status[e]
                       /\ initThreadId'[e] = initThreadId[e]
                       /\ clinits'[e] = clinits[e]
    BY DEF Apart
  <1>2. PlaceInv(u) /\ \A e \in Classes : ClaimInv(u, e)
    BY DEF Inv, InitInv
  <1>3. status \in [Classes -> Statuses] /\ status' \in [Classes -> Statuses]
    BY DEF Inv, Types
  <1>4. PlaceInv(u)'
    BY <1>1, <1>2, <1>3 DEF PlaceInv, Forward, Settled, Claimed, Statuses
  <1>5. \A e \in Classes : ClaimInv(u, e)'
    BY <1>1, <1>2, <1>3 DEF ClaimInv, Settled, Claimed
  <1> QED BY <1>4, <1>5

(* Every step keeps the invariant, and no class goes back. *)
LEMMA InvNext == Inv /\ [Next]_vars => Inv' /\ Forward
  <1> SUFFICES ASSUME Inv, [Next]_vars PROVE InitInv' /\ Forward
    BY TypesNext DEF Inv
  <1>0. /\ Types /\ Types' /\ InitInv
        /\ NoThread \notin Threads /\ NoClass \notin Classes
    BY TypesNext, ClassInitAssumption DEF Inv
  <1>b. \A u \in Threads, e \in Classes :
            Claimed(u, e) => status[e] \notin {"resolved", "verified"}
    <2> SUFFICES ASSUME NEW u \in Threads, NEW e \in Classes, Claimed(u, e)
                 PROVE  status[e] \notin {"resolved", "verified"}
      OBVIOUS
    <2>1. ClaimInv(u, e) /\ phase[u][e] \in Phases
      BY <1>0 DEF InitInv, Types
    <2> QED BY <2>1 DEF ClaimInv, Claimed, Settled, Phases
  <1>a. ASSUME NEW t \in Threads, Apart(t), Forward, PlaceInv(t)',
               \A e \in Classes : ClaimInv(t, e)' /\ StatusInv(e)'
        PROVE  InitInv' /\ Forward
    BY <1>0, <1>a, OthersKeep DEF InitInv
  <1>1. CASE UNCHANGED vars
    BY <1>0, <1>1 DEF Forward, vars, codeVars, frontVars, backVars, histVars,
      InitInv, PlaceInv,
       ClaimInv, StatusInv, Settled, Claimed
  <1>2. ASSUME NEW t \in Threads, WakeEarly(t) PROVE InitInv' /\ Forward
    <2>1. /\ \A u \in Threads \ {t} : at'[u] = at[u] /\ target'[u] = target[u]
          /\ UNCHANGED status
          /\ UNCHANGED lock
          /\ UNCHANGED initThreadId
          /\ UNCHANGED clinits
          /\ UNCHANGED phase
          /\ PlaceInv(t)
              /\ target[t] \in Classes /\ StatusInv(target[t]) /\ ClaimInv(t, target[t])
      BY <1>0, <1>2 DEF WakeEarly, InitInv, PlaceInv, Types,
         Goto, Lock, Unlock, SetStatus, SetPhase, NotifyAll, Call, codeVars,
         frontVars, backVars, histVars
    <2>2. Apart(t)
      BY <1>0, <1>b, <1>2, <2>1 DEF Apart, WakeEarly, InitInv, PlaceInv,
        ClaimInv, Claimed, Types,
         Settled, Goto, Lock, Unlock, SetStatus, SetPhase, NotifyAll, Call,
         codeVars, frontVars, backVars, histVars
    <2>3. Forward
      BY <1>0, <1>2, <2>1 DEF Forward, WakeEarly, ClaimInv, Claimed, Types,
        Settled,
         PlaceInv, Goto, Lock, Unlock, SetStatus, SetPhase, NotifyAll, Call,
         codeVars, frontVars, backVars, histVars
    <2>4. PlaceInv(t)'
      BY <1>0, <1>2, <2>1 DEF WakeEarly, PlaceInv, ClaimInv, StatusInv,
        Claimed, Settled,
         BeingInitialized, Types, Statuses, Goto, Lock, Unlock, SetStatus,
         SetPhase, NotifyAll, Call, codeVars, frontVars, backVars, histVars
    <2>5. ASSUME NEW e \in Classes PROVE ClaimInv(t, e)'
      BY <1>0, <1>2, <2>1 DEF WakeEarly, InitInv, ClaimInv, StatusInv, Claimed,
        Settled,
         PlaceInv, Types, Goto, Lock, Unlock, SetStatus, SetPhase, NotifyAll,
         Call, codeVars, frontVars, backVars, histVars
    <2>6. ASSUME NEW e \in Classes PROVE StatusInv(e)'
      BY <1>0, <1>2, <2>1 DEF WakeEarly, InitInv, ClaimInv, StatusInv, Claimed,
        Settled,
         PlaceInv, Types, Goto, Lock, Unlock, SetStatus, SetPhase, NotifyAll,
         Call, codeVars, frontVars, backVars, histVars
    <2> QED BY <1>a, <2>2, <2>3, <2>4, <2>5, <2>6
  <1>3. ASSUME NEW t \in Threads, Enter(t) PROVE InitInv' /\ Forward
    <2>1. /\ \A u \in Threads \ {t} : at'[u] = at[u] /\ target'[u] = target[u]
          /\ UNCHANGED status
          /\ \A e \in Classes \ {target[t]} : lock'[e] = lock[e]
          /\ UNCHANGED initThreadId
          /\ UNCHANGED clinits
          /\ UNCHANGED phase
          /\ PlaceInv(t)
              /\ target[t] \in Classes /\ StatusInv(target[t]) /\ ClaimInv(t, target[t])
      BY <1>0, <1>3 DEF Enter, InitInv, PlaceInv, Types,
         Goto, Lock, Unlock, SetStatus, SetPhase, NotifyAll, Call, codeVars,
         frontVars, backVars, histVars
    <2>2. Apart(t)
      BY <1>0, <1>b, <1>3, <2>1 DEF Apart, Enter, InitInv, PlaceInv, ClaimInv,
        Claimed, Types,
         Settled, Goto, Lock, Unlock, SetStatus, SetPhase, NotifyAll, Call,
         codeVars, frontVars, backVars, histVars
    <2>3. Forward
      BY <1>0, <1>3, <2>1 DEF Forward, Enter, ClaimInv, Claimed, Types, Settled,
         PlaceInv, Goto, Lock, Unlock, SetStatus, SetPhase, NotifyAll, Call,
         codeVars, frontVars, backVars, histVars
    <2>4. PlaceInv(t)'
      BY <1>0, <1>3, <2>1 DEF Enter, PlaceInv, ClaimInv, StatusInv, Claimed,
        Settled,
         BeingInitialized, Types, Statuses, Goto, Lock, Unlock, SetStatus,
         SetPhase, NotifyAll, Call, codeVars, frontVars, backVars, histVars
    <2>5. ASSUME NEW e \in Classes PROVE ClaimInv(t, e)'
      BY <1>0, <1>3, <2>1 DEF Enter, InitInv, ClaimInv, StatusInv, Claimed,
        Settled,
         PlaceInv, Types, Goto, Lock, Unlock, SetStatus, SetPhase, NotifyAll,
         Call, codeVars, frontVars, backVars, histVars
    <2>6. ASSUME NEW e \in Classes PROVE StatusInv(e)'
      BY <1>0, <1>3, <2>1 DEF Enter, InitInv, ClaimInv, StatusInv, Claimed,
        Settled,
         PlaceInv, Types, Goto, Lock, Unlock, SetStatus, SetPhase, NotifyAll,
         Call, codeVars, frontVars, backVars, histVars
    <2> QED BY <1>a, <2>2, <2>3, <2>4, <2>5, <2>6
  <1>4. ASSUME NEW t \in Threads, Verify(t) PROVE InitInv' /\ Forward
    <2>1. CASE SetStatus(target[t], "verified") /\ UNCHANGED <<lock, at>>
      <3>1. /\ \A u \in Threads \ {t} : at'[u] = at[u] /\ target'[u] = target[u]
            /\ \A e \in Classes \ {target[t]} : status'[e] = status[e]
            /\ \A e \in Classes \ {target[t]} : lock'[e] = lock[e]
            /\ UNCHANGED initThreadId
            /\ UNCHANGED clinits
            /\ UNCHANGED phase
            /\ PlaceInv(t)
                /\ target[t] \in Classes /\ StatusInv(target[t]) /\ ClaimInv(t, target[t])
        BY <1>0, <1>4, <2>1 DEF Verify, InitInv, PlaceInv, Types,
           Goto, Lock, Unlock, SetStatus, SetPhase, NotifyAll, Call, codeVars,
           frontVars, backVars, histVars
      <3>2. Apart(t)
        BY <1>0, <1>b, <1>4, <2>1, <3>1 DEF Apart, Verify, InitInv, PlaceInv,
          ClaimInv, Claimed, Types,
           Settled, Goto, Lock, Unlock, SetStatus, SetPhase, NotifyAll, Call,
           codeVars, frontVars, backVars, histVars
      <3>3. Forward
        BY <1>0, <1>4, <2>1, <3>1 DEF Forward, Verify, ClaimInv, Claimed,
          Types, Settled,
           PlaceInv, Goto, Lock, Unlock, SetStatus, SetPhase, NotifyAll, Call,
           codeVars, frontVars, backVars, histVars
      <3>4. PlaceInv(t)'
        BY <1>0, <1>4, <2>1, <3>1 DEF Verify, PlaceInv, ClaimInv, StatusInv,
          Claimed, Settled,
           BeingInitialized, Types, Statuses, Goto, Lock, Unlock, SetStatus,
           SetPhase, NotifyAll, Call, codeVars, frontVars, backVars, histVars
      <3>5. ASSUME NEW e \in Classes PROVE ClaimInv(t, e)'
        BY <1>0, <1>4, <2>1, <3>1 DEF Verify, InitInv, ClaimInv, StatusInv,
          Claimed, Settled,
           PlaceInv, Types, Goto, Lock, Unlock, SetStatus, SetPhase, NotifyAll,
           Call, codeVars, frontVars, backVars, histVars
      <3>6. ASSUME NEW e \in Classes PROVE StatusInv(e)'
        BY <1>0, <1>4, <2>1, <3>1 DEF Verify, InitInv, ClaimInv, StatusInv,
          Claimed, Settled,
           PlaceInv, Types, Goto, Lock, Unlock, SetStatus, SetPhase, NotifyAll,
           Call, codeVars, frontVars, backVars, histVars
      <3> QED BY <1>a, <3>2, <3>3, <3>4, <3>5, <3>6
    <2>2. CASE SetStatus(target[t], "error") /\ Unlock(target[t]) /\ Goto(t, "return")
      <3>1. /\ \A u \in Threads \ {t} : at'[u] = at[u] /\ target'[u] = target[u]
            /\ \A e \in Classes \ {target[t]} : status'[e] = status[e]
            /\ \A e \in Classes \ {target[t]} : lock'[e] = lock[e]
            /\ UNCHANGED initThreadId
            /\ UNCHANGED clinits
            /\ UNCHANGED phase
            /\ PlaceInv(t)
                /\ target[t] \in Classes /\ StatusInv(target[t]) /\ ClaimInv(t, target[t])
        BY <1>0, <1>4, <2>2 DEF Verify, InitInv, PlaceInv, Types,
           Goto, Lock, Unlock, SetStatus, SetPhase, NotifyAll, Call, codeVars,
           frontVars, backVars, histVars
      <3>2. Apart(t)
        BY <1>0, <1>b, <1>4, <2>2, <3>1 DEF Apart, Verify, InitInv, PlaceInv,
          ClaimInv, Claimed, Types,
           Settled, Goto, Lock, Unlock, SetStatus, SetPhase, NotifyAll, Call,
           codeVars, frontVars, backVars, histVars
      <3>3. Forward
        BY <1>0, <1>4, <2>2, <3>1 DEF Forward, Verify, ClaimInv, Claimed,
          Types, Settled,
           PlaceInv, Goto, Lock, Unlock, SetStatus, SetPhase, NotifyAll, Call,
           codeVars, frontVars, backVars, histVars
      <3>4. PlaceInv(t)'
        BY <1>0, <1>4, <2>2, <3>1 DEF Verify, PlaceInv, ClaimInv, StatusInv,
          Claimed, Settled,
           BeingInitialized, Types, Statuses, Goto, Lock, Unlock, SetStatus,
           SetPhase, NotifyAll, Call, codeVars, frontVars, backVars, histVars
      <3>5. ASSUME NEW e \in Classes PROVE ClaimInv(t, e)'
        BY <1>0, <1>4, <2>2, <3>1 DEF Verify, InitInv, ClaimInv, StatusInv,
          Claimed, Settled,
           PlaceInv, Types, Goto, Lock, Unlock, SetStatus, SetPhase, NotifyAll,
           Call, codeVars, frontVars, backVars, histVars
      <3>6. ASSUME NEW e \in Classes PROVE StatusInv(e)'
        BY <1>0, <1>4, <2>2, <3>1 DEF Verify, InitInv, ClaimInv, StatusInv,
          Claimed, Settled,
           PlaceInv, Types, Goto, Lock, Unlock, SetStatus, SetPhase, NotifyAll,
           Call, codeVars, frontVars, backVars, histVars
      <3> QED BY <1>a, <3>2, <3>3, <3>4, <3>5, <3>6
    <2> QED BY <1>4, <2>1, <2>2 DEF Verify
  <1>5. ASSUME NEW t \in Threads, Answer(t) PROVE InitInv' /\ Forward
    <2>1. /\ \A u \in Threads \ {t} : at'[u] = at[u] /\ target'[u] = target[u]
          /\ UNCHANGED status
          /\ \A e \in Classes \ {target[t]} : lock'[e] = lock[e]
          /\ UNCHANGED initThreadId
          /\ UNCHANGED clinits
          /\ UNCHANGED phase
          /\ PlaceInv(t)
              /\ target[t] \in Classes /\ StatusInv(target[t]) /\ ClaimInv(t, target[t])
      BY <1>0, <1>5 DEF Answer, InitInv, PlaceInv, Types,
         Goto, Lock, Unlock, SetStatus, SetPhase, NotifyAll, Call, codeVars,
         frontVars, backVars, histVars
    <2>2. Apart(t)
      BY <1>0, <1>b, <1>5, <2>1 DEF Apart, Answer, InitInv, PlaceInv, ClaimInv,
        Claimed, Types,
         Settled, Goto, Lock, Unlock, SetStatus, SetPhase, NotifyAll, Call,
         codeVars, frontVars, backVars, histVars
    <2>3. Forward
      BY <1>0, <1>5, <2>1 DEF Forward, Answer, ClaimInv, Claimed, Types,
        Settled,
         PlaceInv, Goto, Lock, Unlock, SetStatus, SetPhase, NotifyAll, Call,
         codeVars, frontVars, backVars, histVars
    <2>4. PlaceInv(t)'
      BY <1>0, <1>5, <2>1 DEF Answer, PlaceInv, ClaimInv, StatusInv, Claimed,
        Settled,
         BeingInitialized, Types, Statuses, Goto, Lock, Unlock, SetStatus,
         SetPhase, NotifyAll, Call, codeVars, frontVars, backVars, histVars
    <2>5. ASSUME NEW e \in Classes PROVE ClaimInv(t, e)'
      BY <1>0, <1>5, <2>1 DEF Answer, InitInv, ClaimInv, StatusInv, Claimed,
        Settled,
         PlaceInv, Types, Goto, Lock, Unlock, SetStatus, SetPhase, NotifyAll,
         Call, codeVars, frontVars, backVars, histVars
    <2>6. ASSUME NEW e \in Classes PROVE StatusInv(e)'
      BY <1>0, <1>5, <2>1 DEF Answer, InitInv, ClaimInv, StatusInv, Claimed,
        Settled,
         PlaceInv, Types, Goto, Lock, Unlock, SetStatus, SetPhase, NotifyAll,
         Call, codeVars, frontVars, backVars, histVars
    <2> QED BY <1>a, <2>2, <2>3, <2>4, <2>5, <2>6
  <1>6. ASSUME NEW t \in Threads, Wait(t) PROVE InitInv' /\ Forward
    <2>1. /\ \A u \in Threads \ {t} : at'[u] = at[u] /\ target'[u] = target[u]
          /\ UNCHANGED status
          /\ \A e \in Classes \ {target[t]} : lock'[e] = lock[e]
          /\ UNCHANGED initThreadId
          /\ UNCHANGED clinits
          /\ UNCHANGED phase
          /\ PlaceInv(t)
              /\ target[t] \in Classes /\ StatusInv(target[t]) /\ ClaimInv(t, target[t])
      BY <1>0, <1>6 DEF Wait, InitInv, PlaceInv, Types,
         Goto, Lock, Unlock, SetStatus, SetPhase, NotifyAll, Call, codeVars,
         frontVars, backVars, histVars
    <2>2. Apart(t)
      BY <1>0, <1>b, <1>6, <2>1 DEF Apart, Wait, InitInv, PlaceInv, ClaimInv,
        Claimed, Types,
         Settled, Goto, Lock, Unlock, SetStatus, SetPhase, NotifyAll, Call,
         codeVars, frontVars, backVars, histVars
    <2>3. Forward
      BY <1>0, <1>6, <2>1 DEF Forward, Wait, ClaimInv, Claimed, Types, Settled,
         PlaceInv, Goto, Lock, Unlock, SetStatus, SetPhase, NotifyAll, Call,
         codeVars, frontVars, backVars, histVars
    <2>4. PlaceInv(t)'
      BY <1>0, <1>6, <2>1 DEF Wait, PlaceInv, ClaimInv, StatusInv, Claimed,
        Settled,
         BeingInitialized, Types, Statuses, Goto, Lock, Unlock, SetStatus,
         SetPhase, NotifyAll, Call, codeVars, frontVars, backVars, histVars
    <2>5. ASSUME NEW e \in Classes PROVE ClaimInv(t, e)'
      BY <1>0, <1>6, <2>1 DEF Wait, InitInv, ClaimInv, StatusInv, Claimed,
        Settled,
         PlaceInv, Types, Goto, Lock, Unlock, SetStatus, SetPhase, NotifyAll,
         Call, codeVars, frontVars, backVars, histVars
    <2>6. ASSUME NEW e \in Classes PROVE StatusInv(e)'
      BY <1>0, <1>6, <2>1 DEF Wait, InitInv, ClaimInv, StatusInv, Claimed,
        Settled,
         PlaceInv, Types, Goto, Lock, Unlock, SetStatus, SetPhase, NotifyAll,
         Call, codeVars, frontVars, backVars, histVars
    <2> QED BY <1>a, <2>2, <2>3, <2>4, <2>5, <2>6
  <1>7. ASSUME NEW t \in Threads, Relock(t) PROVE InitInv' /\ Forward
    <2>1. /\ \A u \in Threads \ {t} : at'[u] = at[u] /\ target'[u] = target[u]
          /\ UNCHANGED status
          /\ \A e \in Classes \ {target[t]} : lock'[e] = lock[e]
          /\ UNCHANGED initThreadId
          /\ UNCHANGED clinits
          /\ UNCHANGED phase
          /\ PlaceInv(t)
              /\ target[t] \in Classes /\ StatusInv(target[t]) /\ ClaimInv(t, target[t])
      BY <1>0, <1>7 DEF Relock, InitInv, PlaceInv, Types,
         Goto, Lock, Unlock, SetStatus, SetPhase, NotifyAll, Call, codeVars,
         frontVars, backVars, histVars
    <2>2. Apart(t)
      BY <1>0, <1>b, <1>7, <2>1 DEF Apart, Relock, InitInv, PlaceInv, ClaimInv,
        Claimed, Types,
         Settled, Goto, Lock, Unlock, SetStatus, SetPhase, NotifyAll, Call,
         codeVars, frontVars, backVars, histVars
    <2>3. Forward
      BY <1>0, <1>7, <2>1 DEF Forward, Relock, ClaimInv, Claimed, Types,
        Settled,
         PlaceInv, Goto, Lock, Unlock, SetStatus, SetPhase, NotifyAll, Call,
         codeVars, frontVars, backVars, histVars
    <2>4. PlaceInv(t)'
      BY <1>0, <1>7, <2>1 DEF Relock, PlaceInv, ClaimInv, StatusInv, Claimed,
        Settled,
         BeingInitialized, Types, Statuses, Goto, Lock, Unlock, SetStatus,
         SetPhase, NotifyAll, Call, codeVars, frontVars, backVars, histVars
    <2>5. ASSUME NEW e \in Classes PROVE ClaimInv(t, e)'
      BY <1>0, <1>7, <2>1 DEF Relock, InitInv, ClaimInv, StatusInv, Claimed,
        Settled,
         PlaceInv, Types, Goto, Lock, Unlock, SetStatus, SetPhase, NotifyAll,
         Call, codeVars, frontVars, backVars, histVars
    <2>6. ASSUME NEW e \in Classes PROVE StatusInv(e)'
      BY <1>0, <1>7, <2>1 DEF Relock, InitInv, ClaimInv, StatusInv, Claimed,
        Settled,
         PlaceInv, Types, Goto, Lock, Unlock, SetStatus, SetPhase, NotifyAll,
         Call, codeVars, frontVars, backVars, histVars
    <2> QED BY <1>a, <2>2, <2>3, <2>4, <2>5, <2>6
  <1>8. ASSUME NEW t \in Threads, Recheck(t) PROVE InitInv' /\ Forward
    <2>1. CASE status[target[t]] = "initializing"
      <3>1. /\ \A u \in Threads \ {t} : at'[u] = at[u] /\ target'[u] = target[u]
            /\ UNCHANGED status
            /\ \A e \in Classes \ {target[t]} : lock'[e] = lock[e]
            /\ UNCHANGED initThreadId
            /\ UNCHANGED clinits
            /\ UNCHANGED phase
            /\ PlaceInv(t)
            /\ target[t] \in Classes /\ StatusInv(target[t]) /\ ClaimInv(t, target[t])
        <4>1. PlaceInv(t) /\ target[t] \in Classes
          BY <1>0, <1>8 DEF Recheck, InitInv, PlaceInv
        <4>2. StatusInv(target[t]) /\ ClaimInv(t, target[t])
          BY <1>0, <4>1 DEF InitInv
        <4>3. /\ \A u \in Threads \ {t} : at'[u] = at[u] /\ target'[u] = target[u]
              /\ UNCHANGED <<status, lock, initThreadId, clinits, phase>>
          BY <1>0, <1>8, <2>1 DEF Recheck, Types, Goto, backVars, histVars
        <4> QED BY <4>1, <4>2, <4>3
      <3>2. Apart(t)
        BY <1>0, <1>b, <1>8, <2>1, <3>1 DEF Apart, Recheck, InitInv, PlaceInv,
          ClaimInv, Claimed, Types,
           Settled, Goto, Lock, Unlock, SetStatus, SetPhase, NotifyAll, Call,
           codeVars, frontVars, backVars, histVars
      <3>3. Forward
        BY <1>0, <1>8, <2>1, <3>1 DEF Forward, Recheck, ClaimInv, Claimed,
          Types, Settled,
           PlaceInv, Goto, Lock, Unlock, SetStatus, SetPhase, NotifyAll, Call,
           codeVars, frontVars, backVars, histVars
      <3>4. PlaceInv(t)'
        BY <1>0, <1>8, <2>1, <3>1 DEF Recheck, PlaceInv, ClaimInv, StatusInv,
          Claimed, Settled,
           BeingInitialized, Types, Statuses, Goto, Lock, Unlock, SetStatus,
           SetPhase, NotifyAll, Call, codeVars, frontVars, backVars, histVars
      <3>5. ASSUME NEW e \in Classes PROVE ClaimInv(t, e)'
        BY <1>0, <1>8, <2>1, <3>1 DEF Recheck, InitInv, ClaimInv, StatusInv,
          Claimed, Settled,
           PlaceInv, Types, Goto, Lock, Unlock, SetStatus, SetPhase, NotifyAll,
           Call, codeVars, frontVars, backVars, histVars
      <3>6. ASSUME NEW e \in Classes PROVE StatusInv(e)'
        BY <1>0, <1>8, <2>1, <3>1 DEF Recheck, InitInv, ClaimInv, StatusInv,
          Claimed, Settled,
           PlaceInv, Types, Goto, Lock, Unlock, SetStatus, SetPhase, NotifyAll,
           Call, codeVars, frontVars, backVars, histVars
      <3> QED BY <1>a, <3>2, <3>3, <3>4, <3>5, <3>6
    <2>2. CASE status[target[t]] # "initializing"
      <3>0. Goto(t, "return") /\ Unlock(target[t])
        BY <1>8, <2>2 DEF Recheck
      <3>1. /\ \A u \in Threads \ {t} : at'[u] = at[u] /\ target'[u] = target[u]
            /\ UNCHANGED status
            /\ \A e \in Classes \ {target[t]} : lock'[e] = lock[e]
            /\ UNCHANGED initThreadId
            /\ UNCHANGED clinits
            /\ UNCHANGED phase
            /\ PlaceInv(t)
                /\ target[t] \in Classes /\ StatusInv(target[t]) /\ ClaimInv(t, target[t])
        BY <1>0, <1>8, <2>2, <3>0 DEF Recheck, InitInv, PlaceInv, Types,
           Goto, Lock, Unlock, SetStatus, SetPhase, NotifyAll, Call, codeVars,
           frontVars, backVars, histVars
      <3>2. Apart(t)
        BY <1>0, <1>b, <1>8, <2>2, <3>1 DEF Apart, Recheck, InitInv, PlaceInv,
          ClaimInv, Claimed, Types,
           Settled, Goto, Lock, Unlock, SetStatus, SetPhase, NotifyAll, Call,
           codeVars, frontVars, backVars, histVars
      <3>3. Forward
        BY <1>0, <1>8, <2>2, <3>1 DEF Forward, Recheck, ClaimInv, Claimed,
          Types, Settled,
           PlaceInv, Goto, Lock, Unlock, SetStatus, SetPhase, NotifyAll, Call,
           codeVars, frontVars, backVars, histVars
      <3>4. PlaceInv(t)'
        BY <1>0, <1>8, <2>2, <3>1 DEF Recheck, PlaceInv, ClaimInv, StatusInv,
          Claimed, Settled,
           BeingInitialized, Types, Statuses, Goto, Lock, Unlock, SetStatus,
           SetPhase, NotifyAll, Call, codeVars, frontVars, backVars, histVars
      <3>5. ASSUME NEW e \in Classes PROVE ClaimInv(t, e)'
        BY <1>0, <1>8, <2>2, <3>1 DEF Recheck, InitInv, ClaimInv, StatusInv,
          Claimed, Settled,
           PlaceInv, Types, Goto, Lock, Unlock, SetStatus, SetPhase, NotifyAll,
           Call, codeVars, frontVars, backVars, histVars
      <3>6. ASSUME NEW e \in Classes PROVE StatusInv(e)'
        BY <1>0, <1>8, <2>2, <3>1 DEF Recheck, InitInv, ClaimInv, StatusInv,
          Claimed, Settled,
           PlaceInv, Types, Goto, Lock, Unlock, SetStatus, SetPhase, NotifyAll,
           Call, codeVars, frontVars, backVars, histVars
      <3> QED BY <1>a, <3>2, <3>3, <3>4, <3>5, <3>6
    <2> QED BY <2>1, <2>2
  <1>9. ASSUME NEW t \in Threads, Claim(t) PROVE InitInv' /\ Forward
    <2>1. CASE initThreadId' = [initThreadId EXCEPT ![target[t]] = t] /\ Goto(t, "publish")
              /\ UNCHANGED <<status, lock>>
      <3>1. /\ \A u \in Threads \ {t} : at'[u] = at[u] /\ target'[u] = target[u]
            /\ \A e \in Classes \ {target[t]} : status'[e] = status[e]
            /\ \A e \in Classes \ {target[t]} : lock'[e] = lock[e]
            /\ \A e \in Classes \ {target[t]} : initThreadId'[e] = initThreadId[e]
            /\ UNCHANGED clinits
            /\ UNCHANGED phase
            /\ PlaceInv(t)
                /\ target[t] \in Classes /\ StatusInv(target[t]) /\ ClaimInv(t, target[t])
        BY <1>0, <1>9, <2>1 DEF Claim, InitInv, PlaceInv, Types,
           Goto, Lock, Unlock, SetStatus, SetPhase, NotifyAll, Call, codeVars,
           frontVars, backVars, histVars
      <3>2. Apart(t)
        <4>1. lock[target[t]] = t /\ target[t] \in Classes /\ status[target[t]] = "verified"
          <5>1. target[t] \in Classes /\ PlaceInv(t) /\ at[t] = "check"
            BY <1>9, <3>1 DEF Claim
          <5>2. status[target[t]] \in Statuses
            BY <1>0, <5>1 DEF Types
          <5> QED BY <1>9, <5>1, <5>2 DEF Claim, PlaceInv, Statuses, Settled
        <4>2. \A u \in Threads : ~Claimed(u, target[t])
          BY <1>b, <4>1
        <4>3. \A u \in Threads \ {t}, e \in Classes :
                  lock[e] = u \/ Claimed(u, e) => e # target[t]
          BY <4>1, <4>2
        <4> QED BY <3>1, <4>3 DEF Apart
      <3>3. Forward
        BY <1>0, <1>9, <2>1, <3>1 DEF Forward, Claim, ClaimInv, Claimed, Types,
          Settled,
           PlaceInv, Goto, Lock, Unlock, SetStatus, SetPhase, NotifyAll, Call,
           codeVars, frontVars, backVars, histVars
      <3>4. PlaceInv(t)'
        BY <1>0, <1>9, <2>1, <3>1 DEF Claim, PlaceInv, ClaimInv, StatusInv,
          Claimed, Settled,
           BeingInitialized, Types, Statuses, Goto, Lock, Unlock, SetStatus,
           SetPhase, NotifyAll, Call, codeVars, frontVars, backVars, histVars
      <3>5. ASSUME NEW e \in Classes PROVE ClaimInv(t, e)'
        BY <1>0, <1>9, <2>1, <3>1 DEF Claim, InitInv, ClaimInv, StatusInv,
          Claimed, Settled,
           PlaceInv, Types, Goto, Lock, Unlock, SetStatus, SetPhase, NotifyAll,
           Call, codeVars, frontVars, backVars, histVars
      <3>6. ASSUME NEW e \in Classes PROVE StatusInv(e)'
        BY <1>0, <1>9, <2>1, <3>1 DEF Claim, InitInv, ClaimInv, StatusInv,
          Claimed, Settled,
           PlaceInv, Types, Goto, Lock, Unlock, SetStatus, SetPhase, NotifyAll,
           Call, codeVars, frontVars, backVars, histVars
      <3> QED BY <1>a, <3>2, <3>3, <3>4, <3>5, <3>6
    <2>2. CASE SetStatus(target[t], "error") /\ Unlock(target[t]) /\ Goto(t, "return")
              /\ UNCHANGED initThreadId
      <3>1. /\ \A u \in Threads \ {t} : at'[u] = at[u] /\ target'[u] = target[u]
            /\ \A e \in Classes \ {target[t]} : status'[e] = status[e]
            /\ \A e \in Classes \ {target[t]} : lock'[e] = lock[e]
            /\ \A e \in Classes \ {target[t]} : initThreadId'[e] = initThreadId[e]
            /\ UNCHANGED clinits
            /\ UNCHANGED phase
            /\ PlaceInv(t)
                /\ target[t] \in Classes /\ StatusInv(target[t]) /\ ClaimInv(t, target[t])
        BY <1>0, <1>9, <2>2 DEF Claim, InitInv, PlaceInv, Types,
           Goto, Lock, Unlock, SetStatus, SetPhase, NotifyAll, Call, codeVars,
           frontVars, backVars, histVars
      <3>2. Apart(t)
        <4>1. lock[target[t]] = t /\ target[t] \in Classes /\ status[target[t]] = "verified"
          <5>1. target[t] \in Classes /\ PlaceInv(t) /\ at[t] = "check"
            BY <1>9, <3>1 DEF Claim
          <5>2. status[target[t]] \in Statuses
            BY <1>0, <5>1 DEF Types
          <5> QED BY <1>9, <5>1, <5>2 DEF Claim, PlaceInv, Statuses, Settled
        <4>2. \A u \in Threads : ~Claimed(u, target[t])
          BY <1>b, <4>1
        <4>3. \A u \in Threads \ {t}, e \in Classes :
                  lock[e] = u \/ Claimed(u, e) => e # target[t]
          BY <4>1, <4>2
        <4> QED BY <3>1, <4>3 DEF Apart
      <3>3. Forward
        BY <1>0, <1>9, <2>2, <3>1 DEF Forward, Claim, ClaimInv, Claimed, Types,
          Settled,
           PlaceInv, Goto, Lock, Unlock, SetStatus, SetPhase, NotifyAll, Call,
           codeVars, frontVars, backVars, histVars
      <3>4. PlaceInv(t)'
        BY <1>0, <1>9, <2>2, <3>1 DEF Claim, PlaceInv, ClaimInv, StatusInv,
          Claimed, Settled,
           BeingInitialized, Types, Statuses, Goto, Lock, Unlock, SetStatus,
           SetPhase, NotifyAll, Call, codeVars, frontVars, backVars, histVars
      <3>5. ASSUME NEW e \in Classes PROVE ClaimInv(t, e)'
        BY <1>0, <1>9, <2>2, <3>1 DEF Claim, InitInv, ClaimInv, StatusInv,
          Claimed, Settled,
           PlaceInv, Types, Goto, Lock, Unlock, SetStatus, SetPhase, NotifyAll,
           Call, codeVars, frontVars, backVars, histVars
      <3>6. ASSUME NEW e \in Classes PROVE StatusInv(e)'
        BY <1>0, <1>9, <2>2, <3>1 DEF Claim, InitInv, ClaimInv, StatusInv,
          Claimed, Settled,
           PlaceInv, Types, Goto, Lock, Unlock, SetStatus, SetPhase, NotifyAll,
           Call, codeVars, frontVars, backVars, histVars
      <3> QED BY <1>a, <3>2, <3>3, <3>4, <3>5, <3>6
    <2> QED BY <1>9, <2>1, <2>2 DEF Claim
  <1>10. ASSUME NEW t \in Threads, Publish(t) PROVE InitInv' /\ Forward
    <2>1. /\ \A u \in Threads \ {t} : at'[u] = at[u] /\ target'[u] = target[u]
          /\ \A e \in Classes \ {target[t]} : status'[e] = status[e]
          /\ \A e \in Classes \ {target[t]} : lock'[e] = lock[e]
          /\ UNCHANGED initThreadId
          /\ UNCHANGED clinits
          /\ \A u \in Threads, e \in Classes : u # t \/ e # target[t] => phase'[u][e] = phase[u][e]
          /\ PlaceInv(t)
              /\ target[t] \in Classes /\ StatusInv(target[t]) /\ ClaimInv(t, target[t])
      BY <1>0, <1>10 DEF Publish, InitInv, PlaceInv, Types,
         Goto, Lock, Unlock, SetStatus, SetPhase, NotifyAll, Call, codeVars,
         frontVars, backVars, histVars
    <2>2. Apart(t)
      BY <1>0, <1>b, <1>10, <2>1 DEF Apart, Publish, InitInv, PlaceInv,
        ClaimInv, Claimed, Types,
         Settled, Goto, Lock, Unlock, SetStatus, SetPhase, NotifyAll, Call,
         codeVars, frontVars, backVars, histVars
    <2>3. Forward
      BY <1>0, <1>10, <2>1 DEF Forward, Publish, ClaimInv, Claimed, Types,
        Settled,
         PlaceInv, Goto, Lock, Unlock, SetStatus, SetPhase, NotifyAll, Call,
         codeVars, frontVars, backVars, histVars
    <2>4. PlaceInv(t)'
      BY <1>0, <1>10, <2>1 DEF Publish, PlaceInv, ClaimInv, StatusInv, Claimed,
        Settled,
         BeingInitialized, Types, Statuses, Goto, Lock, Unlock, SetStatus,
         SetPhase, NotifyAll, Call, codeVars, frontVars, backVars, histVars
    <2>5. ASSUME NEW e \in Classes PROVE ClaimInv(t, e)'
      BY <1>0, <1>10, <2>1 DEF Publish, InitInv, ClaimInv, StatusInv, Claimed,
        Settled,
         PlaceInv, Types, Goto, Lock, Unlock, SetStatus, SetPhase, NotifyAll,
         Call, codeVars, frontVars, backVars, histVars
    <2>6. ASSUME NEW e \in Classes PROVE StatusInv(e)'
      BY <1>0, <1>10, <2>1 DEF Publish, InitInv, ClaimInv, StatusInv, Claimed,
        Settled,
         PlaceInv, Types, Goto, Lock, Unlock, SetStatus, SetPhase, NotifyAll,
         Call, codeVars, frontVars, backVars, histVars
    <2> QED BY <1>a, <2>2, <2>3, <2>4, <2>5, <2>6
  <1>11. ASSUME NEW t \in Threads, Return(t) PROVE InitInv' /\ Forward
    <2>1. /\ \A u \in Threads \ {t} : at'[u] = at[u] /\ target'[u] = target[u]
          /\ UNCHANGED status
          /\ UNCHANGED lock
          /\ UNCHANGED initThreadId
          /\ UNCHANGED clinits
          /\ UNCHANGED phase
          /\ PlaceInv(t)
              /\ target[t] \in Classes /\ StatusInv(target[t]) /\ ClaimInv(t, target[t])
      BY <1>0, <1>11 DEF Return, Verdict, InitInv, PlaceInv, Types,
         Goto, Lock, Unlock, SetStatus, SetPhase, NotifyAll, Call, codeVars,
         frontVars, backVars, histVars
    <2>2. Apart(t)
      BY <1>0, <1>b, <1>11, <2>1 DEF Apart, Return, Verdict, InitInv, PlaceInv,
        ClaimInv, Claimed, Types,
         Settled, Goto, Lock, Unlock, SetStatus, SetPhase, NotifyAll, Call,
         codeVars, frontVars, backVars, histVars
    <2>3. Forward
      BY <1>0, <1>11, <2>1 DEF Forward, Return, Verdict, ClaimInv, Claimed,
        Types, Settled,
         PlaceInv, Goto, Lock, Unlock, SetStatus, SetPhase, NotifyAll, Call,
         codeVars, frontVars, backVars, histVars
    <2>4. PlaceInv(t)'
      BY <1>0, <1>11, <2>1 DEF Return, Verdict, PlaceInv, ClaimInv, StatusInv,
        Claimed, Settled,
         BeingInitialized, Types, Statuses, Goto, Lock, Unlock, SetStatus,
         SetPhase, NotifyAll, Call, codeVars, frontVars, backVars, histVars
    <2>5. ASSUME NEW e \in Classes PROVE ClaimInv(t, e)'
      BY <1>0, <1>11, <2>1 DEF Return, Verdict, InitInv, ClaimInv, StatusInv,
        Claimed, Settled,
         PlaceInv, Types, Goto, Lock, Unlock, SetStatus, SetPhase, NotifyAll,
         Call, codeVars, frontVars, backVars, histVars
    <2>6. ASSUME NEW e \in Classes PROVE StatusInv(e)'
      BY <1>0, <1>11, <2>1 DEF Return, Verdict, InitInv, ClaimInv, StatusInv,
        Claimed, Settled,
         PlaceInv, Types, Goto, Lock, Unlock, SetStatus, SetPhase, NotifyAll,
         Call, codeVars, frontVars, backVars, histVars
    <2> QED BY <1>a, <2>2, <2>3, <2>4, <2>5, <2>6
  <1>12. ASSUME NEW t \in Threads, NEW c \in Classes, Ask(t, c) PROVE InitInv' /\ Forward
    <2>1. /\ \A u \in Threads \ {t} : at'[u] = at[u] /\ target'[u] = target[u]
          /\ UNCHANGED status
          /\ UNCHANGED lock
          /\ UNCHANGED initThreadId
          /\ UNCHANGED clinits
          /\ UNCHANGED phase
          /\ PlaceInv(t) /\ StatusInv(c) /\ ClaimInv(t, c)
      BY <1>0, <1>12 DEF Ask, InitInv, PlaceInv, Types,
         Goto, Lock, Unlock, SetStatus, SetPhase, NotifyAll, Call, codeVars,
         frontVars, backVars, histVars
    <2>2. Apart(t)
      BY <1>0, <1>b, <1>12, <2>1 DEF Apart, Ask, InitInv, PlaceInv, ClaimInv,
        Claimed, Types,
         Settled, Goto, Lock, Unlock, SetStatus, SetPhase, NotifyAll, Call,
         codeVars, frontVars, backVars, histVars
    <2>3. Forward
      BY <1>0, <1>12, <2>1 DEF Forward, Ask, ClaimInv, Claimed, Types, Settled,
         PlaceInv, Goto, Lock, Unlock, SetStatus, SetPhase, NotifyAll, Call,
         codeVars, frontVars, backVars, histVars
    <2>4. PlaceInv(t)'
      BY <1>0, <1>12, <2>1 DEF Ask, PlaceInv, ClaimInv, StatusInv, Claimed,
        Settled,
         BeingInitialized, Types, Statuses, Goto, Lock, Unlock, SetStatus,
         SetPhase, NotifyAll, Call, codeVars, frontVars, backVars, histVars
    <2>5. ASSUME NEW e \in Classes PROVE ClaimInv(t, e)'
      BY <1>0, <1>12, <2>1 DEF Ask, InitInv, ClaimInv, StatusInv, Claimed,
        Settled,
         PlaceInv, Types, Goto, Lock, Unlock, SetStatus, SetPhase, NotifyAll,
         Call, codeVars, frontVars, backVars, histVars
    <2>6. ASSUME NEW e \in Classes PROVE StatusInv(e)'
      BY <1>0, <1>12, <2>1 DEF Ask, InitInv, ClaimInv, StatusInv, Claimed,
        Settled,
         PlaceInv, Types, Goto, Lock, Unlock, SetStatus, SetPhase, NotifyAll,
         Call, codeVars, frontVars, backVars, histVars
    <2> QED BY <1>a, <2>2, <2>3, <2>4, <2>5, <2>6
  <1>13. ASSUME NEW t \in Threads, NEW c \in Classes, InitSuper(t, c) PROVE InitInv' /\ Forward
    <2>1. /\ \A u \in Threads \ {t} : at'[u] = at[u] /\ target'[u] = target[u]
          /\ UNCHANGED status
          /\ UNCHANGED lock
          /\ UNCHANGED initThreadId
          /\ \A e \in Classes \ {c} : clinits'[e] = clinits[e]
          /\ \A u \in Threads, e \in Classes : u # t \/ e # c => phase'[u][e] = phase[u][e]
          /\ PlaceInv(t) /\ StatusInv(c) /\ ClaimInv(t, c)
      BY <1>0, <1>13 DEF InitSuper, StartClinit, SuperReady, Running, InitInv,
        PlaceInv, Types,
         Goto, Lock, Unlock, SetStatus, SetPhase, NotifyAll, Call, codeVars,
         frontVars, backVars, histVars
    <2>2. Apart(t)
      BY <1>0, <1>b, <1>13, <2>1 DEF Apart, InitSuper, StartClinit, SuperReady,
        Running, InitInv, PlaceInv, ClaimInv, Claimed, Types,
         Settled, Goto, Lock, Unlock, SetStatus, SetPhase, NotifyAll, Call,
         codeVars, frontVars, backVars, histVars
    <2>3. Forward
      BY <1>0, <1>13, <2>1 DEF Forward, InitSuper, StartClinit, SuperReady,
        Running, ClaimInv, Claimed, Types, Settled,
         PlaceInv, Goto, Lock, Unlock, SetStatus, SetPhase, NotifyAll, Call,
         codeVars, frontVars, backVars, histVars
    <2>4. PlaceInv(t)'
      BY <1>0, <1>13, <2>1 DEF InitSuper, StartClinit, SuperReady, Running,
        PlaceInv, ClaimInv, StatusInv, Claimed, Settled,
         BeingInitialized, Types, Statuses, Goto, Lock, Unlock, SetStatus,
         SetPhase, NotifyAll, Call, codeVars, frontVars, backVars, histVars
    <2>5. ASSUME NEW e \in Classes PROVE ClaimInv(t, e)'
      <3>1. CASE e # c
        <4>1. ClaimInv(t, e)
          BY <1>0 DEF InitInv
        <4> QED BY <2>1, <3>1, <4>1 DEF ClaimInv, Claimed, Settled
      <3>2. CASE e = c
        <4>1. phase[t][c] = "super" /\ phase'[t][c] \in {"clinit", "superDone"}
          BY <1>0, <1>13 DEF InitSuper, StartClinit, Running, SetPhase, Types
        <4>2. phase'[t][c] = "superDone" => clinits' = clinits
          BY <1>0, <1>13, <4>1 DEF InitSuper, StartClinit, SetPhase, Types
        <4> QED BY <2>1, <3>2, <4>1, <4>2 DEF ClaimInv, Claimed
      <3> QED BY <3>1, <3>2
    <2>6. ASSUME NEW e \in Classes PROVE StatusInv(e)'
      <3>1. phase'[t][c] # "none" /\ phase[t][c] # "none"
        BY <1>0, <1>13, <2>1 DEF InitSuper, StartClinit, Running, Types,
          SetPhase
      <3>2. \A u \in Threads, f \in Classes : Claimed(u, f) => Claimed(u, f)'
        BY <2>1, <3>1 DEF Claimed
      <3>3. StatusInv(e) /\ initThreadId'[e] \in Threads
        BY <1>0 DEF InitInv, Types
      <3>4. status'[e] = "initializing" => Claimed(initThreadId[e], e)'
        BY <1>0, <1>13, <2>1, <3>1, <3>2, <3>3 DEF InitSuper, StartClinit,
          Running, StatusInv, Claimed, Types, SetStatus
      <3>5. status'[e] \in {"resolved", "verified"} => clinits'[e] = 0
        BY <1>0, <1>13, <2>1, <3>3 DEF InitSuper, StartClinit, Running,
          StatusInv, ClaimInv, Types, SetStatus
      <3>6. clinits'[e] <= 1
        <4>1. clinits[c] = 0
          BY <1>13, <2>1 DEF InitSuper, Running, ClaimInv
        <4>2. clinits'[c] \in {0, 1}
          BY <1>0, <1>13, <4>1 DEF InitSuper, StartClinit, Running, Types
        <4> QED BY <2>1, <3>3, <4>2 DEF StatusInv
      <3> QED BY <3>4, <3>5, <3>6 DEF StatusInv
    <2> QED BY <1>a, <2>2, <2>3, <2>4, <2>5, <2>6
  <1>14. ASSUME NEW t \in Threads, NEW c \in Classes, SuperReturned(t, c) PROVE InitInv' /\ Forward
    <2>1. /\ \A u \in Threads \ {t} : at'[u] = at[u] /\ target'[u] = target[u]
          /\ \A e \in Classes \ {c} : status'[e] = status[e]
          /\ UNCHANGED lock
          /\ UNCHANGED initThreadId
          /\ \A e \in Classes \ {c} : clinits'[e] = clinits[e]
          /\ \A u \in Threads, e \in Classes : u # t \/ e # c => phase'[u][e] = phase[u][e]
          /\ PlaceInv(t) /\ StatusInv(c) /\ ClaimInv(t, c)
      BY <1>0, <1>14 DEF SuperReturned, StartClinit, Running, InitInv,
        PlaceInv, Types,
         Goto, Lock, Unlock, SetStatus, SetPhase, NotifyAll, Call, codeVars,
         frontVars, backVars, histVars
    <2>2. Apart(t)
      BY <1>0, <1>b, <1>14, <2>1 DEF Apart, SuperReturned, StartClinit,
        Running, InitInv, PlaceInv, ClaimInv, Claimed, Types,
         Settled, Goto, Lock, Unlock, SetStatus, SetPhase, NotifyAll, Call,
         codeVars, frontVars, backVars, histVars
    <2>3. Forward
      BY <1>0, <1>14, <2>1 DEF Forward, SuperReturned, StartClinit, Running,
        ClaimInv, Claimed, Types, Settled,
         PlaceInv, Goto, Lock, Unlock, SetStatus, SetPhase, NotifyAll, Call,
         codeVars, frontVars, backVars, histVars
    <2>4. PlaceInv(t)'
      BY <1>0, <1>14, <2>1 DEF SuperReturned, StartClinit, Running, PlaceInv,
        ClaimInv, StatusInv, Claimed, Settled,
         BeingInitialized, Types, Statuses, Goto, Lock, Unlock, SetStatus,
         SetPhase, NotifyAll, Call, codeVars, frontVars, backVars, histVars
    <2>5. ASSUME NEW e \in Classes PROVE ClaimInv(t, e)'
      BY <1>0, <1>14, <2>1 DEF SuperReturned, StartClinit, Running, InitInv,
        ClaimInv, StatusInv, Claimed, Settled,
         PlaceInv, Types, Goto, Lock, Unlock, SetStatus, SetPhase, NotifyAll,
         Call, codeVars, frontVars, backVars, histVars
    <2>6. ASSUME NEW e \in Classes PROVE StatusInv(e)'
      <3>1. phase'[t][c] # "none" /\ phase[t][c] # "none"
        BY <1>0, <1>14, <2>1 DEF SuperReturned, StartClinit, Running, Types,
          SetPhase
      <3>2. \A u \in Threads, f \in Classes : Claimed(u, f) => Claimed(u, f)'
        BY <2>1, <3>1 DEF Claimed
      <3>3. StatusInv(e) /\ initThreadId'[e] \in Threads
        BY <1>0 DEF InitInv, Types
      <3>4. status'[e] = "initializing" => Claimed(initThreadId[e], e)'
        BY <1>0, <1>14, <2>1, <3>1, <3>2, <3>3 DEF SuperReturned, StartClinit,
          Running, StatusInv, Claimed, Types, SetStatus
      <3>5. status'[e] \in {"resolved", "verified"} => clinits'[e] = 0
        BY <1>0, <1>14, <2>1, <3>3 DEF SuperReturned, StartClinit, Running,
          StatusInv, ClaimInv, Types, SetStatus
      <3>6. clinits'[e] <= 1
        <4>1. clinits[c] = 0
          BY <1>14, <2>1 DEF SuperReturned, Running, ClaimInv
        <4>2. clinits'[c] \in {0, 1}
          BY <1>0, <1>14, <4>1 DEF SuperReturned, StartClinit, Running, Types
        <4> QED BY <2>1, <3>3, <4>2 DEF StatusInv
      <3> QED BY <3>4, <3>5, <3>6 DEF StatusInv
    <2> QED BY <1>a, <2>2, <2>3, <2>4, <2>5, <2>6
  <1>15. ASSUME NEW t \in Threads, NEW c \in Classes, UseReturned(t, c) PROVE InitInv' /\ Forward
    <2>1. /\ \A u \in Threads \ {t} : at'[u] = at[u] /\ target'[u] = target[u]
          /\ UNCHANGED status
          /\ UNCHANGED lock
          /\ UNCHANGED initThreadId
          /\ UNCHANGED clinits
          /\ UNCHANGED phase
          /\ PlaceInv(t) /\ StatusInv(c) /\ ClaimInv(t, c)
      BY <1>0, <1>15 DEF UseReturned, Running, InitInv, PlaceInv, Types,
         Goto, Lock, Unlock, SetStatus, SetPhase, NotifyAll, Call, codeVars,
         frontVars, backVars, histVars
    <2>2. Apart(t)
      BY <1>0, <1>b, <1>15, <2>1 DEF Apart, UseReturned, Running, InitInv,
        PlaceInv, ClaimInv, Claimed, Types,
         Settled, Goto, Lock, Unlock, SetStatus, SetPhase, NotifyAll, Call,
         codeVars, frontVars, backVars, histVars
    <2>3. Forward
      BY <1>0, <1>15, <2>1 DEF Forward, UseReturned, Running, ClaimInv,
        Claimed, Types, Settled,
         PlaceInv, Goto, Lock, Unlock, SetStatus, SetPhase, NotifyAll, Call,
         codeVars, frontVars, backVars, histVars
    <2>4. PlaceInv(t)'
      BY <1>0, <1>15, <2>1 DEF UseReturned, Running, PlaceInv, ClaimInv,
        StatusInv, Claimed, Settled,
         BeingInitialized, Types, Statuses, Goto, Lock, Unlock, SetStatus,
         SetPhase, NotifyAll, Call, codeVars, frontVars, backVars, histVars
    <2>5. ASSUME NEW e \in Classes PROVE ClaimInv(t, e)'
      BY <1>0, <1>15, <2>1 DEF UseReturned, Running, InitInv, ClaimInv,
        StatusInv, Claimed, Settled,
         PlaceInv, Types, Goto, Lock, Unlock, SetStatus, SetPhase, NotifyAll,
         Call, codeVars, frontVars, backVars, histVars
    <2>6. ASSUME NEW e \in Classes PROVE StatusInv(e)'
      BY <1>0, <1>15, <2>1 DEF UseReturned, Running, InitInv, ClaimInv,
        StatusInv, Claimed, Settled,
         PlaceInv, Types, Goto, Lock, Unlock, SetStatus, SetPhase, NotifyAll,
         Call, codeVars, frontVars, backVars, histVars
    <2> QED BY <1>a, <2>2, <2>3, <2>4, <2>5, <2>6
  <1>16. ASSUME NEW t \in Threads, NEW c \in Classes, ClinitReturned(t, c) PROVE InitInv' /\ Forward
    <2>1. /\ \A u \in Threads \ {t} : at'[u] = at[u] /\ target'[u] = target[u]
          /\ UNCHANGED status
          /\ UNCHANGED lock
          /\ UNCHANGED initThreadId
          /\ UNCHANGED clinits
          /\ \A u \in Threads, e \in Classes : u # t \/ e # c => phase'[u][e] = phase[u][e]
          /\ PlaceInv(t) /\ StatusInv(c) /\ ClaimInv(t, c)
      BY <1>0, <1>16 DEF ClinitReturned, Running, InitInv, PlaceInv, Types,
         Goto, Lock, Unlock, SetStatus, SetPhase, NotifyAll, Call, codeVars,
         frontVars, backVars, histVars
    <2>2. Apart(t)
      BY <1>0, <1>b, <1>16, <2>1 DEF Apart, ClinitReturned, Running, InitInv,
        PlaceInv, ClaimInv, Claimed, Types,
         Settled, Goto, Lock, Unlock, SetStatus, SetPhase, NotifyAll, Call,
         codeVars, frontVars, backVars, histVars
    <2>3. Forward
      BY <1>0, <1>16, <2>1 DEF Forward, ClinitReturned, Running, ClaimInv,
        Claimed, Types, Settled,
         PlaceInv, Goto, Lock, Unlock, SetStatus, SetPhase, NotifyAll, Call,
         codeVars, frontVars, backVars, histVars
    <2>4. PlaceInv(t)'
      BY <1>0, <1>16, <2>1 DEF ClinitReturned, Running, PlaceInv, ClaimInv,
        StatusInv, Claimed, Settled,
         BeingInitialized, Types, Statuses, Goto, Lock, Unlock, SetStatus,
         SetPhase, NotifyAll, Call, codeVars, frontVars, backVars, histVars
    <2>5. ASSUME NEW e \in Classes PROVE ClaimInv(t, e)'
      BY <1>0, <1>16, <2>1 DEF ClinitReturned, Running, InitInv, ClaimInv,
        StatusInv, Claimed, Settled,
         PlaceInv, Types, Goto, Lock, Unlock, SetStatus, SetPhase, NotifyAll,
         Call, codeVars, frontVars, backVars, histVars
    <2>6. ASSUME NEW e \in Classes PROVE StatusInv(e)'
      <3>1. phase'[t][c] # "none" /\ phase[t][c] # "none"
        BY <1>0, <1>16, <2>1 DEF ClinitReturned, Running, Types, SetPhase
      <3>2. \A u \in Threads, f \in Classes : Claimed(u, f) => Claimed(u, f)'
        BY <2>1, <3>1 DEF Claimed
      <3>3. StatusInv(e) /\ initThreadId'[e] \in Threads
        BY <1>0 DEF InitInv, Types
      <3>4. status'[e] = "initializing" => Claimed(initThreadId[e], e)'
        BY <1>0, <1>16, <2>1, <3>1, <3>2, <3>3 DEF ClinitReturned, Running,
          StatusInv, Claimed, Types, SetStatus
      <3>5. status'[e] \in {"resolved", "verified"} => clinits'[e] = 0
        BY <1>0, <1>16, <2>1, <3>3 DEF ClinitReturned, Running, StatusInv,
          ClaimInv, Types, SetStatus
      <3>6. clinits'[e] <= 1
        BY <1>0, <1>16, <2>1, <3>3 DEF ClinitReturned, Running, StatusInv,
          ClaimInv, Types
      <3> QED BY <3>4, <3>5, <3>6 DEF StatusInv
    <2> QED BY <1>a, <2>2, <2>3, <2>4, <2>5, <2>6
  <1>17. ASSUME NEW t \in Threads, NEW c \in Classes, Settle(t, c) PROVE InitInv' /\ Forward
    <2>1. /\ \A u \in Threads \ {t} : at'[u] = at[u] /\ target'[u] = target[u]
          /\ \A e \in Classes \ {c} : status'[e] = status[e]
          /\ \A e \in Classes \ {c} : lock'[e] = lock[e]
          /\ UNCHANGED initThreadId
          /\ UNCHANGED clinits
          /\ \A u \in Threads, e \in Classes : u # t \/ e # c => phase'[u][e] = phase[u][e]
          /\ PlaceInv(t) /\ StatusInv(c) /\ ClaimInv(t, c)
      BY <1>0, <1>17 DEF Settle, Running, InitInv, PlaceInv, Types,
         Goto, Lock, Unlock, SetStatus, SetPhase, NotifyAll, Call, codeVars,
         frontVars, backVars, histVars
    <2>2. Apart(t)
      BY <1>0, <1>b, <1>17, <2>1 DEF Apart, Settle, Running, InitInv, PlaceInv,
        ClaimInv, Claimed, Types,
         Settled, Goto, Lock, Unlock, SetStatus, SetPhase, NotifyAll, Call,
         codeVars, frontVars, backVars, histVars
    <2>3. Forward
      BY <1>0, <1>17, <2>1 DEF Forward, Settle, Running, ClaimInv, Claimed,
        Types, Settled,
         PlaceInv, Goto, Lock, Unlock, SetStatus, SetPhase, NotifyAll, Call,
         codeVars, frontVars, backVars, histVars
    <2>4. PlaceInv(t)'
      BY <1>0, <1>17, <2>1 DEF Settle, Running, PlaceInv, ClaimInv, StatusInv,
        Claimed, Settled,
         BeingInitialized, Types, Statuses, Goto, Lock, Unlock, SetStatus,
         SetPhase, NotifyAll, Call, codeVars, frontVars, backVars, histVars
    <2>5. ASSUME NEW e \in Classes PROVE ClaimInv(t, e)'
      BY <1>0, <1>17, <2>1 DEF Settle, Running, InitInv, ClaimInv, StatusInv,
        Claimed, Settled,
         PlaceInv, Types, Goto, Lock, Unlock, SetStatus, SetPhase, NotifyAll,
         Call, codeVars, frontVars, backVars, histVars
    <2>6. ASSUME NEW e \in Classes PROVE StatusInv(e)'
      BY <1>0, <1>17, <2>1 DEF Settle, Running, InitInv, ClaimInv, StatusInv,
        Claimed, Settled,
         PlaceInv, Types, Goto, Lock, Unlock, SetStatus, SetPhase, NotifyAll,
         Call, codeVars, frontVars, backVars, histVars
    <2> QED BY <1>a, <2>2, <2>3, <2>4, <2>5, <2>6
  <1>18. ASSUME NEW t \in Threads, NEW c \in Classes, Notify(t, c) PROVE InitInv' /\ Forward
    <2>1. /\ \A u \in Threads \ {t} : at'[u] = at[u] /\ target'[u] = target[u]
          /\ UNCHANGED status
          /\ \A e \in Classes \ {c} : lock'[e] = lock[e]
          /\ UNCHANGED initThreadId
          /\ UNCHANGED clinits
          /\ \A u \in Threads, e \in Classes : u # t \/ e # c => phase'[u][e] = phase[u][e]
          /\ PlaceInv(t) /\ StatusInv(c) /\ ClaimInv(t, c)
      BY <1>0, <1>18 DEF Notify, Popped, Running, InitInv, PlaceInv, Types,
         Goto, Lock, Unlock, SetStatus, SetPhase, NotifyAll, Call, codeVars,
         frontVars, backVars, histVars
    <2>2. Apart(t)
      BY <1>0, <1>b, <1>18, <2>1 DEF Apart, Notify, Popped, Running, InitInv,
        PlaceInv, ClaimInv, Claimed, Types,
         Settled, Goto, Lock, Unlock, SetStatus, SetPhase, NotifyAll, Call,
         codeVars, frontVars, backVars, histVars
    <2>3. Forward
      BY <1>0, <1>18, <2>1 DEF Forward, Notify, Popped, Running, ClaimInv,
        Claimed, Types, Settled,
         PlaceInv, Goto, Lock, Unlock, SetStatus, SetPhase, NotifyAll, Call,
         codeVars, frontVars, backVars, histVars
    <2>4. PlaceInv(t)'
      BY <1>0, <1>18, <2>1 DEF Notify, Popped, Running, PlaceInv, ClaimInv,
        StatusInv, Claimed, Settled,
         BeingInitialized, Types, Statuses, Goto, Lock, Unlock, SetStatus,
         SetPhase, NotifyAll, Call, codeVars, frontVars, backVars, histVars
    <2>5. ASSUME NEW e \in Classes PROVE ClaimInv(t, e)'
      BY <1>0, <1>18, <2>1 DEF Notify, Popped, Running, InitInv, ClaimInv,
        StatusInv, Claimed, Settled,
         PlaceInv, Types, Goto, Lock, Unlock, SetStatus, SetPhase, NotifyAll,
         Call, codeVars, frontVars, backVars, histVars
    <2>6. ASSUME NEW e \in Classes PROVE StatusInv(e)'
      BY <1>0, <1>18, <2>1 DEF Notify, Popped, Running, InitInv, ClaimInv,
        StatusInv, Claimed, Settled,
         PlaceInv, Types, Goto, Lock, Unlock, SetStatus, SetPhase, NotifyAll,
         Call, codeVars, frontVars, backVars, histVars
    <2> QED BY <1>a, <2>2, <2>3, <2>4, <2>5, <2>6
  <1>19. ASSUME NEW t \in Threads, NEW c \in Classes, NEW d \in Classes, Use(t, c, d)
         PROVE InitInv' /\ Forward
    <2>1. /\ \A u \in Threads \ {t} : at'[u] = at[u] /\ target'[u] = target[u]
          /\ UNCHANGED status
          /\ UNCHANGED lock
          /\ UNCHANGED initThreadId
          /\ UNCHANGED clinits
          /\ UNCHANGED phase
          /\ PlaceInv(t) /\ StatusInv(c) /\ ClaimInv(t, c)
      BY <1>0, <1>19 DEF Use, Running, InitInv, PlaceInv, Types,
         Goto, Lock, Unlock, SetStatus, SetPhase, NotifyAll, Call, codeVars,
         frontVars, backVars, histVars
    <2>2. Apart(t)
      BY <1>0, <1>b, <1>19, <2>1 DEF Apart, Use, Running, InitInv, PlaceInv,
        ClaimInv, Claimed, Types,
         Settled, Goto, Lock, Unlock, SetStatus, SetPhase, NotifyAll, Call,
         codeVars, frontVars, backVars, histVars
    <2>3. Forward
      BY <1>0, <1>19, <2>1 DEF Forward, Use, Running, ClaimInv, Claimed, Types,
        Settled,
         PlaceInv, Goto, Lock, Unlock, SetStatus, SetPhase, NotifyAll, Call,
         codeVars, frontVars, backVars, histVars
    <2>4. PlaceInv(t)'
      BY <1>0, <1>19, <2>1 DEF Use, Running, PlaceInv, ClaimInv, StatusInv,
        Claimed, Settled,
         BeingInitialized, Types, Statuses, Goto, Lock, Unlock, SetStatus,
         SetPhase, NotifyAll, Call, codeVars, frontVars, backVars, histVars
    <2>5. ASSUME NEW e \in Classes PROVE ClaimInv(t, e)'
      BY <1>0, <1>19, <2>1 DEF Use, Running, InitInv, ClaimInv, StatusInv,
        Claimed, Settled,
         PlaceInv, Types, Goto, Lock, Unlock, SetStatus, SetPhase, NotifyAll,
         Call, codeVars, frontVars, backVars, histVars
    <2>6. ASSUME NEW e \in Classes PROVE StatusInv(e)'
      BY <1>0, <1>19, <2>1 DEF Use, Running, InitInv, ClaimInv, StatusInv,
        Claimed, Settled,
         PlaceInv, Types, Goto, Lock, Unlock, SetStatus, SetPhase, NotifyAll,
         Call, codeVars, frontVars, backVars, histVars
    <2> QED BY <1>a, <2>2, <2>3, <2>4, <2>5, <2>6
  <1> QED
    BY <1>1, <1>2, <1>3, <1>4, <1>5, <1>6, <1>7, <1>8, <1>9, <1>10, <1>11,
      <1>12, <1>13, <1>14, <1>15, <1>16, <1>17, <1>18, <1>19 DEF Next, Proceed

LEMMA InvAlways == Spec => []Inv
  BY InvInit, InvNext, PTL DEF Spec

(* Every variable has its type, whatever the program and the interleaving. *)
THEOREM TypeCorrect == Spec => []Types
  <1>1. Inv => Types
    BY DEF Inv
  <1> QED BY <1>1, InvAlways, PTL

(* <clinit> runs at most once, in the one thread that claimed the class.   *)
THEOREM ClinitOnce == Spec => []OneInitializer
  <1>1. Inv => OneInitializer
    BY DEF Inv, InitInv, OneInitializer, ClaimInv, StatusInv
  <1> QED BY <1>1, InvAlways, PTL

(* dvmIsClassInitializing answers true only to the thread that initializes. *)
THEOREM ClaimFresh == Spec => []NoStaleClaim
  <1>1. Inv => NoStaleClaim
    BY DEF Inv, InitInv, NoStaleClaim, StatusInv, BeingInitialized
  <1> QED BY <1>1, InvAlways, PTL

(* A class that failed, or is initialized, stays so.                       *)
THEOREM SettledSafe == Spec => SettledForGood
  <1>1. Inv /\ [Next]_vars => [\A c \in Classes : status[c] \in {"initialized", "error"}
                                  => status'[c] = status[c]]_vars
    BY InvNext DEF Forward, Settled
  <1> QED BY <1>1, InvAlways, PTL DEF Spec, SettledForGood

(* Only the return of a call tells a thread what became of a class.        *)
LEMMA OnlyReturnTells ==
    ASSUME [Next]_vars, ~\E t \in Threads : Return(t)
    PROVE  UNCHANGED seen
  <1>1. CASE UNCHANGED vars
    BY <1>1 DEF vars, histVars
  <1>2. ASSUME NEW t \in Threads,
               \/ WakeEarly(t) \/ Enter(t) \/ Verify(t) \/ Answer(t) \/ Wait(t)
               \/ Relock(t) \/ Recheck(t) \/ Claim(t) \/ Publish(t)
        PROVE  UNCHANGED seen
    BY <1>2 DEF histVars, WakeEarly, Enter, Verify, Answer, Wait, Relock,
      Recheck, Claim,
       Publish
  <1>3. ASSUME NEW t \in Threads, NEW c \in Classes,
               \/ Ask(t, c) \/ InitSuper(t, c) \/ SuperReturned(t, c)
               \/ (\E d \in Classes : Use(t, c, d)) \/ UseReturned(t, c)
               \/ ClinitReturned(t, c) \/ Settle(t, c) \/ Notify(t, c)
        PROVE  UNCHANGED seen
    BY <1>3 DEF histVars, Ask, InitSuper, SuperReturned, Use, UseReturned,
      ClinitReturned,
       Settle, Notify
  <1> QED BY <1>1, <1>2, <1>3 DEF Next, Proceed

LEMMA ViewNext == Inv /\ ConsistentView /\ [Next]_vars => ConsistentView'
  <1> SUFFICES ASSUME Inv, ConsistentView, [Next]_vars PROVE ConsistentView'
    OBVIOUS
  <1>1. Forward
    BY InvNext
  <1>2. CASE UNCHANGED seen
    BY <1>1, <1>2 DEF ConsistentView, Forward, Settled
  <1>3. ASSUME NEW t \in Threads, Return(t) PROVE ConsistentView'
    <2> DEFINE c == target[t]
    <2>1. c \in Classes /\ (Settled(c) \/ Claimed(t, c))
      BY <1>3 DEF Return, Inv, InitInv, PlaceInv
    <2>2. /\ UNCHANGED status
          /\ \A u \in Threads, d \in Classes :
                seen'[u][d] = IF u = t /\ d = c /\ phase[t][c] = "none"
                              THEN Verdict(c) ELSE seen[u][d]
      BY <1>3, <2>1 DEF Return, Inv, Types
    <2>3. phase[t][c] = "none" => IF Verdict(c) = "true" THEN status[c] = "initialized"
                                                     ELSE status[c] = "error"
      BY <2>1 DEF Settled, Claimed, Verdict
    <2> QED BY <2>2, <2>3 DEF ConsistentView, Verdict
  <1> QED BY <1>2, <1>3, OnlyReturnTells

(* No two threads are told differently whether a class is initialized.     *)
THEOREM ViewSafe == Spec => []ConsistentView
  <1>1. Init => ConsistentView
    BY DEF Init, ConsistentView
  <1> QED BY <1>1, ViewNext, InvAlways, PTL DEF Spec

(* The wait set of a class grows when it is being initialized, and a claim *)
(* is given up when it is emptied.                                         *)
LEMMA WakerNext == Inv /\ WaiterHasWaker /\ [Next]_vars => WaiterHasWaker'
  <1> SUFFICES ASSUME Inv, WaiterHasWaker, [Next]_vars PROVE WaiterHasWaker'
    OBVIOUS
  <1>0. Types /\ Types'
    BY InvNext DEF Inv
  <1> DEFINE Kept == \A u \in Threads, e \in Classes : Claimed(u, e) => Claimed(u, e)'
  <1>1. ASSUME Kept, UNCHANGED waiters PROVE WaiterHasWaker'
    BY <1>1 DEF WaiterHasWaker
  <1>2. ASSUME UNCHANGED <<waiters, phase>> PROVE WaiterHasWaker'
    BY <1>1, <1>2 DEF Claimed
  <1>3. CASE UNCHANGED vars
    BY <1>2, <1>3 DEF vars, backVars
  <1>4. ASSUME NEW t \in Threads,
               \/ Enter(t) \/ Verify(t) \/ Answer(t) \/ Relock(t) \/ Recheck(t)
               \/ Claim(t) \/ Return(t)
               \/ \E c \in Classes : \/ Ask(t, c) \/ UseReturned(t, c)
                                     \/ \E d \in Classes : Use(t, c, d)
        PROVE  WaiterHasWaker'
    BY <1>2, <1>4 DEF backVars, Enter, Verify, Answer, Relock, Recheck, Claim,
      Return, Ask,
       UseReturned, Use
  <1>5. ASSUME NEW t \in Threads, NEW c \in Classes, NEW p \in Phases \ {"none"},
               SetPhase(t, c, p), UNCHANGED waiters
        PROVE  WaiterHasWaker'
    BY <1>0, <1>1, <1>5 DEF SetPhase, Claimed, Types
  <1>6. ASSUME NEW t \in Threads, NEW c \in Classes,
               \/ InitSuper(t, c) \/ SuperReturned(t, c) \/ ClinitReturned(t, c)
               \/ Settle(t, c)
        PROVE  WaiterHasWaker'
    <2>1. UNCHANGED waiters /\ \E p \in Phases \ {"none"} : SetPhase(t, c, p)
      BY <1>6 DEF InitSuper, StartClinit, SuperReturned, ClinitReturned,
        Settle, Phases
    <2> QED BY <1>5, <2>1
  <1>7. ASSUME NEW t \in Threads, Publish(t) PROVE WaiterHasWaker'
    <2>1. target[t] \in Classes /\ UNCHANGED waiters /\ SetPhase(t, target[t], "super")
      BY <1>7 DEF Publish, Inv, InitInv, PlaceInv
    <2> QED BY <1>5, <2>1 DEF Phases
  <1>8. ASSUME NEW t \in Threads, Wait(t) PROVE WaiterHasWaker'
    <2>1. /\ target[t] \in Classes /\ status[target[t]] = "initializing"
          /\ UNCHANGED phase
          /\ \A e \in Classes : e # target[t] => waiters'[e] = waiters[e]
      BY <1>0, <1>8 DEF Wait, Inv, InitInv, PlaceInv, backVars, Types
    <2>2. initThreadId[target[t]] \in Threads /\ Claimed(initThreadId[target[t]], target[t])
      BY <1>0, <2>1 DEF Inv, InitInv, StatusInv, Types
    <2> QED BY <2>1, <2>2 DEF WaiterHasWaker, Claimed
  <1>9. ASSUME NEW t \in Threads, WakeEarly(t) PROVE WaiterHasWaker'
    <2>1. UNCHANGED phase /\ \A e \in Classes : waiters'[e] \subseteq waiters[e]
      BY <1>0, <1>9 DEF WakeEarly, backVars, Types
    <2> QED BY <2>1 DEF WaiterHasWaker, Claimed
  <1>10. ASSUME NEW t \in Threads, NEW c \in Classes, Notify(t, c) PROVE WaiterHasWaker'
    <2>1. /\ waiters'[c] = {}
          /\ \A e \in Classes : e # c => waiters'[e] = waiters[e]
          /\ \A u \in Threads, e \in Classes : e # c => phase'[u][e] = phase[u][e]
      BY <1>0, <1>10 DEF Notify, NotifyAll, Popped, SetPhase, Types
    <2> QED BY <2>1 DEF WaiterHasWaker, Claimed
  <1> QED
    BY <1>3, <1>4, <1>6, <1>7, <1>8, <1>9, <1>10 DEF Next, Proceed

(* A thread that waits for a class is never forgotten.                     *)
THEOREM WakerSafe == Spec => []WaiterHasWaker
  <1>1. Init => WaiterHasWaker
    BY DEF Init, WaiterHasWaker
  <1> QED BY <1>1, WakerNext, InvAlways, PTL DEF Spec

-----------------------------------------------------------------------------
(* The back halves a thread runs are nested: outer links them, and d is    *)
(* how deep each is in the nesting.                                        *)
Chain(t, d) ==
    /\ inner[t] # NoClass => Claimed(t, inner[t])
    /\ \A c \in Classes : Claimed(t, c) =>
          /\ inner[t] # NoClass
          /\ c # inner[t] => d[c] < d[inner[t]]
          /\ outer[t][c] = NoClass =>
                \A e \in Classes : Claimed(t, e) => d[c] <= d[e]
          /\ outer[t][c] # NoClass =>
                /\ Claimed(t, outer[t][c])
                /\ d[outer[t][c]] < d[c]
                /\ \A e \in Classes : Claimed(t, e) /\ d[e] < d[c] =>
                       e = outer[t][c] \/ d[e] < d[outer[t][c]]

Ready(t, c) == status[c] = "initialized" \/ Claimed(t, c)

(* A superclass that was not ready when a <clinit> started is the business *)
(* of a call further out, which cannot end before that <clinit>.           *)
SuperFurtherOut(t, d) ==
    \A c \in Classes : phase[t][c] = "clinit" /\ super[c] # NoClass =>
       \/ status[super[c]] = "initialized"
       \/ Claimed(t, super[c]) /\ d[super[c]] < d[c]

(* What a call for the superclass answers is about the superclass, though  *)
(* calls for other classes come and go in between.                         *)
CallInv(t) ==
    /\ at[t] = "idle" => inner[t] = NoClass
    /\ \A c \in Classes : phase[t][c] = "superDone" =>
          /\ super[c] # NoClass
          /\ \A s \in Classes : Claimed(t, s) /\ outer[t][s] = c => s = super[c]
          /\ inner[t] = c /\ at[t] # "back" => target[t] = super[c]
          /\ inner[t] = c /\ at[t] = "back" /\ ret[t] = "true" => Ready(t, super[c])

Nested(t, d) == Chain(t, d) /\ SuperFurtherOut(t, d)

Depths == [Classes -> Nat]

StackInv == /\ \A c \in Classes : super[c] # c
            /\ \A t \in Threads : CallInv(t) /\ \E d \in Depths : Nested(t, d)

(* The calls of a thread that takes no step stay as they are.              *)
LEMMA OthersNested ==
    ASSUME Types, Forward, StackInv, UNCHANGED super, NEW u \in Threads,
           at'[u] = at[u], target'[u] = target[u], inner'[u] = inner[u],
           outer'[u] = outer[u], phase'[u] = phase[u], ret'[u] = ret[u]
    PROVE  CallInv(u)' /\ \E d \in Depths : Nested(u, d)'
  <1>1. \A c \in Classes : Claimed(u, c)' <=> Claimed(u, c)
    BY DEF Claimed
  <1>2. \A c \in Classes : Ready(u, c) => Ready(u, c)'
    BY <1>1 DEF Ready, Forward, Settled
  <1>3. super \in [Classes -> Classes \cup {NoClass}]
        /\ inner \in [Threads -> Classes \cup {NoClass}]
        /\ outer \in [Threads -> [Classes -> Classes \cup {NoClass}]]
    BY DEF Types
  <1>4. CallInv(u)'
    <2>1. CallInv(u)
      BY DEF StackInv
    <2> QED BY <1>1, <1>2, <1>3, <2>1 DEF CallInv
  <1>5. PICK d \in Depths : Nested(u, d)
    BY DEF StackInv
  <1>6. Chain(u, d)'
    BY <1>1, <1>3, <1>5 DEF Nested, Chain
  <1>7. SuperFurtherOut(u, d)'
    BY <1>1, <1>3, <1>5 DEF Nested, SuperFurtherOut, Forward, Settled
  <1> QED BY <1>4, <1>5, <1>6, <1>7 DEF Nested

(* A step in the front half leaves the nesting as it is.                   *)
LEMMA FrontNested ==
    ASSUME Types, Types', Forward, NoClass \notin Classes, StackInv, UNCHANGED super,
           NEW t \in Threads,
           inner'[t] = inner[t], outer'[t] = outer[t], phase'[t] = phase[t],
           at'[t] # "back", at'[t] = "idle" => inner[t] = NoClass,
           \/ at[t] # "back" /\ target'[t] = target[t]
           \/ inner[t] = NoClass
           \/ phase[t][inner[t]] = "superDone" => target'[t] = super[inner[t]]
    PROVE  CallInv(t)' /\ \E d \in Depths : Nested(t, d)'
  <1>1. \A c \in Classes : Claimed(t, c)' <=> Claimed(t, c)
    BY DEF Claimed
  <1>3. super \in [Classes -> Classes \cup {NoClass}]
        /\ inner \in [Threads -> Classes \cup {NoClass}]
        /\ outer \in [Threads -> [Classes -> Classes \cup {NoClass}]]
    BY DEF Types
  <1>4. CallInv(t)'
    <2>1. CallInv(t)
      BY DEF StackInv
    <2> QED BY <1>1, <1>3, <2>1 DEF CallInv
  <1>5. PICK d \in Depths : Nested(t, d)
    BY DEF StackInv
  <1>6. Chain(t, d)'
    BY <1>1, <1>3, <1>5 DEF Nested, Chain
  <1>7. SuperFurtherOut(t, d)'
    BY <1>1, <1>3, <1>5 DEF Nested, SuperFurtherOut, Forward, Settled
  <1> QED BY <1>4, <1>5, <1>6, <1>7 DEF Nested

(* A step of the innermost back half; <clinit> starts with the superclass  *)
(* ready.                                                                  *)
LEMMA BackNested ==
    ASSUME Types, Types', Forward, NoClass \notin Classes, StackInv, UNCHANGED super,
           NEW t \in Threads, NEW c \in Classes, NEW p \in Phases \ {"none"},
           inner[t] = c, Claimed(t, c), inner'[t] = inner[t], outer'[t] = outer[t],
           phase'[t] = [phase[t] EXCEPT ![c] = p],
           p = "clinit" => super[c] = NoClass \/ Ready(t, super[c]),
           at'[t] # "idle",
           p = "superDone" => /\ super[c] # NoClass
                              /\ at'[t] # "back"
                              /\ target'[t] = super[c]
    PROVE  CallInv(t)' /\ \E d \in Depths : Nested(t, d)'
  <1> DEFINE Now(e) == phase'[t][e] # "none"
  <1>0. /\ super \in [Classes -> Classes \cup {NoClass}]
        /\ inner \in [Threads -> Classes \cup {NoClass}]
        /\ outer \in [Threads -> [Classes -> Classes \cup {NoClass}]]
        /\ phase \in [Threads -> [Classes -> Phases]]
        /\ \A e \in Classes : super[e] # e
    BY DEF Types, StackInv
  <1>1. \A e \in Classes : Now(e) <=> Claimed(t, e)
    BY <1>0 DEF Claimed
  <1>2. \A e \in Classes : e # c => phase'[t][e] = phase[t][e]
    BY <1>0
  <1>3. phase'[t][c] = p
    BY <1>0
  <1>5. PICK d \in Depths : Nested(t, d)
    BY DEF StackInv
  <1>6. \A e \in Classes : d[e] \in Nat
    BY <1>5 DEF Depths
  <1>7. Chain(t, d) /\ SuperFurtherOut(t, d)
    BY <1>5 DEF Nested
  <1>8. CallInv(t)'
    <2>1. CallInv(t)
      BY DEF StackInv
    <2>2. ASSUME NEW e \in Classes, e # c, phase'[t][e] = "superDone"
          PROVE  /\ super[e] # NoClass
                 /\ \A s \in Classes : Now(s) /\ outer'[t][s] = e => s = super[e]
      BY <1>0, <1>1, <1>2, <2>1, <2>2 DEF CallInv
    <2>3. \A s \in Classes : Claimed(t, s) => outer[t][s] # c
      BY <1>0, <1>6, <1>7 DEF Chain
    <2> QED BY <1>1, <1>3, <2>2, <2>3 DEF CallInv, Claimed
  <1>9. Chain(t, d)'
    BY <1>0, <1>1, <1>7 DEF Chain, Claimed
  <1>10. SuperFurtherOut(t, d)'
    <2>1. ASSUME NEW e \in Classes, e # c, phase'[t][e] = "clinit", super[e] # NoClass
          PROVE  status'[super[e]] = "initialized" \/ (Now(super[e]) /\ d[super[e]] < d[e])
      BY <1>0, <1>1, <1>2, <1>7, <2>1 DEF SuperFurtherOut, Forward, Settled
    <2>2. ASSUME p = "clinit", super[c] # NoClass
          PROVE  status'[super[c]] = "initialized" \/ (Now(super[c]) /\ d[super[c]] < d[c])
      <3>1. super[c] \in Classes /\ super[c] # c
        BY <1>0, <2>2
      <3>2. CASE status[super[c]] = "initialized"
        BY <3>1, <3>2 DEF Forward, Settled
      <3>3. CASE Claimed(t, super[c])
        BY <1>1, <1>7, <3>1, <3>3 DEF Chain
      <3> QED BY <2>2, <3>2, <3>3 DEF Ready
    <2> QED BY <1>3, <2>1, <2>2 DEF SuperFurtherOut, Claimed
  <1> QED BY <1>5, <1>8, <1>9, <1>10 DEF Nested

(* A thread claims one more class: it is the innermost now.                *)
LEMMA PublishNested ==
    ASSUME Types, Types', Forward, NoClass \notin Classes, StackInv, UNCHANGED super,
           NEW t \in Threads, NEW c \in Classes,
           target[t] = c, at[t] # "back", at'[t] = "back",
           ~Claimed(t, c), status[c] # "initialized",
           phase'[t] = [phase[t] EXCEPT ![c] = "super"],
           outer'[t] = [outer[t] EXCEPT ![c] = inner[t]], inner'[t] = c
    PROVE  CallInv(t)' /\ \E d \in Depths : Nested(t, d)'
  <1> DEFINE Now(e) == phase'[t][e] # "none"
  <1>0. /\ super \in [Classes -> Classes \cup {NoClass}]
        /\ inner \in [Threads -> Classes \cup {NoClass}]
        /\ outer \in [Threads -> [Classes -> Classes \cup {NoClass}]]
        /\ phase \in [Threads -> [Classes -> Phases]]
    BY DEF Types
  <1>1. \A e \in Classes : Now(e) <=> (Claimed(t, e) \/ e = c)
    BY <1>0 DEF Claimed
  <1>2. /\ \A e \in Classes : e # c => phase'[t][e] = phase[t][e] /\ outer'[t][e] = outer[t][e]
        /\ phase'[t][c] = "super" /\ outer'[t][c] = inner[t]
    BY <1>0
  <1>3. PICK d \in Depths : Nested(t, d)
    BY DEF StackInv
  <1>4. Chain(t, d) /\ SuperFurtherOut(t, d)
    BY <1>3 DEF Nested
  <1>5. CallInv(t)
    BY DEF StackInv
  <1>6. CallInv(t)'
    <2>1. ASSUME NEW e \in Classes, phase'[t][e] = "superDone"
          PROVE  /\ e # c /\ phase[t][e] = "superDone" /\ super[e] # NoClass
                 /\ \A s \in Classes : Now(s) /\ outer'[t][s] = e => s = super[e]
      BY <1>1, <1>2, <1>5, <2>1 DEF CallInv
    <2> QED BY <2>1 DEF CallInv, Claimed
  <1> DEFINE n == IF inner[t] = NoClass THEN 0 ELSE d[inner[t]] + 1
  <1>7. /\ n \in Nat /\ \A e \in Classes : d[e] \in Nat
        /\ inner[t] # NoClass => inner[t] \in Classes /\ inner[t] # c /\ n = d[inner[t]] + 1
    BY <1>0, <1>3, <1>4 DEF Depths, Chain
  <1> HIDE DEF n
  <1>8. PICK f \in Depths : f[c] = n /\ \A e \in Classes : e # c => f[e] = d[e]
    <2>1. /\ [d EXCEPT ![c] = n] \in Depths
          /\ [d EXCEPT ![c] = n][c] = n
          /\ \A e \in Classes : e # c => [d EXCEPT ![c] = n][e] = d[e]
      BY <1>3, <1>7 DEF Depths
    <2> QED BY <2>1
  <1>9. \A e \in Classes : Claimed(t, e) => inner[t] # NoClass /\ d[e] < n
    BY <1>0, <1>4, <1>7 DEF Chain
  <1>10. Chain(t, f)'
    <2>1. inner'[t] # NoClass /\ Now(inner'[t])
      BY <1>1
    <2>2. ASSUME NEW e \in Classes, Claimed(t, e), e # c
          PROVE  /\ f[e] < f[inner'[t]]
                 /\ outer[t][e] = NoClass => \A g \in Classes : Now(g) => f[e] <= f[g]
                 /\ outer[t][e] # NoClass =>
                      /\ outer[t][e] \in Classes /\ outer[t][e] # c
                      /\ Claimed(t, outer[t][e])
                      /\ f[outer[t][e]] < f[e]
                      /\ \A g \in Classes : Now(g) /\ f[g] < f[e] =>
                            g = outer[t][e] \/ f[g] < f[outer[t][e]]
      <3>1. d[e] < n /\ f[e] = d[e] /\ f[inner'[t]] = n
        BY <1>8, <1>9, <2>2
      <3>2. ASSUME outer[t][e] = NoClass, NEW g \in Classes, Now(g)
            PROVE  f[e] <= f[g]
        <4>1. CASE g = c
          BY <1>7, <1>8, <3>1, <4>1
        <4>2. CASE g # c
          BY <1>1, <1>4, <1>8, <2>2, <3>1, <3>2, <4>2 DEF Chain
        <4> QED BY <4>1, <4>2
      <3>3. ASSUME outer[t][e] # NoClass
            PROVE  /\ outer[t][e] \in Classes /\ outer[t][e] # c
                   /\ Claimed(t, outer[t][e]) /\ f[outer[t][e]] < f[e]
        BY <1>0, <1>4, <1>8, <2>2, <3>3 DEF Chain
      <3>4. ASSUME outer[t][e] # NoClass, NEW g \in Classes, Now(g), f[g] < f[e]
            PROVE  g = outer[t][e] \/ f[g] < f[outer[t][e]]
        <4>1. g # c
          BY <1>7, <1>8, <3>1, <3>4
        <4> QED BY <1>1, <1>4, <1>8, <2>2, <3>1, <3>3, <3>4, <4>1 DEF Chain
      <3> QED BY <3>1, <3>2, <3>3, <3>4
    <2>3. /\ outer'[t][c] = NoClass => \A g \in Classes : Now(g) => f[c] <= f[g]
          /\ outer'[t][c] # NoClass =>
               /\ Now(outer'[t][c])
               /\ f[outer'[t][c]] < f[c]
               /\ \A g \in Classes : Now(g) /\ f[g] < f[c] =>
                     g = outer'[t][c] \/ f[g] < f[outer'[t][c]]
      <3>1. ASSUME inner[t] = NoClass, NEW g \in Classes, Now(g) PROVE f[c] <= f[g]
        BY <1>1, <1>7, <1>8, <1>9, <3>1
      <3>2. ASSUME inner[t] # NoClass
            PROVE  Claimed(t, inner[t]) /\ f[inner[t]] = d[inner[t]] /\ d[inner[t]] < n
        BY <1>4, <1>7, <1>8, <3>2 DEF Chain
      <3>3. ASSUME inner[t] # NoClass, NEW g \in Classes, Now(g), f[g] < f[c]
            PROVE  g = inner[t] \/ f[g] < f[inner[t]]
        <4>1. g # c
          BY <1>7, <1>8, <3>3
        <4> QED BY <1>1, <1>4, <1>8, <3>2, <3>3, <4>1 DEF Chain
      <3>4. inner[t] # NoClass => Now(inner[t])
        BY <1>1, <1>7, <3>2
      <3> QED BY <1>2, <1>8, <3>1, <3>2, <3>3, <3>4
    <2>4. ASSUME NEW e \in Classes, e # c, outer[t][e] # NoClass, Claimed(t, e)
          PROVE  Now(outer[t][e])
      BY <1>1, <2>2, <2>4
    <2> QED BY <1>1, <1>2, <2>1, <2>2, <2>3, <2>4 DEF Chain, Claimed
  <1>11. SuperFurtherOut(t, f)'
    <2>1. ASSUME NEW e \in Classes, phase'[t][e] = "clinit", super[e] # NoClass
          PROVE  status'[super[e]] = "initialized" \/ (Now(super[e]) /\ f[super[e]] < f[e])
      <3>1. e # c /\ phase[t][e] = "clinit" /\ super[e] \in Classes
        BY <1>0, <1>2, <2>1
      <3>2. CASE status[super[e]] = "initialized"
        BY <3>1, <3>2 DEF Forward, Settled
      <3>3. CASE Claimed(t, super[e]) /\ d[super[e]] < d[e]
        BY <1>1, <1>8, <3>1, <3>3
      <3> QED BY <1>4, <2>1, <3>1, <3>2, <3>3 DEF SuperFurtherOut
    <2> QED BY <2>1 DEF SuperFurtherOut, Claimed
  <1> QED BY <1>6, <1>8, <1>10, <1>11 DEF Nested

(* The innermost back half ends: nobody further in relied on its claim.    *)
LEMMA PopNested ==
    ASSUME Types, Types', Forward, NoClass \notin Classes, StackInv, UNCHANGED super,
           NEW t \in Threads, NEW c \in Classes,
           inner[t] = c, Claimed(t, c), at'[t] = "return", target'[t] = c,
           phase'[t] = [phase[t] EXCEPT ![c] = "none"],
           outer'[t] = [outer[t] EXCEPT ![c] = NoClass], inner'[t] = outer[t][c]
    PROVE  CallInv(t)' /\ \E d \in Depths : Nested(t, d)'
  <1> DEFINE Now(e) == phase'[t][e] # "none"
  <1>0. /\ super \in [Classes -> Classes \cup {NoClass}]
        /\ inner \in [Threads -> Classes \cup {NoClass}]
        /\ outer \in [Threads -> [Classes -> Classes \cup {NoClass}]]
        /\ phase \in [Threads -> [Classes -> Phases]]
    BY DEF Types
  <1>1. \A e \in Classes : Now(e) <=> (Claimed(t, e) /\ e # c)
    BY <1>0 DEF Claimed
  <1>2. /\ \A e \in Classes : e # c => phase'[t][e] = phase[t][e] /\ outer'[t][e] = outer[t][e]
        /\ phase'[t][c] = "none" /\ outer'[t][c] = NoClass
    BY <1>0
  <1>3. PICK d \in Depths : Nested(t, d)
    BY DEF StackInv
  <1>4. Chain(t, d) /\ SuperFurtherOut(t, d) /\ \A e \in Classes : d[e] \in Nat
    BY <1>3 DEF Nested, Depths
  <1>5. CallInv(t)
    BY DEF StackInv
  <1>6. CallInv(t)'
    <2>1. ASSUME NEW e \in Classes, phase'[t][e] = "superDone"
          PROVE  /\ e # c /\ super[e] # NoClass
                 /\ \A s \in Classes : Now(s) /\ outer'[t][s] = e => s = super[e]
                 /\ inner'[t] = e => target'[t] = super[e]
      BY <1>1, <1>2, <1>5, <2>1 DEF CallInv
    <2> QED BY <2>1 DEF CallInv, Claimed
  <1>7. \A e \in Classes : Claimed(t, e) /\ e # c => d[e] < d[c]
    BY <1>4 DEF Chain
  <1>8. Chain(t, d)'
    <2>1. inner'[t] # NoClass => /\ inner'[t] \in Classes /\ inner'[t] # c
                                 /\ Claimed(t, inner'[t]) /\ d[inner'[t]] < d[c]
      BY <1>0, <1>4 DEF Chain
    <2>2. ASSUME NEW e \in Classes, Claimed(t, e), e # c
          PROVE  inner'[t] # NoClass /\ (e # inner'[t] => d[e] < d[inner'[t]])
      BY <1>4, <1>7, <2>1, <2>2 DEF Chain
    <2>3. ASSUME NEW e \in Classes, Claimed(t, e), e # c, outer[t][e] # NoClass
          PROVE  outer[t][e] \in Classes /\ outer[t][e] # c /\ Claimed(t, outer[t][e])
      BY <1>0, <1>4, <1>7, <2>3 DEF Chain
    <2>4. ASSUME NEW e \in Classes, Claimed(t, e), e # c
          PROVE  /\ outer[t][e] = NoClass => \A g \in Classes : Now(g) => d[e] <= d[g]
                 /\ outer[t][e] # NoClass =>
                      /\ Now(outer[t][e])
                      /\ d[outer[t][e]] < d[e]
                      /\ \A g \in Classes : Now(g) /\ d[g] < d[e] =>
                            g = outer[t][e] \/ d[g] < d[outer[t][e]]
      BY <1>1, <1>4, <2>3, <2>4 DEF Chain
    <2>5. inner'[t] # NoClass => Now(inner'[t])
      BY <1>1, <2>1
    <2> QED BY <1>1, <1>2, <2>2, <2>4, <2>5 DEF Chain, Claimed
  <1>9. SuperFurtherOut(t, d)'
    <2>1. ASSUME NEW e \in Classes, phase'[t][e] = "clinit", super[e] # NoClass
          PROVE  status'[super[e]] = "initialized" \/ (Now(super[e]) /\ d[super[e]] < d[e])
      <3>1. e # c /\ phase[t][e] = "clinit" /\ super[e] \in Classes /\ Claimed(t, e)
        BY <1>0, <1>2, <2>1 DEF Claimed
      <3>2. CASE status[super[e]] = "initialized"
        BY <3>1, <3>2 DEF Forward, Settled
      <3>3. CASE Claimed(t, super[e]) /\ d[super[e]] < d[e]
        <4>1. super[e] # c
          BY <1>4, <1>7, <3>1, <3>3
        <4> QED BY <1>1, <3>1, <3>3, <4>1
      <3> QED BY <1>4, <2>1, <3>1, <3>2, <3>3 DEF SuperFurtherOut
    <2> QED BY <2>1 DEF SuperFurtherOut, Claimed
  <1> QED BY <1>3, <1>6, <1>8, <1>9 DEF Nested

(* Every step keeps the nesting.                                           *)
LEMMA StackNext ==
    ASSUME Inv, StackInv, [Next]_vars
    PROVE  StackInv'
  <1>0. /\ Types /\ Types' /\ Forward /\ InitInv /\ NoClass \notin Classes
        /\ at \in [Threads -> Front] /\ target \in [Threads -> Classes \cup {NoClass}]
        /\ inner \in [Threads -> Classes \cup {NoClass}]
        /\ outer \in [Threads -> [Classes -> Classes \cup {NoClass}]]
        /\ phase \in [Threads -> [Classes -> Phases]]
        /\ ret \in [Threads -> Verdicts]
        /\ super \in [Classes -> Classes \cup {NoClass}]
    BY InvNext, ClassInitAssumption DEF Inv, Types
  <1>s. ASSUME UNCHANGED super, NEW t \in Threads,
               \A u \in Threads : u # t => /\ at'[u] = at[u] /\ target'[u] = target[u]
                                           /\ inner'[u] = inner[u] /\ outer'[u] = outer[u]
                                           /\ phase'[u] = phase[u] /\ ret'[u] = ret[u],
               CallInv(t)' /\ \E d \in Depths : Nested(t, d)'
        PROVE  StackInv'
    <2>1. ASSUME NEW u \in Threads PROVE CallInv(u)' /\ \E d \in Depths : Nested(u, d)'
      <3>1. CASE u # t
        BY <1>0, <1>s, <3>1, OthersNested
      <3> QED BY <1>s, <3>1
    <2>2. \A c \in Classes : super'[c] # c
      BY <1>s DEF StackInv
    <2> QED BY <2>1, <2>2 DEF StackInv
  <1>1. CASE UNCHANGED vars
    <2>1. ASSUME NEW u \in Threads PROVE CallInv(u)' /\ \E d \in Depths : Nested(u, d)'
      BY <1>0, <1>1, OthersNested DEF vars, codeVars, frontVars, backVars
    <2>2. \A c \in Classes : super'[c] # c
      BY <1>1 DEF StackInv, vars, codeVars
    <2> QED BY <2>1, <2>2 DEF StackInv

  <1>2. ASSUME NEW t \in Threads, WakeEarly(t) PROVE StackInv'
    <2>1. /\ UNCHANGED super
          /\ \A u \in Threads : u # t => /\ at'[u] = at[u] /\ target'[u] = target[u]
                                              /\ inner'[u] = inner[u] /\ outer'[u] = outer[u]
                                              /\ phase'[u] = phase[u] /\ ret'[u] = ret[u]
      BY <1>0, <1>2 DEF WakeEarly, codeVars, frontVars, backVars, histVars,
        Goto, Lock, Unlock, SetStatus, SetPhase, Call
    <2>2. /\ inner'[t] = inner[t] /\ outer'[t] = outer[t] /\ phase'[t] = phase[t]
          /\ at[t] \notin {"idle", "back"} /\ at'[t] \notin {"idle", "back"}
          /\ target'[t] = target[t]
      BY <1>0, <1>2 DEF WakeEarly, codeVars, frontVars, backVars, histVars,
        Goto, Lock, Unlock, SetStatus, SetPhase, Call
    <2>9. CallInv(t)' /\ \E d \in Depths : Nested(t, d)'
      BY <1>0, <2>1, <2>2, FrontNested
    <2> QED BY <1>s, <2>1, <2>9
  <1>3. ASSUME NEW t \in Threads, Enter(t) PROVE StackInv'
    <2>1. /\ UNCHANGED super
          /\ \A u \in Threads : u # t => /\ at'[u] = at[u] /\ target'[u] = target[u]
                                              /\ inner'[u] = inner[u] /\ outer'[u] = outer[u]
                                              /\ phase'[u] = phase[u] /\ ret'[u] = ret[u]
      BY <1>0, <1>3 DEF Enter, codeVars, frontVars, backVars, histVars, Goto,
        Lock, Unlock, SetStatus, SetPhase, Call
    <2>2. /\ inner'[t] = inner[t] /\ outer'[t] = outer[t] /\ phase'[t] = phase[t]
          /\ at[t] \notin {"idle", "back"} /\ at'[t] \notin {"idle", "back"}
          /\ target'[t] = target[t]
      BY <1>0, <1>3 DEF Enter, codeVars, frontVars, backVars, histVars, Goto,
        Lock, Unlock, SetStatus, SetPhase, Call
    <2>9. CallInv(t)' /\ \E d \in Depths : Nested(t, d)'
      BY <1>0, <2>1, <2>2, FrontNested
    <2> QED BY <1>s, <2>1, <2>9
  <1>4. ASSUME NEW t \in Threads, Verify(t) PROVE StackInv'
    <2>1. /\ UNCHANGED super
          /\ \A u \in Threads : u # t => /\ at'[u] = at[u] /\ target'[u] = target[u]
                                              /\ inner'[u] = inner[u] /\ outer'[u] = outer[u]
                                              /\ phase'[u] = phase[u] /\ ret'[u] = ret[u]
      BY <1>0, <1>4 DEF Verify, codeVars, frontVars, backVars, histVars, Goto,
        Lock, Unlock, SetStatus, SetPhase, Call
    <2>2. /\ inner'[t] = inner[t] /\ outer'[t] = outer[t] /\ phase'[t] = phase[t]
          /\ at[t] \notin {"idle", "back"} /\ at'[t] \notin {"idle", "back"}
          /\ target'[t] = target[t]
      BY <1>0, <1>4 DEF Verify, codeVars, frontVars, backVars, histVars, Goto,
        Lock, Unlock, SetStatus, SetPhase, Call
    <2>9. CallInv(t)' /\ \E d \in Depths : Nested(t, d)'
      BY <1>0, <2>1, <2>2, FrontNested
    <2> QED BY <1>s, <2>1, <2>9
  <1>5. ASSUME NEW t \in Threads, Answer(t) PROVE StackInv'
    <2>1. /\ UNCHANGED super
          /\ \A u \in Threads : u # t => /\ at'[u] = at[u] /\ target'[u] = target[u]
                                              /\ inner'[u] = inner[u] /\ outer'[u] = outer[u]
                                              /\ phase'[u] = phase[u] /\ ret'[u] = ret[u]
      BY <1>0, <1>5 DEF Answer, codeVars, frontVars, backVars, histVars, Goto,
        Lock, Unlock, SetStatus, SetPhase, Call
    <2>2. /\ inner'[t] = inner[t] /\ outer'[t] = outer[t] /\ phase'[t] = phase[t]
          /\ at[t] \notin {"idle", "back"} /\ at'[t] \notin {"idle", "back"}
          /\ target'[t] = target[t]
      BY <1>0, <1>5 DEF Answer, codeVars, frontVars, backVars, histVars, Goto,
        Lock, Unlock, SetStatus, SetPhase, Call
    <2>9. CallInv(t)' /\ \E d \in Depths : Nested(t, d)'
      BY <1>0, <2>1, <2>2, FrontNested
    <2> QED BY <1>s, <2>1, <2>9
  <1>6. ASSUME NEW t \in Threads, Wait(t) PROVE StackInv'
    <2>1. /\ UNCHANGED super
          /\ \A u \in Threads : u # t => /\ at'[u] = at[u] /\ target'[u] = target[u]
                                              /\ inner'[u] = inner[u] /\ outer'[u] = outer[u]
                                              /\ phase'[u] = phase[u] /\ ret'[u] = ret[u]
      BY <1>0, <1>6 DEF Wait, codeVars, frontVars, backVars, histVars, Goto,
        Lock, Unlock, SetStatus, SetPhase, Call
    <2>2. /\ inner'[t] = inner[t] /\ outer'[t] = outer[t] /\ phase'[t] = phase[t]
          /\ at[t] \notin {"idle", "back"} /\ at'[t] \notin {"idle", "back"}
          /\ target'[t] = target[t]
      BY <1>0, <1>6 DEF Wait, codeVars, frontVars, backVars, histVars, Goto,
        Lock, Unlock, SetStatus, SetPhase, Call
    <2>9. CallInv(t)' /\ \E d \in Depths : Nested(t, d)'
      BY <1>0, <2>1, <2>2, FrontNested
    <2> QED BY <1>s, <2>1, <2>9
  <1>7. ASSUME NEW t \in Threads, Relock(t) PROVE StackInv'
    <2>1. /\ UNCHANGED super
          /\ \A u \in Threads : u # t => /\ at'[u] = at[u] /\ target'[u] = target[u]
                                              /\ inner'[u] = inner[u] /\ outer'[u] = outer[u]
                                              /\ phase'[u] = phase[u] /\ ret'[u] = ret[u]
      BY <1>0, <1>7 DEF Relock, codeVars, frontVars, backVars, histVars, Goto,
        Lock, Unlock, SetStatus, SetPhase, Call
    <2>2. /\ inner'[t] = inner[t] /\ outer'[t] = outer[t] /\ phase'[t] = phase[t]
          /\ at[t] \notin {"idle", "back"} /\ at'[t] \notin {"idle", "back"}
          /\ target'[t] = target[t]
      BY <1>0, <1>7 DEF Relock, codeVars, frontVars, backVars, histVars, Goto,
        Lock, Unlock, SetStatus, SetPhase, Call
    <2>9. CallInv(t)' /\ \E d \in Depths : Nested(t, d)'
      BY <1>0, <2>1, <2>2, FrontNested
    <2> QED BY <1>s, <2>1, <2>9
  <1>8. ASSUME NEW t \in Threads, Recheck(t) PROVE StackInv'
    <2>1. /\ UNCHANGED super
          /\ \A u \in Threads : u # t => /\ at'[u] = at[u] /\ target'[u] = target[u]
                                              /\ inner'[u] = inner[u] /\ outer'[u] = outer[u]
                                              /\ phase'[u] = phase[u] /\ ret'[u] = ret[u]
      BY <1>0, <1>8 DEF Recheck, codeVars, frontVars, backVars, histVars, Goto,
        Lock, Unlock, SetStatus, SetPhase, Call
    <2>2. /\ inner'[t] = inner[t] /\ outer'[t] = outer[t] /\ phase'[t] = phase[t]
          /\ at[t] \notin {"idle", "back"} /\ at'[t] \notin {"idle", "back"}
          /\ target'[t] = target[t]
      BY <1>0, <1>8 DEF Recheck, codeVars, frontVars, backVars, histVars, Goto,
        Lock, Unlock, SetStatus, SetPhase, Call
    <2>9. CallInv(t)' /\ \E d \in Depths : Nested(t, d)'
      BY <1>0, <2>1, <2>2, FrontNested
    <2> QED BY <1>s, <2>1, <2>9
  <1>9. ASSUME NEW t \in Threads, Claim(t) PROVE StackInv'
    <2>1. /\ UNCHANGED super
          /\ \A u \in Threads : u # t => /\ at'[u] = at[u] /\ target'[u] = target[u]
                                              /\ inner'[u] = inner[u] /\ outer'[u] = outer[u]
                                              /\ phase'[u] = phase[u] /\ ret'[u] = ret[u]
      BY <1>0, <1>9 DEF Claim, codeVars, frontVars, backVars, histVars, Goto,
        Lock, Unlock, SetStatus, SetPhase, Call
    <2>2. /\ inner'[t] = inner[t] /\ outer'[t] = outer[t] /\ phase'[t] = phase[t]
          /\ at[t] \notin {"idle", "back"} /\ at'[t] \notin {"idle", "back"}
          /\ target'[t] = target[t]
      BY <1>0, <1>9 DEF Claim, codeVars, frontVars, backVars, histVars, Goto,
        Lock, Unlock, SetStatus, SetPhase, Call
    <2>9. CallInv(t)' /\ \E d \in Depths : Nested(t, d)'
      BY <1>0, <2>1, <2>2, FrontNested
    <2> QED BY <1>s, <2>1, <2>9
  <1>10. ASSUME NEW t \in Threads, NEW c \in Classes, Ask(t, c) PROVE StackInv'
    <2>1. /\ UNCHANGED super
          /\ \A u \in Threads : u # t => /\ at'[u] = at[u] /\ target'[u] = target[u]
                                              /\ inner'[u] = inner[u] /\ outer'[u] = outer[u]
                                              /\ phase'[u] = phase[u] /\ ret'[u] = ret[u]
      BY <1>0, <1>10 DEF Ask, codeVars, frontVars, backVars, histVars, Goto,
        Lock, Unlock, SetStatus, SetPhase, Call
    <2>2. /\ inner'[t] = inner[t] /\ outer'[t] = outer[t] /\ phase'[t] = phase[t]
          /\ at[t] = "idle" /\ at'[t] = "enter"
      BY <1>0, <1>10 DEF Ask, codeVars, frontVars, backVars, histVars, Goto,
        Lock, Unlock, SetStatus, SetPhase, Call
    <2>3. inner[t] = NoClass
      BY <2>2 DEF StackInv, CallInv
    <2>9. CallInv(t)' /\ \E d \in Depths : Nested(t, d)'
      BY <1>0, <2>1, <2>2, <2>3, FrontNested
    <2> QED BY <1>s, <2>1, <2>9
  <1>11. ASSUME NEW t \in Threads, Publish(t) PROVE StackInv'
    <2>1. /\ UNCHANGED super
          /\ \A u \in Threads : u # t => /\ at'[u] = at[u] /\ target'[u] = target[u]
                                              /\ inner'[u] = inner[u] /\ outer'[u] = outer[u]
                                              /\ phase'[u] = phase[u] /\ ret'[u] = ret[u]
      BY <1>0, <1>11 DEF Publish, codeVars, frontVars, backVars, histVars,
        Goto, Lock, Unlock, SetStatus, SetPhase, Call
    <2>2. /\ target[t] \in Classes /\ status[target[t]] = "verified" /\ ~Claimed(t, target[t])
      <3>1. PlaceInv(t) /\ at[t] = "publish"
        BY <1>0, <1>11 DEF Publish, InitInv
      <3>2. target[t] \in Classes /\ status[target[t]] = "verified"
        BY <3>1 DEF PlaceInv
      <3>3. ClaimInv(t, target[t]) /\ phase[t][target[t]] \in Phases
        BY <1>0, <3>2 DEF InitInv
      <3> QED BY <3>2, <3>3 DEF ClaimInv, Claimed, Settled, Phases
    <2>3. PICK c \in Classes : c = target[t]
      BY <2>2
    <2>4. /\ at[t] = "publish" /\ at'[t] = "back" /\ inner'[t] = c
          /\ outer'[t] = [outer[t] EXCEPT ![c] = inner[t]]
          /\ phase'[t] = [phase[t] EXCEPT ![c] = "super"]
      BY <1>0, <2>3, <1>11 DEF Publish, codeVars, frontVars, backVars,
        histVars, Goto, Lock, Unlock, SetStatus, SetPhase, Call
    <2>9. CallInv(t)' /\ \E d \in Depths : Nested(t, d)'
      BY <1>0, <2>1, <2>2, <2>3, <2>4, PublishNested
    <2> QED BY <1>s, <2>1, <2>9
  <1>12. ASSUME NEW t \in Threads, Return(t) PROVE StackInv'
    <2>1. /\ UNCHANGED super
          /\ \A u \in Threads : u # t => /\ at'[u] = at[u] /\ target'[u] = target[u]
                                              /\ inner'[u] = inner[u] /\ outer'[u] = outer[u]
                                              /\ phase'[u] = phase[u] /\ ret'[u] = ret[u]
      BY <1>0, <1>12 DEF Return, codeVars, frontVars, backVars, histVars, Goto,
        Lock, Unlock, SetStatus, SetPhase, Call
    <2>2. /\ inner'[t] = inner[t] /\ outer'[t] = outer[t] /\ phase'[t] = phase[t]
          /\ at[t] = "return" /\ at'[t] = (IF inner[t] = NoClass THEN "idle" ELSE "back")
          /\ UNCHANGED status
          /\ ret'[t] = "true" => inner[t] # NoClass /\ status[target[t]] # "error"
      BY <1>0, <1>12 DEF Return, Verdict, Verdicts, codeVars, backVars, Goto
    <2>3. target[t] \in Classes /\ (Settled(target[t]) \/ Claimed(t, target[t]))
      BY <1>0, <2>2 DEF InitInv, PlaceInv
    <2>4. CallInv(t)'
      <3>1. CallInv(t)
        BY DEF StackInv
      <3>2. ASSUME NEW c \in Classes, phase[t][c] = "superDone", inner[t] = c, ret'[t] = "true"
            PROVE  status'[super[c]] = "initialized" \/ phase'[t][super[c]] # "none"
        <4>1. target[t] = super[c]
          BY <2>2, <3>1, <3>2 DEF CallInv
        <4> QED BY <2>2, <2>3, <3>2, <4>1 DEF Settled, Claimed
      <3> QED BY <1>0, <2>1, <2>2, <3>1, <3>2 DEF CallInv, Ready, Claimed
    <2>5. PICK d \in Depths : Nested(t, d)
      BY DEF StackInv
    <2>6. Nested(t, d)'
      BY <1>0, <2>1, <2>2, <2>5 DEF Nested, Chain, SuperFurtherOut, Claimed
    <2> QED BY <1>s, <2>1, <2>4, <2>5, <2>6
  <1>13. ASSUME NEW t \in Threads, NEW c \in Classes, InitSuper(t, c) PROVE StackInv'
    <2>1. /\ UNCHANGED super
          /\ \A u \in Threads : u # t => /\ at'[u] = at[u] /\ target'[u] = target[u]
                                              /\ inner'[u] = inner[u] /\ outer'[u] = outer[u]
                                              /\ phase'[u] = phase[u] /\ ret'[u] = ret[u]
      BY <1>0, <1>13 DEF InitSuper, Running, StartClinit, codeVars, frontVars,
        backVars, histVars, Goto, Lock, Unlock, SetStatus, SetPhase, Call
    <2>2. /\ inner[t] = c /\ Claimed(t, c) /\ at[t] = "back"
          /\ inner'[t] = inner[t] /\ outer'[t] = outer[t]
      BY <1>0, <1>13 DEF InitSuper, Running, Claimed
    <2>3. CASE SuperReady(c)
      <3>1. phase'[t] = [phase[t] EXCEPT ![c] = "clinit"] /\ at'[t] = "back"
        BY <1>0, <2>2, <2>3, <1>13 DEF InitSuper, Running, StartClinit,
          codeVars, frontVars, backVars, histVars, Goto, Lock, Unlock,
          SetStatus, SetPhase, Call
      <3>2. super[c] = NoClass \/ Ready(t, super[c])
        BY <2>3 DEF SuperReady, Ready
      <3>9. CallInv(t)' /\ \E d \in Depths : Nested(t, d)'
        BY <1>0, <2>1, <2>2, <3>1, <3>2, BackNested DEF Phases
      <3> QED BY <1>s, <2>1, <3>9
    <2>4. CASE ~SuperReady(c)
      <3>1. /\ phase'[t] = [phase[t] EXCEPT ![c] = "superDone"] /\ at'[t] = "enter"
            /\ target'[t] = super[c] /\ super[c] # NoClass
        BY <1>0, <2>4, <1>13 DEF InitSuper, Running, StartClinit, codeVars,
          frontVars, backVars, histVars, Goto, Lock, Unlock, SetStatus,
          SetPhase, Call, SuperReady
      <3>9. CallInv(t)' /\ \E d \in Depths : Nested(t, d)'
        BY <1>0, <2>1, <2>2, <3>1, BackNested DEF Phases
      <3> QED BY <1>s, <2>1, <3>9
    <2> QED BY <2>3, <2>4
  <1>14. ASSUME NEW t \in Threads, NEW c \in Classes, SuperReturned(t, c) PROVE StackInv'
    <2>1. /\ UNCHANGED super
          /\ \A u \in Threads : u # t => /\ at'[u] = at[u] /\ target'[u] = target[u]
                                              /\ inner'[u] = inner[u] /\ outer'[u] = outer[u]
                                              /\ phase'[u] = phase[u] /\ ret'[u] = ret[u]
      BY <1>0, <1>14 DEF SuperReturned, Running, StartClinit, codeVars,
        frontVars, backVars, histVars, Goto, Lock, Unlock, SetStatus, SetPhase,
        Call
    <2>2. /\ inner[t] = c /\ Claimed(t, c) /\ at[t] = "back" /\ at'[t] = "back"
          /\ inner'[t] = inner[t] /\ outer'[t] = outer[t] /\ phase[t][c] = "superDone"
      BY <1>0, <1>14 DEF SuperReturned, Running, Claimed, frontVars
    <2>3. CASE ret[t] = "true"
      <3>1. phase'[t] = [phase[t] EXCEPT ![c] = "clinit"]
        BY <1>0, <2>3, <1>14 DEF SuperReturned, Running, StartClinit, codeVars,
          frontVars, backVars, histVars, Goto, Lock, Unlock, SetStatus,
          SetPhase, Call
      <3>2. Ready(t, super[c])
        BY <2>2, <2>3 DEF StackInv, CallInv
      <3>9. CallInv(t)' /\ \E d \in Depths : Nested(t, d)'
        BY <1>0, <2>1, <2>2, <3>1, <3>2, BackNested DEF Phases
      <3> QED BY <1>s, <2>1, <3>9
    <2>4. CASE ret[t] # "true"
      <3>1. phase'[t] = [phase[t] EXCEPT ![c] = "failed"]
        BY <1>0, <2>4, <1>14 DEF SuperReturned, Running, StartClinit, codeVars,
          frontVars, backVars, histVars, Goto, Lock, Unlock, SetStatus,
          SetPhase, Call
      <3>9. CallInv(t)' /\ \E d \in Depths : Nested(t, d)'
        BY <1>0, <2>1, <2>2, <3>1, BackNested DEF Phases
      <3> QED BY <1>s, <2>1, <3>9
    <2> QED BY <2>3, <2>4
  <1>15. ASSUME NEW t \in Threads, NEW c \in Classes, NEW e \in Classes, Use(t, c, e) PROVE StackInv'
    <2>1. /\ UNCHANGED super
          /\ \A u \in Threads : u # t => /\ at'[u] = at[u] /\ target'[u] = target[u]
                                              /\ inner'[u] = inner[u] /\ outer'[u] = outer[u]
                                              /\ phase'[u] = phase[u] /\ ret'[u] = ret[u]
      BY <1>0, <1>15 DEF Use, Running, codeVars, frontVars, backVars, histVars,
        Goto, Lock, Unlock, SetStatus, SetPhase, Call
    <2>2. /\ inner[t] = c /\ phase[t][c] = "clinit" /\ at'[t] = "enter"
          /\ inner'[t] = inner[t] /\ outer'[t] = outer[t] /\ phase'[t] = phase[t]
      BY <1>0, <1>15 DEF Use, Running, codeVars, frontVars, backVars, histVars,
        Goto, Lock, Unlock, SetStatus, SetPhase, Call
    <2>9. CallInv(t)' /\ \E d \in Depths : Nested(t, d)'
      BY <1>0, <2>1, <2>2, FrontNested
    <2> QED BY <1>s, <2>1, <2>9
  <1>16. ASSUME NEW t \in Threads, NEW c \in Classes, UseReturned(t, c) PROVE StackInv'
    <2>1. /\ UNCHANGED super
          /\ \A u \in Threads : u # t => /\ at'[u] = at[u] /\ target'[u] = target[u]
                                              /\ inner'[u] = inner[u] /\ outer'[u] = outer[u]
                                              /\ phase'[u] = phase[u] /\ ret'[u] = ret[u]
      BY <1>0, <1>16 DEF UseReturned, Running, codeVars, frontVars, backVars,
        histVars, Goto, Lock, Unlock, SetStatus, SetPhase, Call
    <2>2. /\ inner[t] = c /\ Claimed(t, c) /\ at'[t] = "back" /\ phase[t][c] = "clinit"
          /\ inner'[t] = inner[t] /\ outer'[t] = outer[t] /\ phase'[t] = phase[t]
      BY <1>0, <1>16 DEF UseReturned, Running, codeVars, frontVars, backVars,
        histVars, Goto, Lock, Unlock, SetStatus, SetPhase, Call, Claimed
    <2>3. phase'[t] = [phase[t] EXCEPT ![c] = "clinit"]
      BY <1>0, <2>2
    <2>4. super[c] = NoClass \/ Ready(t, super[c])
      <3>1. PICK d \in Depths : Nested(t, d)
        BY DEF StackInv
      <3> QED BY <2>2, <3>1 DEF Nested, SuperFurtherOut, Ready
    <2>5. PICK p \in Phases \ {"none"} : /\ phase'[t] = [phase[t] EXCEPT ![c] = p]
                                       /\ p # "superDone" /\ at'[t] # "idle"
      BY <2>2, <2>3 DEF Phases
    <2>9. CallInv(t)' /\ \E d \in Depths : Nested(t, d)'
      BY <1>0, <2>1, <2>2, <2>4, <2>5, BackNested
    <2> QED BY <1>s, <2>1, <2>9
  <1>17. ASSUME NEW t \in Threads, NEW c \in Classes, ClinitReturned(t, c) PROVE StackInv'
    <2>1. /\ UNCHANGED super
          /\ \A u \in Threads : u # t => /\ at'[u] = at[u] /\ target'[u] = target[u]
                                              /\ inner'[u] = inner[u] /\ outer'[u] = outer[u]
                                              /\ phase'[u] = phase[u] /\ ret'[u] = ret[u]
      BY <1>0, <1>17 DEF ClinitReturned, Running, codeVars, frontVars,
        backVars, histVars, Goto, Lock, Unlock, SetStatus, SetPhase, Call
    <2>2. /\ inner[t] = c /\ Claimed(t, c) /\ at'[t] = "back"
          /\ inner'[t] = inner[t] /\ outer'[t] = outer[t]
      BY <1>0, <1>17 DEF ClinitReturned, Running, codeVars, frontVars,
        backVars, histVars, Goto, Lock, Unlock, SetStatus, SetPhase, Call,
        Claimed
    <2>3. PICK p \in Phases \ {"none", "clinit", "superDone"} :
             phase'[t] = [phase[t] EXCEPT ![c] = p]
      BY <1>0, <1>17 DEF ClinitReturned, Running, codeVars, frontVars,
        backVars, histVars, Goto, Lock, Unlock, SetStatus, SetPhase, Call,
        Phases
    <2>9. CallInv(t)' /\ \E d \in Depths : Nested(t, d)'
      BY <1>0, <2>1, <2>2, <2>3, BackNested
    <2> QED BY <1>s, <2>1, <2>9
  <1>18. ASSUME NEW t \in Threads, NEW c \in Classes, Settle(t, c) PROVE StackInv'
    <2>1. /\ UNCHANGED super
          /\ \A u \in Threads : u # t => /\ at'[u] = at[u] /\ target'[u] = target[u]
                                              /\ inner'[u] = inner[u] /\ outer'[u] = outer[u]
                                              /\ phase'[u] = phase[u] /\ ret'[u] = ret[u]
      BY <1>0, <1>18 DEF Settle, Running, codeVars, frontVars, backVars,
        histVars, Goto, Lock, Unlock, SetStatus, SetPhase, Call
    <2>2. /\ inner[t] = c /\ Claimed(t, c) /\ at'[t] = "back"
          /\ inner'[t] = inner[t] /\ outer'[t] = outer[t]
      BY <1>0, <1>18 DEF Settle, Running, codeVars, frontVars, backVars,
        histVars, Goto, Lock, Unlock, SetStatus, SetPhase, Call, Claimed
    <2>3. PICK p \in Phases \ {"none", "clinit", "superDone"} :
             phase'[t] = [phase[t] EXCEPT ![c] = p]
      BY <1>0, <1>18 DEF Settle, Running, codeVars, frontVars, backVars,
        histVars, Goto, Lock, Unlock, SetStatus, SetPhase, Call, Phases
    <2>9. CallInv(t)' /\ \E d \in Depths : Nested(t, d)'
      BY <1>0, <2>1, <2>2, <2>3, BackNested
    <2> QED BY <1>s, <2>1, <2>9
  <1>19. ASSUME NEW t \in Threads, NEW c \in Classes, Notify(t, c) PROVE StackInv'
    <2>1. /\ UNCHANGED super
          /\ \A u \in Threads : u # t => /\ at'[u] = at[u] /\ target'[u] = target[u]
                                              /\ inner'[u] = inner[u] /\ outer'[u] = outer[u]
                                              /\ phase'[u] = phase[u] /\ ret'[u] = ret[u]
      BY <1>0, <1>19 DEF Notify, Running, Popped, codeVars, frontVars,
        backVars, histVars, Goto, Lock, Unlock, SetStatus, SetPhase, Call
    <2>2. /\ inner[t] = c /\ Claimed(t, c) /\ at'[t] = "return" /\ target'[t] = c
          /\ phase'[t] = [phase[t] EXCEPT ![c] = "none"] /\ inner'[t] = outer[t][c]
          /\ outer'[t] = [outer[t] EXCEPT ![c] = NoClass]
      BY <1>0, <1>19 DEF Notify, Running, Popped, codeVars, frontVars,
        backVars, histVars, Goto, Lock, Unlock, SetStatus, SetPhase, Call,
        Claimed
    <2>9. CallInv(t)' /\ \E d \in Depths : Nested(t, d)'
      BY <1>0, <2>1, <2>2, PopNested
    <2> QED BY <1>s, <2>1, <2>9
  <1> QED BY <1>1, <1>2, <1>3, <1>4, <1>5, <1>6, <1>7, <1>8, <1>9, <1>10,
    <1>11, <1>12, <1>13, <1>14, <1>15, <1>16, <1>17, <1>18, <1>19 DEF Next,
    Proceed

(* A class that is its own superclass has no rank.                         *)
LEMMA StackInit == Init => StackInv
  <1> SUFFICES ASSUME Init PROVE StackInv
    OBVIOUS
  <1>1. \A c \in Classes : super[c] # c
    <2>1. PICK rank \in Rank : \A c \in Classes :
             super[c] # NoClass => rank[super[c]] < rank[c]
      BY DEF Init, SuperAcyclic
    <2>2. \A c \in Classes : rank[c] \in 1..Cardinality(Classes)
      BY <2>1 DEF Rank
    <2> QED BY <2>1, <2>2, ClassInitAssumption
  <1>2. [c \in Classes |-> 0] \in Depths
    BY DEF Depths
  <1>3. ASSUME NEW t \in Threads
        PROVE  CallInv(t) /\ Nested(t, [c \in Classes |-> 0])
    BY DEF Init, CallInv, Nested, Chain, SuperFurtherOut, Claimed
  <1> QED BY <1>1, <1>2, <1>3 DEF StackInv

(* The <clinit> of a class starts after that of its superclass, or inside  *)
(* the initialization of the superclass by the same thread.                *)
THEOREM ClinitOrder == Spec => []ClinitAfterSuper
  <1>1. Inv /\ StackInv /\ [Next]_vars => StackInv'
    BY StackNext
  <1>2. StackInv => ClinitAfterSuper
    BY DEF StackInv, Nested, SuperFurtherOut, ClinitAfterSuper
  <1> QED BY <1>1, <1>2, StackInit, InvAlways, PTL DEF Spec

=============================================================================
