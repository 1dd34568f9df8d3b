------------------------ MODULE ConcurrentGcProofs ------------------------
(* Theorems about ConcurrentGc, for any heap, any number of threads and    *)
(* words and cards of any size.  After the locks (ConcurrentGcLocks), the  *)
(* rest of the inductive invariant, part by part: the heap, the marks, the *)
(* sweep, the three colours of concurrent marking, references, roots and   *)
(* what a full collection leaves.                                          *)
EXTENDS ConcurrentGcLocks

(* What the program can get at lies in live objects.                       *)
HeapInv ==
    /\ live \subseteq inUse
    /\ finList \subseteq live
    /\ \A t \in Threads : reg[t] \subseteq live
    /\ weakTable \subseteq live
    /\ \A o \in live, f \in Fields : field[o][f] \in live \cup {Null}
    /\ \A o \in live : referent[o] \in live \cup {Null}

(* Free chunks and reference objects hold nothing they should not.         *)
BlankInv ==
    /\ \A o \in Objects \ inUse : referent[o] = Null /\ \A f \in Fields : field[o][f] = Null
    /\ \A o \in Refs, f \in Fields : f \notin FieldsOf(o) => field[o][f] = Null
    /\ \A o \in Objects : referent[o] # Null => o \in Refs
    /\ \A o \in Objects, f \in Fields : field[o][f] \notin Final
    /\ \A o \in Objects : referent[o] \notin Final
    /\ \A t \in Threads : reg[t] \cap Final = {}
    /\ weakTable \subseteq Interned

(* The phases in which no object is marked,                                *)
Unmarked == {"idle", "suspend", "roots", "lock3", "done"}

(* those from the first marking of the roots to the second one,            *)
Early == {"unlock", "resume", "walk", "trace", "lock", "suspend2", "reroots"}

(* and those in which the mark bits grow.                                  *)
Marking == Early \cup Remarked

(* What each phase of the collection has in its hands.                     *)
StageInv ==
    /\ phase \in Unmarked => mark = {} /\ finger = 0
    /\ phase \in {"unlock", "resume", "unlock2", "resume2"} => finger = 0
    /\ phase \in {"trace", "lock", "suspend2", "reroots"} \cup Remarked => finger = PastEnd
    /\ word # {} => phase = "walk"
    /\ cur # Null => phase = "walk" \/ phase \in TracePhases
    /\ stack # {} => phase \in {"walk", "rescan"} \cup TracePhases
    /\ left # {} => cur # Null
    /\ lists # {} => phase \in Marking \ {"weaks", "swap"}
    /\ buf # {} => phase = "sweep"
    /\ phase = "rescan" /\ prevAddr # Null => CardOf(prevAddr) = card

(* Only live objects are marked, and only marked ones wait to be scanned.  *)
MarkInv ==
    /\ phase \in Marking => mark \subseteq live
    /\ word \subseteq mark /\ stack \subseteq mark /\ lists \subseteq mark
    /\ cur # Null => cur \in mark /\ left \subseteq FieldsOf(cur)
    /\ \A o \in word : WordOf(o) + 1 = finger

(* What the sweep has found is dead, and what it has still to visit is not *)
(* given out again.                                                        *)
SweepInv ==
    /\ buf \cap live = {} /\ buf \subseteq inUse
    /\ \A o \in buf : WordOf(o) < finger
    /\ phase \in {"unlock2", "resume2", "sweep"} =>
           \A o \in mark : WordOf(o) >= finger => o \in inUse

(* An object that the walk has still to meet or that is on the stack.      *)
Waiting(o) == WordOf(o) >= finger \/ o \in word \/ o \in stack

(* The address from which the dirty cards are still to be scanned.         *)
Pos == IF prevAddr = Null THEN card * CardSize ELSE prevAddr

(* An object whose card is dirty, or about to be, and still to be scanned. *)
Watched(o) == \/ /\ Concurrent(spec) /\ phase \in Early
                 /\ CardOf(o) \in dirty \/ \E t \in Threads : stored[t] = o
              \/ /\ phase = "rescan"
                 /\ CardOf(o) \in dirty /\ o >= Pos

(* The three colours: a marked object with a white reference waits, is     *)
(* being scanned, or is watched by the card table.                         *)
TriInv == phase \in Marking =>
    \A o \in mark, f \in Fields :
        \/ field[o][f] \in mark \cup {Null}
        \/ Waiting(o) \/ (o = cur /\ f \in left)
        \/ Watched(o)

(* A marked reference object with a white referent is on a list or waits.  *)
RefInv == phase \in Marking =>
    \A r \in mark \cap Refs :
        referent[r] \in mark \cup {Null} \/ r \in lists \/ Waiting(r) \/ r = cur

(* After the finalizer references are enqueued, no marked one has a white  *)
(* referent.                                                               *)
FinalInv == phase \in {"finalTrace", "phantom", "weaks", "swap"} =>
    /\ lists \cap Final = {}
    /\ \A r \in mark \cap Final : referent[r] \in mark \cup {Null}

(* Once they are marked with the world stopped, the roots stay marked; and *)
(* references are processed when nothing waits any more.                   *)
RootInv ==
    /\ phase \in Remarked \/ (phase \in {"walk", "trace"} /\ ~Concurrent(spec)) => Roots \subseteq mark
    /\ phase = "swap" => weakTable \subseteq mark
    /\ phase \in {"soft", "weak", "final", "phantom", "weaks", "swap"} =>
           /\ cur = Null /\ stack = {}

(* The first state satisfies StageInv.                                     *)
LEMMA StageInit == Init => StageInv
  BY DEF Init, StageInv, Unmarked, Remarked

(* Every step keeps StageInv.                                              *)
LEMMA StageNext ==
    TypeOK /\ LockInv /\ FinalInv /\ StageInv /\ [Next]_vars => StageInv'
  <1> SUFFICES ASSUME TypeOK, LockInv, FinalInv, StageInv, [Next]_vars PROVE StageInv'
    OBVIOUS
  <1> USE DEF StageInv, Marking, Unmarked, Early, Remarked, TracePhases, Goto,
        heapVars, rootVars, threadVars, lockVars, gcVars, scanVars, cardVars
  <1>1. CASE UNCHANGED vars
    BY <1>1 DEF vars
  <1>2. CASE \E t \in Threads : Program(t)
    <2>1. /\ CollectorKept
          /\ \/ phase' = phase
             \/ phase = "idle" /\ phase' = "suspend"
      BY <1>2, ProgramFrame
    <2> QED BY <2>1 DEF CollectorKept
  <1>3. CASE DaemonGc
    BY <1>3 DEF DaemonGc, BeginGc, gcRunning
  <1>4. CASE SuspendAllThreads
    BY <1>4 DEF SuspendAllThreads
  <1>5. CASE MarkRootSet
    BY <1>5 DEF MarkRootSet
  <1>6. CASE UnlockHeap
    BY <1>6 DEF UnlockHeap
  <1>7. CASE ResumeAllThreads
    BY <1>7 DEF ResumeAllThreads
  <1>8. CASE WalkNext
    <2>1. /\ phase = "walk" /\ phase' = phase
          /\ UNCHANGED <<mark, stack, lists, card, prevAddr, buf>>
      BY <1>8 DEF WalkNext
    <2>2. cur' # Null
      BY <1>8, WalkNextType DEF WalkNext, ScanObject
    <2> QED BY <2>1, <2>2
  <1>9. CASE WalkDone
    BY <1>9 DEF WalkDone
  <1>10. CASE ScanField
    <2>1. phase \in {"walk"} \cup TracePhases /\ cur # Null /\ UNCHANGED <<phase, finger, word, lists, card, prevAddr, buf>>
      BY <1>10 DEF ScanField
    <2>2. left' # {} => cur' # Null
      BY <1>10 DEF ScanField
    <2>3. cur' # Null => cur # Null
      BY <2>1
    <2> QED BY <2>1, <2>2, <2>3
  <1>11. CASE DelayReferent
    BY <1>11 DEF DelayReferent
  <1>12. CASE PopMarkStack
    <2>1. /\ phase \in TracePhases /\ phase' = phase
          /\ UNCHANGED <<mark, finger, word, lists, card, prevAddr, buf>>
      BY <1>12 DEF PopMarkStack
    <2>2. cur' \in stack
      BY <1>12 DEF PopMarkStack, ScanObject
    <2>3. cur' # Null
      BY <2>2, Numbers DEF TypeOK
    <2> QED BY <2>1, <2>3
  <1>13. CASE MarkStackEmpty
    BY <1>13 DEF MarkStackEmpty
  <1>14. CASE RelockHeap
    BY <1>14 DEF RelockHeap
  <1>15. CASE ReMarkRootSet
    BY <1>15 DEF ReMarkRootSet
  <1>16. CASE ReScanCard
    <2>1. phase = "rescan" /\ UNCHANGED <<phase, finger, word, cur, left, buf>>
      BY <1>16 DEF ReScanCard
    <2>2. PICK last \in Nat, limit \in Nat, d \in Nat :
             /\ card' = IF last < limit THEN d + 1 ELSE CardOf(last)
             /\ prevAddr' = IF last < limit THEN Null ELSE last
      BY <1>16, ReScanPlace
    <2> QED BY <2>1, <2>2
  <1>17. CASE ReScanDone
    BY <1>17 DEF ReScanDone
  <1>18. CASE PreserveSoft
    <2>1. /\ phase = "soft" /\ UNCHANGED <<finger, word, cur, left, card, prevAddr, buf>>
          /\ \/ phase' = "softTrace"
             \/ phase' = "weak" /\ stack' = stack
      BY <1>18 DEF PreserveSoft
    <2> QED BY <2>1
  <1>19. CASE ClearSoftAndWeak
    BY <1>19 DEF ClearSoftAndWeak
  <1>20. CASE EnqueueFinalizers
    <2>1. /\ phase = "final" /\ phase' = "finalTrace"
          /\ UNCHANGED <<finger, word, cur, left, card, prevAddr, buf>>
      BY <1>20 DEF EnqueueFinalizers
    <2> QED BY <2>1
  <1>21. CASE ClearPhantom
    <2>1. /\ phase = "phantom" /\ phase' = "weaks"
          /\ UNCHANGED <<mark, finger, word, stack, cur, left, card, prevAddr, buf>>
          /\ lists' = lists \ (Soft \cup Weak \cup Phantom)
      BY <1>21 DEF ClearPhantom, ClearWhite
    <2>2. lists' = {}
      BY <2>1 DEF TypeOK, FinalInv, Refs
    <2> QED BY <2>1, <2>2
  <1>22. CASE SweepSystemWeaks
    BY <1>22 DEF SweepSystemWeaks
  <1>23. CASE SwapBitmaps
    BY <1>23 DEF SwapBitmaps
  <1>24. CASE SweepWord
    <2>1. phase = "sweep" /\ UNCHANGED <<phase, mark, word, stack, cur, left, lists, card, prevAddr>>
      BY <1>24 DEF SweepWord
    <2> QED BY <2>1
  <1>25. CASE FreeList
    BY <1>25 DEF FreeList
  <1>26. CASE SweepDone
    BY <1>26 DEF SweepDone
  <1>27. CASE FinishMark
    BY <1>27 DEF FinishMark
  <1>28. CASE EndGc
    BY <1>28 DEF EndGc
  <1> HIDE DEF StageInv
  <1> QED
    BY <1>1, <1>2, <1>3, <1>4, <1>5, <1>6, <1>7, <1>8, <1>9, <1>10, <1>11, <1>12,
       <1>13, <1>14, <1>15, <1>16, <1>17, <1>18, <1>19, <1>20, <1>21, <1>22, <1>23,
       <1>24, <1>25, <1>26, <1>27, <1>28, Zenon DEF Next, Collector

(* What a thread of the program does to the heap: it takes a free chunk,   *)
(* and stores into a field only what it then keeps in mind.                *)
HeapKept(t) ==
    /\ inUse \subseteq inUse' /\ live \subseteq live'
    /\ \A o \in live' \ live : o \in inUse' \ inUse
    /\ \A o \in Objects, f \in Fields :
          \/ field'[o][f] = field[o][f] \/ field'[o][f] = Null
          \/ stored'[t] = o
    /\ \A o \in inUse : referent'[o] = referent[o] \/ referent'[o] = Null

(* The first state satisfies HeapInv and BlankInv.                         *)
LEMMA HeapInit == Init => HeapInv /\ BlankInv
  <1> SUFFICES ASSUME Init PROVE HeapInv /\ BlankInv
    OBVIOUS
  <1>1. /\ field \in [Objects -> [Fields -> (inUse \ Final) \cup {Null}]]
        /\ referent \in [Objects -> (inUse \ Final) \cup {Null}]
        /\ live = inUse /\ inUse \subseteq Objects /\ finList \subseteq inUse
        /\ reg \in [Threads -> SUBSET (inUse \ Final)]
        /\ weakTable \subseteq inUse /\ weakTable \subseteq Interned
        /\ \A o \in Objects \ inUse : field[o] = NoRefs
        /\ \A o \in Refs : field[o] = NoRefs
        /\ \A o \in Objects : referent[o] # Null <=> o \in inUse \cap Refs
    BY DEF Init
  <1>2. \A f \in Fields : NoRefs[f] = Null
    BY DEF NoRefs
  <1>3. Null \notin Final /\ Refs \subseteq Objects
    BY RefsType, Numbers
  <1>4. HeapInv
    BY <1>1 DEF HeapInv
  <1>5. /\ \A o \in Objects, f \in Fields : field[o][f] \in (inUse \ Final) \cup {Null}
        /\ \A o \in Objects : referent[o] \in (inUse \ Final) \cup {Null}
    BY <1>1
  <1>6. BlankInv
    BY <1>1, <1>2, <1>3, <1>5 DEF BlankInv
  <1> QED BY <1>4, <1>6

(* A step of the program keeps HeapInv and BlankInv.                       *)
LEMMA ProgramHeap ==
    ASSUME TypeOK, TypeOK', LockInv, HeapInv, BlankInv, NEW t \in Threads, Program(t)
    PROVE  HeapInv' /\ BlankInv' /\ HeapKept(t)
  <1>a. /\ field \in [Objects -> [Fields -> Objects \cup {Null}]]
        /\ referent \in [Objects -> Objects \cup {Null}]
        /\ inUse \subseteq Objects /\ live \subseteq Objects
        /\ reg \in [Threads -> SUBSET Objects] /\ weakTable \subseteq Objects
        /\ finList \subseteq Final /\ stored \in [Threads -> Objects \cup {Null}]
        /\ Null \notin Objects /\ Refs \subseteq Objects /\ Final \subseteq Refs
        /\ Interned \subseteq Objects \ Refs
        /\ Zombie \in Fields
    BY GcAssumption, RefsType DEF TypeOK
  <1>b. Soft \cup Weak \subseteq Refs
    BY DEF Refs
  <1> USE DEF heapVars, rootVars, threadVars, lockVars, gcVars, scanVars, cardVars
  <1> DEFINE Same == UNCHANGED <<field, referent, inUse, live>>
             OK == HeapInv' /\ BlankInv' /\ HeapKept(t)
  <1>1. CASE Same /\ UNCHANGED <<reg, weakTable, finList>>
    BY <1>1 DEF HeapInv, BlankInv, HeapKept
  <1>2. ASSUME NEW x \in live \ Final, Same, UNCHANGED <<weakTable, finList>>,
               reg' = [reg EXCEPT ![t] = @ \cup {x}]
        PROVE OK
    <2>1. \A u \in Threads : reg'[u] = IF u = t THEN reg[t] \cup {x} ELSE reg[u]
      BY <1>a, <1>2
    <2> QED BY <1>2, <2>1 DEF HeapInv, BlankInv, HeapKept
  <1>3. CASE Load(t)
    <2>1. PICK o \in reg[t], f \in Fields :
             field[o][f] # Null /\ reg' = [reg EXCEPT ![t] = @ \cup {field[o][f]}]
      BY <1>3 DEF Load
    <2>2. field[o][f] \in live \ Final
      BY <1>a, <2>1 DEF HeapInv, BlankInv
    <2> QED BY <1>3, <1>2, <2>1, <2>2 DEF Load
  <1>4. CASE Drop(t)
    <2>1. PICK o \in reg[t] : reg' = [reg EXCEPT ![t] = @ \ {o}]
      BY <1>4 DEF Drop
    <2>2. \A u \in Threads : reg'[u] \subseteq reg[u]
      BY <1>a, <2>1
    <2> QED BY <1>4, <2>2 DEF Drop, HeapInv, BlankInv, HeapKept
  <1>5. CASE SetFieldObject(t)
    <2>1. PICK o \in reg[t] \ Refs, f \in Fields, v \in reg[t] \cup {Null} :
             /\ field' = [field EXCEPT ![o][f] = v]
             /\ v # Null => stored' = [stored EXCEPT ![t] = o]
      BY <1>5 DEF SetFieldObject
    <2>2. o \in live /\ o \in Objects /\ v \in live \cup {Null} /\ v \notin Final
      BY <1>a, <2>1 DEF HeapInv, BlankInv
    <2>3. \A p \in Objects, g \in Fields :
             field'[p][g] = IF p = o /\ g = f THEN v ELSE field[p][g]
      BY <1>a, <2>1, <2>2
    <2>4. v # Null => stored'[t] = o
      BY <1>a, <2>1
    <2>5. UNCHANGED <<referent, inUse, live, reg, weakTable, finList>>
      BY <1>5 DEF SetFieldObject
    <2>6. HeapInv'
      BY <1>a, <2>2, <2>3, <2>5 DEF HeapInv
    <2>7. o \in inUse /\ o \notin Refs
      BY <2>1, <2>2 DEF HeapInv
    <2>8. BlankInv'
      BY <1>a, <2>2, <2>3, <2>5, <2>7 DEF BlankInv
    <2>9. HeapKept(t)
      BY <1>a, <2>3, <2>4, <2>5 DEF HeapKept
    <2> QED BY <2>6, <2>8, <2>9
  <1>6. CASE MarkCard(t)
    BY <1>6, <1>1 DEF MarkCard
  <1>7. CASE GetReferent(t)
    <2>1. PICK r \in reg[t] \cap (Soft \cup Weak) :
             referent[r] # Null /\ reg' = [reg EXCEPT ![t] = @ \cup {referent[r]}]
      BY <1>7 DEF GetReferent
    <2>2. referent[r] \in live \ Final
      BY <1>a, <1>b, <2>1 DEF HeapInv, BlankInv
    <2> QED BY <1>7, <1>2, <2>1, <2>2 DEF GetReferent
  <1>8. CASE ClearReferent(t)
    <2>1. PICK r \in reg[t] \cap Refs : referent' = [referent EXCEPT ![r] = Null]
      BY <1>8 DEF ClearReferent
    <2>2. \A o \in Objects : referent'[o] = IF o = r THEN Null ELSE referent[o]
      BY <1>a, <2>1
    <2>3. UNCHANGED <<field, inUse, live, reg, weakTable, finList>>
      BY <1>8 DEF ClearReferent
    <2>4. HeapInv'
      BY <1>a, <2>2, <2>3 DEF HeapInv
    <2>5. BlankInv' /\ HeapKept(t)
      BY <1>a, <2>2, <2>3 DEF BlankInv, HeapKept
    <2> QED BY <2>4, <2>5
  <1>9. CASE Enter(t)
    <2>1. PICK o \in reg[t] \cap Interned : weakTable' = weakTable \cup {o}
      BY <1>9 DEF Enter
    <2> QED BY <1>9, <2>1 DEF Enter, HeapInv, BlankInv, HeapKept
  <1>10. CASE LookUp(t)
    <2>1. PICK o \in weakTable : reg' = [reg EXCEPT ![t] = @ \cup {o}]
      BY <1>10 DEF LookUp
    <2>2. o \in live \ Final
      BY <1>a, <2>1 DEF HeapInv, BlankInv
    <2> QED BY <1>10, <1>2, <2>1, <2>2 DEF LookUp
  <1>11. CASE Poll(t)
    <2>1. PICK r \in finList :
            /\ field[r][Zombie] # Null
            /\ reg' = [reg EXCEPT ![t] = @ \cup {field[r][Zombie]}]
            /\ field' = [field EXCEPT ![r][Zombie] = Null]
            /\ finList' = finList \ {r}
      BY <1>11 DEF Poll
    <2>2. r \in Objects /\ r \in live
      BY <1>a DEF HeapInv
    <2>3. field[r][Zombie] \in live /\ field[r][Zombie] \notin Final
      BY <1>a, <2>1, <2>2 DEF HeapInv, BlankInv
    <2>4. \A p \in Objects, g \in Fields :
             field'[p][g] = IF p = r /\ g = Zombie THEN Null ELSE field[p][g]
      BY <1>a, <2>1, <2>2
    <2>5. \A u \in Threads : reg'[u] = IF u = t THEN reg[t] \cup {field[r][Zombie]} ELSE reg[u]
      BY <1>a, <2>1
    <2>6. UNCHANGED <<referent, inUse, live, weakTable>>
      BY <1>11 DEF Poll
    <2>7. HeapInv'
      BY <1>a, <2>1, <2>3, <2>4, <2>5, <2>6 DEF HeapInv
    <2>8. BlankInv'
      BY <1>a, <2>1, <2>3, <2>4, <2>5, <2>6 DEF BlankInv
    <2>9. HeapKept(t)
      BY <1>a, <2>4, <2>6 DEF HeapKept
    <2> QED BY <2>7, <2>8, <2>9
  <1>12. CASE Allocate(t)
    <2>1. PICK a \in Room(t), v \in reg[t] \cup {Null} :
            /\ v # Null <=> a \in Refs
            /\ inUse' = inUse \cup {a}
            /\ live' = live \cup {a}
            /\ referent' = [referent EXCEPT ![a] = v]
            /\ IF a \in Final
               THEN /\ finList' = finList \cup {a}
                    /\ UNCHANGED reg
               ELSE /\ reg' = [reg EXCEPT ![t] = @ \cup {a}]
                    /\ UNCHANGED finList
            /\ UNCHANGED <<field, weakTable>>
      BY <1>12 DEF Allocate
    <2>2. a \in Objects /\ a \notin inUse /\ v \in live \cup {Null} /\ v \notin Final
      BY <1>a, <2>1 DEF Room, HeapInv, BlankInv
    <2>3. \A o \in Objects : referent'[o] = IF o = a THEN v ELSE referent[o]
      BY <1>a, <2>1, <2>2
    <2>4. \A u \in Threads : reg'[u] = IF u = t /\ a \notin Final THEN reg[t] \cup {a} ELSE reg[u]
      BY <1>a, <2>1
    <2>5. finList' \subseteq finList \cup {a}
      BY <2>1
    <2>6. \A f \in Fields : field[a][f] = Null
      BY <2>2 DEF BlankInv
    <2>7. HeapInv'
      BY <1>a, <2>1, <2>2, <2>3, <2>4, <2>5, <2>6 DEF HeapInv
    <2>8. BlankInv'
      BY <1>a, <2>1, <2>2, <2>3, <2>4, <2>6 DEF BlankInv
    <2>9. HeapKept(t)
      BY <1>a, <2>1, <2>2, <2>3 DEF HeapKept, HeapInv
    <2> QED BY <2>7, <2>8, <2>9
  <1>13. CASE SafePoint(t) \/ LockHeap(t) \/ \E what \in Jobs : WantHeap(t, what)
    BY <1>13, <1>1 DEF SafePoint, LockHeap, WantHeap
  <1>14. CASE AwaitGc(t)
    BY <1>14, <1>1 DEF AwaitGc
  <1>15. CASE \E s \in {"explicit", "malloc", "oom"} : Collect(t, s)
    BY <1>15, <1>1 DEF Collect
  <1>16. CASE Try(t)
    <2>1. Allocate(t) \/ AwaitGc(t) \/ (\E s \in {"explicit", "malloc"} : Collect(t, s))
      BY <1>16, Zenon DEF Try
    <2> QED BY <2>1, <1>12, <1>14, <1>15
  <1>17. CASE Woken(t)
    <2>1. \/ AwaitGc(t) \/ Collect(t, "explicit")
          \/ Same /\ UNCHANGED <<reg, weakTable, finList>>
      BY <1>17 DEF Woken
    <2> QED BY <2>1, <1>1, <1>14, <1>15
  <1>18. CASE Retry(t)
    <2>1. Allocate(t) \/ Collect(t, "oom")
      BY <1>18, Zenon DEF Retry
    <2> QED BY <2>1, <1>12, <1>15
  <1>19. CASE Last(t)
    <2>1. Allocate(t) \/ (Same /\ UNCHANGED <<reg, weakTable, finList>>)
      BY <1>19 DEF Last
    <2> QED BY <2>1, <1>1, <1>12
  <1> QED BY <1>3, <1>4, <1>5, <1>6, <1>7, <1>8, <1>9, <1>10, <1>11, <1>13, <1>16,
       <1>17, <1>18, <1>19, Zenon DEF Program

(* When nothing waits any more, the marked objects are closed under every  *)
(* reference.                                                              *)
LEMMA MarkedClosed ==
    ASSUME TypeOK, StageInv, TriInv, RootInv,
           phase \in {"soft", "weak", "final", "phantom", "weaks", "swap"}
    PROVE  \A o \in mark, f \in Fields : field[o][f] \in mark \cup {Null}
  <1>1. /\ word = {} /\ stack = {} /\ cur = Null /\ finger = PastEnd
        /\ phase \in Marking /\ phase \notin Early /\ phase # "rescan"
    BY DEF StageInv, RootInv, Remarked, Marking, Early
  <1>2. \A o \in mark : ~Waiting(o) /\ o # cur
    BY <1>1, Numbers DEF Waiting, TypeOK
  <1> QED BY <1>1, <1>2 DEF TriInv, Watched

(* At the swap of the bitmaps no marked reference has a white referent.    *)
LEMMA RefsMarked ==
    ASSUME TypeOK, StageInv, RefInv, RootInv, BlankInv, phase = "swap"
    PROVE  \A o \in mark : referent[o] \in mark \cup {Null}
  <1>1. /\ word = {} /\ stack = {} /\ cur = Null /\ finger = PastEnd /\ lists = {}
        /\ phase \in Marking
    BY DEF StageInv, RootInv, Remarked, Marking, Early
  <1>2. \A o \in mark : ~Waiting(o) /\ o # cur
    BY <1>1, Numbers DEF Waiting, TypeOK
  <1> QED BY <1>1, <1>2 DEF RefInv, BlankInv, TypeOK

(* Every step keeps HeapInv: at the swap the marked objects take the place *)
(* of the live ones, and they hold the roots and are closed.               *)
LEMMA HeapNext ==
    /\ TypeOK /\ TypeOK' /\ LockInv /\ HeapInv /\ BlankInv /\ StageInv /\ MarkInv
    /\ SweepInv /\ TriInv /\ RefInv /\ RootInv
    /\ [Next]_vars
    => HeapInv' /\ BlankInv'
  <1> SUFFICES ASSUME TypeOK, TypeOK', LockInv, HeapInv, BlankInv, StageInv, MarkInv,
                      SweepInv, TriInv, RefInv, RootInv, [Next]_vars
               PROVE  HeapInv' /\ BlankInv'
    OBVIOUS
  <1> USE DEF heapVars, rootVars, threadVars, lockVars, gcVars, scanVars, cardVars
  <1>a. /\ field \in [Objects -> [Fields -> Objects \cup {Null}]]
        /\ referent \in [Objects -> Objects \cup {Null}]
        /\ inUse \subseteq Objects /\ live \subseteq Objects
        /\ Null \notin Objects /\ Refs \subseteq Objects /\ Final \subseteq Refs
        /\ Zombie \in Fields /\ lists \subseteq Refs
    BY GcAssumption, RefsType DEF TypeOK
  <1>1. CASE UNCHANGED <<field, referent, inUse, live, reg, weakTable, finList>>
    BY <1>1 DEF HeapInv, BlankInv
  <1>2. CASE \E t \in Threads : Program(t)
    BY <1>2, ProgramHeap
  <1>3. CASE UNCHANGED vars \/ DaemonGc \/ SuspendAllThreads \/ MarkRootSet \/ UnlockHeap
             \/ ResumeAllThreads \/ WalkNext \/ WalkDone \/ ScanField \/ DelayReferent
             \/ PopMarkStack \/ MarkStackEmpty \/ RelockHeap \/ ReMarkRootSet
             \/ ReScanCard \/ ReScanDone \/ PreserveSoft \/ SweepWord \/ SweepDone
             \/ FinishMark \/ EndGc
    <2>1. UNCHANGED <<field, referent, inUse, live, reg, weakTable, finList>>
      BY <1>3 DEF vars, DaemonGc, SuspendAllThreads, MarkRootSet, UnlockHeap,
         ResumeAllThreads, WalkNext, WalkDone, ScanField, DelayReferent, PopMarkStack,
         MarkStackEmpty, RelockHeap, ReMarkRootSet, ReScanCard, ReScanDone, PreserveSoft,
         SweepWord, SweepDone, FinishMark, EndGc
    <2> QED BY <2>1, <1>1
  <1>4. CASE ClearSoftAndWeak \/ ClearPhantom
    <2>1. /\ UNCHANGED <<field, inUse, live, reg, weakTable, finList>>
          /\ \E S : referent' = [r \in Objects |-> IF r \in White(lists \cap S) THEN Null
                                      ELSE referent[r]]
      BY <1>4 DEF ClearSoftAndWeak, ClearPhantom, ClearWhite
    <2>2. \A o \in Objects : referent'[o] \in {referent[o], Null}
      BY <2>1
    <2>3. HeapInv'
      BY <1>a, <2>1, <2>2 DEF HeapInv
    <2>4. BlankInv'
      BY <1>a, <2>1, <2>2 DEF BlankInv
    <2> QED BY <2>3, <2>4
  <1>5. CASE EnqueueFinalizers
    <2> DEFINE due == White(lists \cap Final)
    <2>1. /\ field' = [r \in Objects |-> IF r \in due
                        THEN [field[r] EXCEPT ![Zombie] = referent[r]]
                        ELSE field[r]]
          /\ referent' = [r \in Objects |-> IF r \in due THEN Null ELSE referent[r]]
          /\ UNCHANGED <<inUse, live, reg, weakTable, finList>>
          /\ phase = "final"
      BY <1>5 DEF EnqueueFinalizers
    <2>2. due \subseteq live /\ due \subseteq Final
      <3>1. lists \subseteq live
        BY <2>1 DEF MarkInv, Marking, Remarked
      <3> QED BY <3>1 DEF White
    <2> HIDE DEF due
    <2>3. \A r \in due : referent[r] \in live \cup {Null} /\ referent[r] \notin Final
      BY <1>a, <2>2 DEF HeapInv, BlankInv
    <2>4. \A o \in Objects, f \in Fields :
             field'[o][f] = IF o \in due /\ f = Zombie THEN referent[o] ELSE field[o][f]
      BY <1>a, <2>1
    <2>5. \A o \in Objects : referent'[o] \in {referent[o], Null}
      BY <1>a, <2>1
    <2>6. HeapInv'
      BY <1>a, <2>1, <2>2, <2>3, <2>4, <2>5 DEF HeapInv
    <2>7. \A o \in due : o \in inUse /\ FieldsOf(o) = {Zombie}
      BY <2>2 DEF HeapInv, FieldsOf
    <2>8. BlankInv'
      BY <1>a, <2>1, <2>3, <2>4, <2>5, <2>7 DEF BlankInv
    <2> QED BY <2>6, <2>8
  <1>6. CASE SweepSystemWeaks
    <2>1. /\ UNCHANGED <<field, referent, inUse, live, reg, finList>>
          /\ weakTable' \subseteq weakTable
      BY <1>6 DEF SweepSystemWeaks
    <2> QED BY <2>1 DEF HeapInv, BlankInv
  <1>7. CASE SwapBitmaps
    <2>1. /\ phase = "swap" /\ live' = mark
          /\ UNCHANGED <<field, referent, inUse, reg, weakTable, finList>>
      BY <1>7 DEF SwapBitmaps
    <2>2. mark \subseteq live
      BY <2>1 DEF MarkInv, Marking, Remarked
    <2>3. Roots \subseteq mark /\ weakTable \subseteq mark
      BY <2>1 DEF RootInv, Remarked
    <2>4. finList \subseteq mark /\ \A t \in Threads : reg[t] \subseteq mark
      <3>1. \A t \in Threads : reg[t] \subseteq Roots
        BY Zenon DEF Roots
      <3>2. finList \subseteq Roots
        BY Zenon DEF Roots
      <3> QED BY <2>3, <3>1, <3>2
    <2>5. /\ \A o \in mark, f \in Fields : field[o][f] \in mark \cup {Null}
          /\ \A o \in mark : referent[o] \in mark \cup {Null}
      BY <2>1, MarkedClosed, RefsMarked
    <2>6. HeapInv'
      BY <2>1, <2>2, <2>3, <2>4, <2>5 DEF HeapInv
    <2>7. BlankInv'
      BY <2>1 DEF BlankInv
    <2> QED BY <2>6, <2>7
  <1>8. CASE FreeList
    <2> DEFINE freed == buf \ Immune
    <2>1. /\ inUse' = inUse \ freed
          /\ live' = live \ buf
          /\ field' = [o \in Objects |-> IF o \in freed THEN NoRefs ELSE field[o]]
          /\ referent' = [o \in Objects |-> IF o \in freed THEN Null ELSE referent[o]]
          /\ UNCHANGED <<reg, weakTable, finList>>
      BY <1>8 DEF FreeList
    <2>2. freed \cap live = {} /\ live' = live
      BY <2>1 DEF SweepInv
    <2> HIDE DEF freed
    <2>3. \A f \in Fields : NoRefs[f] = Null
      BY DEF NoRefs
    <2>4. \A o \in Objects, f \in Fields :
             field'[o][f] = IF o \in freed THEN Null ELSE field[o][f]
      BY <1>a, <2>1, <2>3
    <2>5. \A o \in Objects : referent'[o] = IF o \in freed THEN Null ELSE referent[o]
      BY <1>a, <2>1
    <2>6. HeapInv'
      BY <1>a, <2>1, <2>2, <2>4, <2>5 DEF HeapInv
    <2>7. BlankInv'
      BY <1>a, <2>1, <2>4, <2>5 DEF BlankInv
    <2> QED BY <2>6, <2>7
  <1> HIDE DEF HeapInv, BlankInv
  <1> QED BY <1>2, <1>3, <1>4, <1>5, <1>6, <1>7, <1>8, Zenon DEF Next, Collector

(* The first state satisfies SweepInv and MarkInv.                         *)
LEMMA SweepInit == Init => SweepInv /\ MarkInv
  BY DEF Init, SweepInv, MarkInv, Marking, Early, Remarked

(* Every step keeps SweepInv: a chunk that is given out during the sweep   *)
(* was not in use, so it is none that the sweep has still to visit.        *)
LEMMA SweepNext ==
    /\ TypeOK /\ TypeOK' /\ LockInv /\ HeapInv /\ BlankInv /\ StageInv /\ StageInv'
    /\ MarkInv /\ SweepInv /\ [Next]_vars
    => SweepInv'
  <1> SUFFICES ASSUME TypeOK, TypeOK', LockInv, HeapInv, BlankInv, StageInv, StageInv',
                      MarkInv, SweepInv, [Next]_vars
               PROVE  SweepInv'
    OBVIOUS
  <1> USE DEF heapVars, rootVars, threadVars, lockVars, gcVars, scanVars, cardVars
  <1>1. CASE \E t \in Threads : Program(t)
    <2>1. PICK t \in Threads : Program(t)
      BY <1>1
    <2>2. HeapKept(t) /\ CollectorKept
      BY <2>1, ProgramHeap, ProgramFrame
    <2>3. phase' = phase \/ phase' = "suspend"
      BY <2>1, ProgramFrame
    <2>4. buf' = buf /\ finger' = finger /\ mark' = mark
      BY <2>2 DEF CollectorKept
    <2>5. buf' \cap live' = {} /\ buf' \subseteq inUse'
      BY <2>2, <2>4 DEF SweepInv, HeapKept
    <2> QED BY <2>2, <2>3, <2>4, <2>5 DEF SweepInv, HeapKept
  <1>2. CASE UNCHANGED vars
    BY <1>2 DEF vars, SweepInv
  <1>3. CASE DaemonGc \/ SuspendAllThreads \/ MarkRootSet \/ WalkNext
             \/ WalkDone \/ ScanField \/ DelayReferent \/ PopMarkStack
             \/ MarkStackEmpty \/ RelockHeap \/ ReMarkRootSet \/ ReScanCard \/ ReScanDone
             \/ PreserveSoft \/ ClearSoftAndWeak \/ EnqueueFinalizers \/ ClearPhantom
             \/ SweepSystemWeaks \/ SweepDone \/ FinishMark \/ EndGc
    <2>1. phase' \notin {"unlock2", "resume2", "sweep"}
      <3>1. CASE DaemonGc \/ SuspendAllThreads \/ MarkRootSet \/ WalkNext
                 \/ WalkDone \/ ScanField \/ DelayReferent \/ PopMarkStack
        BY <3>1 DEF DaemonGc, BeginGc, SuspendAllThreads, MarkRootSet,
           WalkNext, WalkDone, ScanField, DelayReferent, PopMarkStack, Goto,
           StageInv, TracePhases
      <3>2. CASE MarkStackEmpty \/ RelockHeap \/ ReMarkRootSet \/ ReScanCard
                 \/ ReScanDone \/ PreserveSoft
        BY <3>2 DEF MarkStackEmpty, RelockHeap, ReMarkRootSet, ReScanCard,
           ReScanDone, PreserveSoft, Goto, StageInv, TracePhases
      <3>3. CASE ClearSoftAndWeak \/ EnqueueFinalizers \/ ClearPhantom
                 \/ SweepSystemWeaks \/ SweepDone \/ FinishMark \/ EndGc
        BY <3>3 DEF ClearSoftAndWeak, EnqueueFinalizers, ClearPhantom,
           SweepSystemWeaks, SweepDone, FinishMark, EndGc, Goto, StageInv
      <3> QED BY <1>3, <3>1, <3>2, <3>3
    <2>2. buf' = {}
      BY <2>1 DEF StageInv
    <2> QED BY <2>1, <2>2 DEF SweepInv
  <1>4. CASE UnlockHeap \/ ResumeAllThreads
    <2>1. /\ UNCHANGED <<mark, finger, buf, inUse, live>>
          /\ phase' \in {"unlock2", "resume2", "sweep"} => phase \in {"unlock2", "resume2"}
      BY <1>4 DEF UnlockHeap, ResumeAllThreads, Goto
    <2> QED BY <2>1 DEF SweepInv
  <1>5. CASE SwapBitmaps
    <2>1. /\ phase = "swap" /\ mark' = live /\ finger' = 0 /\ UNCHANGED <<inUse, buf>>
          /\ buf = {}
      BY <1>5 DEF SwapBitmaps, StageInv
    <2> QED BY <2>1 DEF SweepInv, HeapInv
  <1>6. CASE SweepWord
    <2>1. /\ phase = "sweep" /\ finger' = finger + 1 /\ UNCHANGED <<phase, mark, inUse, live>>
          /\ buf \subseteq buf'
          /\ \A o \in buf' : o \in buf \/ (o \in mark \ live /\ WordOf(o) = finger)
      BY <1>6 DEF SweepWord
    <2>2. finger \in Nat /\ buf' \subseteq Objects /\ mark \subseteq Objects
      BY DEF TypeOK
    <2>3. \A o \in Objects : WordOf(o) \in Nat
      BY Numbers
    <2>4. ASSUME NEW o \in buf' PROVE o \notin live' /\ o \in inUse' /\ WordOf(o) < finger'
      BY <2>1, <2>2, <2>3, <2>4 DEF SweepInv
    <2>5. \A o \in mark' : WordOf(o) >= finger' => o \in inUse'
      BY <2>1, <2>2, <2>3 DEF SweepInv
    <2> QED BY <2>4, <2>5 DEF SweepInv
  <1>7. CASE FreeList
    <2>1. /\ phase = "sweep" /\ buf' = {} /\ inUse' = inUse \ (buf \ Immune)
          /\ UNCHANGED <<mark, finger, phase>>
      BY <1>7 DEF FreeList
    <2>2. finger \in Nat /\ mark \subseteq Objects /\ \A o \in Objects : WordOf(o) \in Nat
      BY Numbers DEF TypeOK
    <2>3. \A o \in mark' : WordOf(o) >= finger' => o \in inUse'
      BY <2>1, <2>2 DEF SweepInv
    <2> QED BY <2>1, <2>3 DEF SweepInv
  <1> HIDE DEF SweepInv
  <1> QED BY <1>1, <1>2, <1>3, <1>4, <1>5, <1>6, <1>7, Zenon DEF Next, Collector

(* While the world is stopped, a thread of the program can at most get the *)
(* lock of the heap.                                                       *)
LEMMA ProgramHalted ==
    ASSUME WorldInv, Halted, NEW t \in Threads, Program(t)
    PROVE  UNCHANGED <<field, referent, live, dirty, reg, weakTable, finList, stored>>
  <1>1. t \in stopped
    BY DEF WorldInv
  <1>2. LockHeap(t)
    BY <1>1 DEF Program, Running, Load, Drop, SetFieldObject, MarkCard, GetReferent,
       ClearReferent, Enter, LookUp, Poll, WantHeap, Try, Woken, Retry, Last, SafePoint
  <1> QED BY <1>2 DEF LockHeap, heapVars, rootVars

(* What marking a set of live objects does to the marks and the stack.     *)
MarksMore(S) ==
    /\ mark \subseteq mark' /\ stack \subseteq stack' /\ stack' \subseteq mark'
    /\ \A x \in S : x \in mark' \cup {Null}
    /\ \A o \in mark' \ mark : o \in S /\ (o \in stack' \/ WordOf(o) >= finger)
    /\ mark \subseteq live => mark' \subseteq live

(* Marking live objects keeps MarkInv's part about the stack.              *)
LEMMA MarkMore ==
    ASSUME TypeOK, MarkInv, NEW S, S \subseteq live \cup {Null}, MarkObjects(S)
    PROVE  MarksMore(S)
  <1>1. /\ S \subseteq Objects \cup {Null} /\ mark \subseteq Objects
        /\ stack \subseteq Objects /\ finger \in Nat
    BY DEF TypeOK
  <1>2. /\ mark' = mark \cup (S \ {Null})
        /\ stack \subseteq stack'
        /\ \A o \in stack' : o \in stack \/ o \in mark' \ mark
        /\ \A o \in mark' \ mark : o \in stack' \/ WordOf(o) >= finger
    BY <1>1, MarkFacts
  <1> QED BY <1>2 DEF MarksMore, MarkInv

(* What the scan of a field does.                                          *)
LEMMA ScanFieldStep ==
    ASSUME TypeOK, HeapInv, StageInv, MarkInv, ScanField
    PROVE  \E f \in left :
              /\ MarksMore({field[cur][f]})
              /\ cur \in mark /\ f \in Fields /\ f \in FieldsOf(cur)
              /\ left' = left \ {f}
              /\ cur' = cur \/ (cur' = Null /\ left' = {} /\ cur \notin Refs)
  <1> DEFINE f == MinOf(left)
  <1>1. cur # Null /\ left # {} /\ left \subseteq Nat /\ left \subseteq Fields
    BY GcAssumption DEF ScanField, TypeOK
  <1>2. f \in left
    BY <1>1, NatMin
  <1>3. /\ MarkObjects({field[cur][f]})
        /\ left' = left \ {f}
        /\ cur' = IF left' = {} /\ cur \notin Refs THEN Null ELSE cur
    BY DEF ScanField
  <1> HIDE DEF f
  <1>4. cur \in mark /\ left \subseteq FieldsOf(cur) /\ cur \in live
    BY <1>1 DEF MarkInv, StageInv, Marking, Early, Remarked, TracePhases
  <1>5. {field[cur][f]} \subseteq live \cup {Null}
    BY <1>1, <1>2, <1>4 DEF HeapInv
  <1>6. MarksMore({field[cur][f]})
    BY <1>3, <1>5, MarkMore
  <1> QED BY <1>1, <1>2, <1>3, <1>4, <1>6

(* What a step of the scan of the dirty cards does.                        *)
LEMMA ReScanCardStep ==
    ASSUME TypeOK, HeapInv, MarkInv, ReScanCard
    PROVE  \E d \in Nat, last \in Nat, limit \in Nat, start \in Nat :
              /\ d \in dirty /\ d >= card /\ \A c \in dirty : c >= card => d <= c
              /\ start = ScanStart(d) /\ limit = start + CardSize
              /\ last >= limit => \A o \in Objects : o >= limit => last <= o
              /\ card' = IF last < limit THEN d + 1 ELSE CardOf(last)
              /\ prevAddr' = IF last < limit THEN Null ELSE last
              /\ MarksMore(UNION {Targets(o) : o \in ScanHit(start)})
              /\ lists' = lists \cup Delayed(ScanHit(start))
              /\ dirty \subseteq dirty'
  <1>1. PICK d \in Nat, last \in Nat, limit \in Nat :
              /\ d \in DirtyFrom(card) /\ \A c \in DirtyFrom(card) : d <= c
              /\ ScanStart(d) \in Nat /\ limit = ScanStart(d) + CardSize
              /\ last >= limit => \A o \in Objects : o >= limit => last <= o
              /\ card' = IF last < limit THEN d + 1 ELSE CardOf(last)
              /\ prevAddr' = IF last < limit THEN Null ELSE last
              /\ MarkObjects(UNION {Targets(o) : o \in ScanHit(ScanStart(d))})
              /\ lists' = lists \cup Delayed(ScanHit(ScanStart(d)))
              /\ dirty' = dirty \cup {CardOf(r) : r \in Delayed(ScanHit(ScanStart(d)))}
    BY ReScanPlace, Zenon
  <1> DEFINE start == ScanStart(d)
             S == UNION {Targets(o) : o \in ScanHit(start)}
  <1>2. phase = "rescan"
    BY DEF ReScanCard
  <1>3. mark \subseteq live
    BY <1>2 DEF MarkInv, Marking, Remarked
  <1>4. \A o \in mark : Targets(o) \subseteq live
    BY <1>3 DEF Targets, HeapInv
  <1>5. S \subseteq live \cup {Null}
    BY <1>4 DEF ScanHit
  <1>6. MarksMore(S)
    <2>1. MarkObjects(S)
      BY <1>1
    <2> HIDE DEF S
    <2> QED BY <2>1, <1>5, MarkMore
  <1>7. d \in dirty /\ d >= card /\ \A c \in dirty : c >= card => d <= c
    BY <1>1 DEF DirtyFrom
  <1>8. dirty \subseteq dirty'
    BY <1>1
  <1> QED BY <1>1, <1>6, <1>7, <1>8

(* Every step keeps MarkInv.                                               *)
LEMMA MarkNext ==
    /\ TypeOK /\ TypeOK' /\ LockInv /\ HeapInv /\ BlankInv /\ StageInv /\ StageInv'
    /\ MarkInv /\ [Next]_vars
    => MarkInv'
  <1> SUFFICES ASSUME TypeOK, TypeOK', LockInv, HeapInv, BlankInv, StageInv, StageInv',
                      MarkInv, [Next]_vars
               PROVE  MarkInv'
    OBVIOUS
  <1> USE DEF heapVars, rootVars, threadVars, lockVars, gcVars, scanVars, cardVars
  <1>1. ASSUME phase' \notin Marking PROVE MarkInv'
    <2>1. word' = {} /\ stack' = {} /\ cur' = Null /\ lists' = {}
      BY <1>1 DEF StageInv, Marking, Early, Remarked, TracePhases
    <2> QED BY <1>1, <2>1 DEF MarkInv
  <1>2. ASSUME phase' \in Marking => phase \in Marking /\ live \subseteq live',
               UNCHANGED <<mark, word, stack, cur, left, finger>>, lists' \subseteq lists
        PROVE  MarkInv'
    BY <1>2 DEF MarkInv
  <1>3. CASE \E t \in Threads : Program(t)
    <2>1. PICK t \in Threads : Program(t)
      BY <1>3
    <2>2. HeapKept(t) /\ CollectorKept /\ (phase' = phase \/ phase' = "suspend")
      BY <2>1, ProgramHeap, ProgramFrame
    <2>3. "suspend" \notin Marking
      BY DEF Marking, Early, Remarked
    <2> QED BY <1>2, <2>2, <2>3 DEF CollectorKept, HeapKept
  <1>4. CASE UNCHANGED vars
    BY <1>2, <1>4 DEF vars
  <1>5. CASE DaemonGc \/ SwapBitmaps \/ SweepWord \/ FreeList \/ SweepDone \/ FinishMark \/ EndGc
    <2>1. phase' \notin Marking
      BY <1>5 DEF DaemonGc, BeginGc, SwapBitmaps, SweepWord, FreeList, SweepDone, FinishMark,
         EndGc, Goto, Marking, Early, Remarked
    <2> QED BY <1>1, <2>1
  <1>6. CASE SuspendAllThreads \/ UnlockHeap \/ ResumeAllThreads \/ MarkStackEmpty
             \/ RelockHeap \/ ReScanDone \/ ClearSoftAndWeak \/ ClearPhantom
             \/ SweepSystemWeaks
    <2>1. /\ UNCHANGED <<mark, word, stack, cur, left, finger, live>> /\ lists' \subseteq lists
          /\ phase' \in Marking => phase \in Marking
      BY <1>6 DEF SuspendAllThreads, UnlockHeap, ResumeAllThreads, MarkStackEmpty,
         RelockHeap, ReScanDone, ClearSoftAndWeak, ClearPhantom, SweepSystemWeaks,
         ClearWhite, Goto, Marking, Early, Remarked, TracePhases
    <2> QED BY <1>2, <2>1
  <1>7. CASE MarkRootSet
    <2>1. /\ phase = "roots" /\ live' = live /\ UNCHANGED <<word, stack, cur, left, lists, finger>>
          /\ mark \subseteq mark'
          /\ \A o \in mark' : o \in mark \/ o \in Roots \/ o \in live
      BY <1>7 DEF MarkRootSet
    <2>2. mark = {} /\ word = {} /\ stack = {} /\ lists = {} /\ cur = Null
      BY <2>1 DEF StageInv, Unmarked, Marking, Early, Remarked, TracePhases
    <2>3. \A o \in Roots : o \in live
      BY DEF Roots, HeapInv
    <2> QED BY <2>1, <2>2, <2>3 DEF MarkInv
  <1>8. CASE WalkNext
    <2> DEFINE next == IF word # {} THEN MinOf(word)
                       ELSE MinOf({o \in mark : WordOf(o) >= finger})
    <2>1. /\ next \in Objects /\ WordOf(next) \in Nat /\ next # Null
          /\ word # {} => next \in word
          /\ word = {} => next \in mark /\ WordOf(next) >= finger
          /\ finger' = WordOf(next) + 1
          /\ word' = IF word # {} THEN word \ {next}
                     ELSE {o \in mark : WordOf(o) = WordOf(next)} \ {next}
          /\ cur' = next /\ left' = FieldsOf(next)
      BY <1>8, WalkNextType, Zenon
    <2>2. UNCHANGED <<mark, live, stack, lists, phase>>
      BY <1>8 DEF WalkNext
    <2> HIDE DEF next
    <2>3. word' \subseteq mark' /\ next \in mark
      BY <2>1, <2>2 DEF MarkInv
    <2>4. \A o \in word' : WordOf(o) + 1 = finger'
      BY <2>1 DEF MarkInv
    <2> QED BY <2>1, <2>2, <2>3, <2>4 DEF MarkInv
  <1>9. CASE WalkDone
    <2>1. UNCHANGED <<mark, live, stack, lists, word, cur, left>> /\ word = {} /\ cur = Null
          /\ phase \in Marking
      BY <1>9 DEF WalkDone, Marking, Early
    <2> QED BY <2>1 DEF MarkInv
  <1>10. CASE ScanField
    <2>1. PICK f \in left :
              /\ MarksMore({field[cur][f]})
              /\ cur \in mark
              /\ left' = left \ {f}
              /\ cur' = cur \/ (cur' = Null /\ left' = {} /\ cur \notin Refs)
      BY <1>10, ScanFieldStep
    <2>2. UNCHANGED <<live, lists, word, finger, phase>>
      BY <1>10 DEF ScanField
    <2> QED BY <2>1, <2>2 DEF MarkInv, MarksMore
  <1>11. CASE DelayReferent
    <2>1. /\ UNCHANGED <<live, mark, word, finger, phase, stack>> /\ cur' = Null
          /\ cur # Null
          /\ lists' = lists \cup Delayed({cur})
      BY <1>11 DEF DelayReferent
    <2>2. Delayed({cur}) \subseteq mark
      BY <2>1 DEF Delayed, MarkInv
    <2> QED BY <2>1, <2>2 DEF MarkInv
  <1>12. CASE PopMarkStack
    <2>1. /\ UNCHANGED <<live, mark, word, finger, phase, lists>>
          /\ \E o \in stack : stack' = stack \ {o} /\ cur' = o /\ left' = FieldsOf(o)
      BY <1>12 DEF PopMarkStack, ScanObject
    <2> QED BY <2>1 DEF MarkInv
  <1>13. CASE ReMarkRootSet
    <2>1. /\ UNCHANGED <<live, word, finger, cur, left, lists>> /\ phase = "reroots"
          /\ MarkObjects(Roots)
      BY <1>13 DEF ReMarkRootSet
    <2>2. Roots \subseteq live \cup {Null}
      BY DEF Roots, HeapInv
    <2>3. MarksMore(Roots)
      BY <2>1, <2>2, MarkMore
    <2>4. phase \in Marking
      BY <2>1 DEF Marking, Early
    <2> QED BY <2>1, <2>3, <2>4 DEF MarkInv, MarksMore
  <1>14. CASE ReScanCard
    <2>1. /\ UNCHANGED <<live, word, finger, cur, left, phase>> /\ phase = "rescan"
      BY <1>14 DEF ReScanCard
    <2>2. PICK start \in Nat :
              /\ MarksMore(UNION {Targets(o) : o \in ScanHit(start)})
              /\ lists' = lists \cup Delayed(ScanHit(start))
      BY <1>14, ReScanCardStep
    <2>3. Delayed(ScanHit(start)) \subseteq mark
      BY DEF Delayed, ScanHit
    <2>4. /\ mark \subseteq mark' /\ stack' \subseteq mark'
          /\ mark \subseteq live => mark' \subseteq live
      BY <2>2 DEF MarksMore
    <2> QED BY <2>1, <2>2, <2>3, <2>4 DEF MarkInv
  <1>15. CASE PreserveSoft
    <2>1. CASE ~Preserve(spec)
      <3>1. /\ UNCHANGED <<live, word, finger, cur, left, mark, stack, lists>> /\ phase \in Marking
        BY <1>15, <2>1 DEF PreserveSoft, Marking, Remarked
      <3> QED BY <3>1, <1>2
    <2>2. CASE Preserve(spec)
      <3>1. PICK kept \in SUBSET White(lists \cap Soft) :
                /\ MarkObjects({referent[r] : r \in kept})
                /\ lists' = (lists \ Soft) \cup
                       {r \in White(lists \cap Soft) : referent[r] \notin mark'}
        BY <1>15, <2>2 DEF PreserveSoft
      <3>2. /\ UNCHANGED <<live, word, finger, cur, left>> /\ phase \in Marking
        BY <1>15 DEF PreserveSoft, Marking, Remarked
      <3>3. White(lists \cap Soft) \subseteq lists /\ lists \subseteq live /\ kept \subseteq live
        BY <3>2 DEF White, MarkInv
      <3>4. {referent[r] : r \in kept} \subseteq live \cup {Null}
        BY <3>3 DEF HeapInv
      <3>5. MarksMore({referent[r] : r \in kept})
        BY <3>1, <3>4, MarkMore
      <3>6. /\ mark \subseteq mark' /\ stack' \subseteq mark'
            /\ mark \subseteq live => mark' \subseteq live
        BY <3>5 DEF MarksMore
      <3> QED BY <3>1, <3>2, <3>3, <3>6 DEF MarkInv
    <2> QED BY <2>1, <2>2
  <1>16. CASE EnqueueFinalizers
    <2> DEFINE due == White(lists \cap Final)
    <2>1. MarkObjects({referent[r] : r \in due}) /\ lists' \subseteq lists
      BY <1>16 DEF EnqueueFinalizers
    <2>2. /\ UNCHANGED <<live, word, finger, cur, left>> /\ phase \in Marking
      BY <1>16 DEF EnqueueFinalizers, Marking, Remarked
    <2>3. due \subseteq live
      BY <2>2 DEF White, MarkInv
    <2> HIDE DEF due
    <2>4. {referent[r] : r \in due} \subseteq live \cup {Null}
      BY <2>3 DEF HeapInv
    <2>5. MarksMore({referent[r] : r \in due})
      BY <2>1, <2>4, MarkMore
    <2>6. /\ mark \subseteq mark' /\ stack' \subseteq mark'
          /\ mark \subseteq live => mark' \subseteq live
      BY <2>5 DEF MarksMore
    <2> QED BY <2>1, <2>2, <2>6 DEF MarkInv
  <1> HIDE DEF MarkInv
  <1> QED BY <1>3, <1>4, <1>5, <1>6, <1>7, <1>8, <1>9, <1>10, <1>11, <1>12, <1>13, <1>14,
       <1>15, <1>16, Zenon DEF Next, Collector

(* A store that has its card to dirty keeps it so until it is dirty.       *)
LEMMA ProgramStore ==
    ASSUME TypeOK, WorldInv, NEW t \in Threads, Program(t), stored[t] # Null
    PROVE  stored'[t] = stored[t] \/ CardOf(stored[t]) \in dirty'
  <1>1. pc[t] = "store"
    BY DEF WorldInv
  <1>2. MarkCard(t)
    BY <1>1 DEF Program, Running, Load, Drop, SetFieldObject, GetReferent,
       ClearReferent, Enter, LookUp, Poll, WantHeap, LockHeap, Try, Woken, Retry, Last, SafePoint
  <1> QED BY <1>2 DEF MarkCard

(* Where the scan of the dirty cards is, in cards and in addresses.        *)
LEMMA CardPlace ==
    ASSUME TypeOK, StageInv, phase = "rescan"
    PROVE  /\ Pos \in Nat /\ CardSize \in Nat \ {0} /\ card \in Nat
           /\ \A o \in Objects : /\ o \in Nat /\ CardOf(o) \in Nat
                                 /\ CardOf(o) * CardSize <= o
                                 /\ o >= Pos => CardOf(o) >= card
           /\ prevAddr # Null => prevAddr \in Nat /\ card * CardSize <= prevAddr
  <1>a. CardSize \in Nat \ {0} /\ card \in Nat /\ prevAddr \in Nat \cup {Null} /\ Objects \subseteq Nat
    BY GcAssumption DEF TypeOK
  <1>b. /\ \A a \in Nat : /\ CardOf(a) \in Nat
                          /\ CardOf(a) * CardSize <= a
        /\ \A a \in Nat, c \in Nat : c * CardSize <= a => c <= CardOf(a)
    BY <1>a, DivMod DEF CardOf
  <1>1. prevAddr # Null => prevAddr \in Nat /\ CardOf(prevAddr) = card
    BY <1>a DEF StageInv
  <1>2. prevAddr # Null => card * CardSize <= prevAddr
    BY <1>1, <1>b
  <1>3. Pos \in Nat /\ card * CardSize <= Pos /\ card * CardSize \in Nat
    BY <1>a, <1>2 DEF Pos
  <1>4. ASSUME NEW o \in Objects, o >= Pos PROVE CardOf(o) >= card
    <2>1. card * CardSize <= o
      BY <1>3, <1>4, <1>a
    <2>2. card <= CardOf(o)
      BY <2>1, <1>a, <1>b
    <2> QED BY <2>2, <1>a, <1>b
  <1> QED BY <1>a, <1>b, <1>1, <1>2, <1>3, <1>4

(* With the world stopped, nothing is watched once the cards are scanned.  *)
LEMMA Unwatched ==
    ASSUME phase \in Remarked \ {"rescan"} \/ (~Concurrent(spec) /\ phase # "rescan"), NEW o
    PROVE  ~Watched(o)
  BY DEF Watched, Early, Remarked

(* A field that scanFields leaves out is NULL.                             *)
LEMMA NotScanned ==
    ASSUME BlankInv, TypeOK, NEW o \in Objects, NEW f \in Fields, f \notin FieldsOf(o)
    PROVE  field[o][f] = Null
  <1>1. o \in Refs
    BY RefsType DEF FieldsOf
  <1> QED BY <1>1 DEF BlankInv

(* The walk passes no marked object: what waited for it waits or is taken. *)
LEMMA WalkAhead ==
    ASSUME TypeOK, MarkInv, WalkNext, NEW o \in mark, Waiting(o)
    PROVE  Waiting(o)' \/ o = cur'
  <1> DEFINE next == IF word # {} THEN MinOf(word)
                     ELSE MinOf({p \in mark : WordOf(p) >= finger})
  <1>1. /\ next \in Objects /\ WordOf(next) \in Nat
        /\ word # {} => next \in word
        /\ word = {} => /\ next \in mark /\ WordOf(next) >= finger
                        /\ \A p \in mark : WordOf(p) >= finger => next <= p
        /\ finger' = WordOf(next) + 1
        /\ word' = IF word # {} THEN word \ {next}
                   ELSE {p \in mark : WordOf(p) = WordOf(next)} \ {next}
        /\ cur' = next
    BY WalkNextType, Zenon
  <1>2. UNCHANGED stack
    BY DEF WalkNext
  <1> HIDE DEF next
  <1>3. o \in Objects /\ o \in Nat /\ WordOf(o) \in Nat /\ next \in Nat /\ finger \in Nat
    BY <1>1, Numbers DEF TypeOK
  <1>4. CASE word # {}
    <2>1. finger' = finger
      BY <1>1, <1>4 DEF MarkInv
    <2> QED BY <1>1, <1>2, <1>4, <2>1 DEF Waiting
  <1>5. CASE word = {} /\ WordOf(o) >= finger
    <2>1. next <= o
      BY <1>1, <1>5
    <2>2. WordOf(next) <= WordOf(o)
      <3>1. /\ WordSize \in Nat \ {0}
            /\ WordOf(next) * WordSize <= next
            /\ \A c \in Nat : c * WordSize <= o => c <= WordOf(o)
        BY <1>3, GcAssumption, DivMod DEF WordOf
      <3>2. WordOf(next) * WordSize \in Nat
        BY <1>1, <3>1
      <3>3. WordOf(next) * WordSize <= o
        BY <1>3, <2>1, <3>1, <3>2
      <3> QED BY <1>1, <3>1, <3>3
    <2>3. WordOf(o) = WordOf(next) \/ WordOf(o) >= finger'
      BY <1>1, <1>3, <2>2
    <2> QED BY <1>1, <1>5, <2>3 DEF Waiting
  <1>6. CASE word = {} /\ o \in stack
    BY <1>2, <1>6 DEF Waiting
  <1> QED BY <1>4, <1>5, <1>6 DEF Waiting

(* Every step keeps the three colours: a store is watched before it can    *)
(* hide an object, the stop of the world leaves no store without its card, *)
(* and the scan of the cards passes no dirty one.                          *)
LEMMA TriNext ==
    /\ TypeOK /\ TypeOK' /\ LockInv /\ LockInv' /\ WorldInv /\ WorldInv' /\ HeapInv
    /\ BlankInv /\ StageInv /\ StageInv' /\ MarkInv /\ RootInv /\ TriInv /\ [Next]_vars
    => TriInv'
  <1> SUFFICES ASSUME TypeOK, TypeOK', LockInv, LockInv', WorldInv, WorldInv', HeapInv,
                      BlankInv, StageInv, StageInv', MarkInv, RootInv, TriInv, [Next]_vars
               PROVE  TriInv'
    OBVIOUS
  <1> USE DEF heapVars, rootVars, threadVars, lockVars, gcVars, scanVars, cardVars
  <1>1. ASSUME phase' \notin Marking PROVE TriInv'
    BY <1>1 DEF TriInv
  <1>2. ASSUME phase \in Marking, UNCHANGED <<field, word, finger, cur, left>>,
               mark \subseteq mark', stack \subseteq stack',
               \A o \in mark' \ mark : o \in stack' \/ WordOf(o) >= finger,
               \A o \in mark : Watched(o) => Watched(o)'
        PROVE  TriInv'
    BY <1>2 DEF TriInv, Waiting
  <1>3. CASE \E t \in Threads : Program(t)
    <2>1. PICK t \in Threads : Program(t)
      BY <1>3
    <2>2. CASE phase' # phase
      <3>1. phase' = "suspend"
        BY <2>1, <2>2, ProgramFrame
      <3> QED BY <3>1, <1>1 DEF Marking, Early, Remarked
    <2>3. CASE phase' = phase /\ phase \in Marking
      <3>1. CollectorKept /\ UNCHANGED <<phase, by, spec>>
        BY <2>1, <2>3, ProgramFrame DEF Marking, Early, Remarked
      <3>2. CASE Halted
        <4>1. UNCHANGED <<field, dirty, stored>>
          BY <2>1, <3>2, ProgramHalted
        <4>2. \A o \in mark : Watched(o) => Watched(o)'
          BY <3>1, <4>1 DEF Watched, CollectorKept, Pos
        <4> QED BY <1>2, <2>3, <3>1, <4>1, <4>2 DEF CollectorKept
      <3>3. CASE ~Halted
        <4>1. Concurrent(spec) /\ phase \in Early
          BY <2>3, <3>3 DEF Halted, Marking, Early, Remarked
        <4>2. \A o \in mark : Watched(o) => Watched(o)'
          <5>1. stored[t] # Null => stored'[t] = stored[t] \/ CardOf(stored[t]) \in dirty'
            BY <2>1, ProgramStore
          <5>2. \A u \in Threads \ {t} : stored'[u] = stored[u]
            BY <2>1, ProgramWorld
          <5>3. \A o \in mark : o # Null
            BY Numbers DEF TypeOK
          <5>4. phase # "rescan" /\ phase' \in Early /\ Concurrent(spec')
            BY <3>1, <4>1 DEF Early
          <5>5. dirty \subseteq dirty'
            BY <3>1 DEF CollectorKept
          <5> QED BY <4>1, <5>1, <5>2, <5>3, <5>4, <5>5 DEF Watched
        <4>3. \A o \in Objects, f \in Fields :
                 \/ field'[o][f] = field[o][f] \/ field'[o][f] = Null
                 \/ stored'[t] = o
          BY <2>1, ProgramHeap DEF HeapKept
        <4>4. \A o \in Objects : stored'[t] = o => Watched(o)'
          BY <3>1, <4>1 DEF Watched
        <4>5. mark \subseteq Objects
          BY DEF TypeOK
        <4> QED BY <2>3, <3>1, <4>2, <4>3, <4>4, <4>5 DEF CollectorKept, TriInv, Waiting
      <3> QED BY <3>2, <3>3
    <2> QED BY <1>1, <2>2, <2>3
  <1>4. CASE UNCHANGED vars
    BY <1>4 DEF vars, TriInv, Waiting, Watched, Pos
  <1>5. CASE DaemonGc \/ SwapBitmaps \/ SweepWord \/ FreeList \/ SweepDone \/ FinishMark \/ EndGc
    <2>1. phase' \notin Marking
      BY <1>5 DEF DaemonGc, BeginGc, SwapBitmaps, SweepWord, FreeList, SweepDone, FinishMark,
         EndGc, Goto, Marking, Early, Remarked
    <2> QED BY <1>1, <2>1
  <1>6. CASE SuspendAllThreads \/ UnlockHeap \/ ResumeAllThreads \/ RelockHeap
    <2>1. /\ UNCHANGED <<field, mark, word, stack, cur, left, finger, dirty, stored, spec>>
          /\ phase' \in Marking => phase \in Early /\ phase' \in Early
      BY <1>6 DEF SuspendAllThreads, UnlockHeap, ResumeAllThreads, RelockHeap, Goto,
         Marking, Early, Remarked
    <2>2. ASSUME phase' \in Marking PROVE TriInv'
      <3>1. \A o \in mark : Watched(o) => Watched(o)'
        BY <2>1, <2>2 DEF Watched, Early
      <3>2. phase \in Marking
        BY <2>1, <2>2 DEF Marking
      <3> QED BY <1>2, <2>1, <3>1, <3>2
    <2> QED BY <1>1, <2>2
  <1>7. CASE MarkRootSet
    <2>1. finger' = 0 /\ mark' \subseteq Objects
      BY <1>7 DEF MarkRootSet, StageInv, Unmarked, TypeOK
    <2>2. \A o \in mark' : WordOf(o) >= finger'
      BY <2>1, Numbers
    <2> QED BY <2>2 DEF TriInv, Waiting
  <1>8. CASE WalkNext
    <2>1. UNCHANGED <<field, mark, phase, spec, dirty, stored, stack, card, prevAddr>>
          /\ cur = Null /\ phase = "walk"
      BY <1>8 DEF WalkNext
    <2>2. \A o \in mark : Waiting(o) => Waiting(o)' \/ o = cur'
      BY <1>8, WalkAhead
    <2>3. left' = FieldsOf(cur')
      BY <1>8 DEF WalkNext, ScanObject
    <2>4. \A o \in mark : Watched(o) => Watched(o)'
      BY <2>1 DEF Watched, Pos
    <2>5. mark \subseteq Objects /\ \A o \in mark : o # Null
      BY Numbers DEF TypeOK
    <2>6. \A o \in mark, f \in Fields : f \in FieldsOf(o) \/ field[o][f] = Null
      BY <2>5, NotScanned
    <2> QED BY <2>1, <2>2, <2>3, <2>4, <2>5, <2>6 DEF TriInv
  <1>9. CASE WalkDone
    <2>1. /\ UNCHANGED <<field, mark, spec, dirty, stored, stack, word, cur, left>>
          /\ cur = Null /\ phase = "walk" /\ phase' = "trace" /\ word = {}
          /\ \A o \in mark : WordOf(o) < finger
      BY <1>9 DEF WalkDone, Goto
    <2>2. \A o \in mark : Waiting(o) => Waiting(o)'
      <3>1. \A o \in mark : WordOf(o) \in Nat /\ finger \in Nat
        BY Numbers DEF TypeOK
      <3>2. \A o \in mark : ~(WordOf(o) >= finger)
        BY <2>1, <3>1
      <3> QED BY <2>1, <3>2 DEF Waiting
    <2>3. \A o \in mark : Watched(o) => Watched(o)'
      BY <2>1 DEF Watched, Early
    <2>4. phase \in Marking
      BY <2>1 DEF Marking, Early
    <2> QED BY <2>1, <2>2, <2>3, <2>4 DEF TriInv
  <1>10. CASE ScanField
    <2>1. PICK f \in left :
              /\ MarksMore({field[cur][f]})
              /\ cur \in mark
              /\ left' = left \ {f}
              /\ cur' = cur \/ (cur' = Null /\ left' = {} /\ cur \notin Refs)
      BY <1>10, ScanFieldStep
    <2>2. UNCHANGED <<field, word, finger, phase, spec, dirty, stored, card, prevAddr>>
      BY <1>10 DEF ScanField
    <2>3. \A o \in mark : Watched(o) => Watched(o)'
      BY <2>2 DEF Watched, Pos
    <2>4. /\ mark \subseteq mark' /\ stack \subseteq stack'
          /\ field[cur][f] \in mark' \cup {Null}
          /\ \A o \in mark' \ mark : o \in stack' \/ WordOf(o) >= finger
      BY <2>1 DEF MarksMore
    <2>5. \A g \in left : g # f => g \in left' /\ cur' = cur
      BY <2>1
    <2> QED BY <2>1, <2>2, <2>3, <2>4, <2>5 DEF TriInv, Waiting
  <1>11. CASE DelayReferent
    <2>1. /\ UNCHANGED <<field, mark, word, finger, phase, spec, stack, stored, card, prevAddr>>
          /\ left = {} /\ dirty \subseteq dirty'
      BY <1>11 DEF DelayReferent
    <2>2. \A o \in mark : Watched(o) => Watched(o)'
      BY <2>1 DEF Watched, Pos
    <2> QED BY <2>1, <2>2 DEF TriInv, Waiting
  <1>12. CASE PopMarkStack
    <2>1. /\ UNCHANGED <<field, mark, word, finger, phase, spec, dirty, stored, card, prevAddr>>
          /\ cur = Null
          /\ \E o \in stack : stack' = stack \ {o} /\ cur' = o /\ left' = FieldsOf(o)
      BY <1>12 DEF PopMarkStack, ScanObject
    <2>2. \A o \in mark : Watched(o) => Watched(o)'
      BY <2>1 DEF Watched, Pos
    <2>3. mark \subseteq Objects /\ \A o \in mark : o # Null
      BY Numbers DEF TypeOK
    <2>4. \A o \in mark, f \in Fields : f \in FieldsOf(o) \/ field[o][f] = Null
      BY <2>3, NotScanned
    <2> QED BY <2>1, <2>2, <2>3, <2>4 DEF TriInv, Waiting
  <1>13. CASE MarkStackEmpty
    <2>1. /\ UNCHANGED <<field, mark, word, finger, spec, dirty, stored, card, prevAddr, stack,
                         cur, left>>
          /\ phase \in TracePhases
          /\ \/ phase = "trace" /\ phase' = "lock" /\ Concurrent(spec)
             \/ phase = "trace" /\ ~Concurrent(spec)
             \/ phase \in {"retrace", "softTrace", "finalTrace"}
      BY <1>13 DEF MarkStackEmpty, Goto, TracePhases
    <2>2. \A o \in mark : Watched(o) => Watched(o)'
      <3>1. CASE phase = "trace" /\ phase' = "lock" /\ Concurrent(spec)
        BY <2>1, <3>1 DEF Watched, Early
      <3>2. CASE ~(phase = "trace" /\ Concurrent(spec))
        BY <2>1, <3>2, Unwatched DEF Remarked
      <3> QED BY <2>1, <3>1, <3>2
    <2>3. phase \in Marking
      BY <2>1 DEF Marking, Early, Remarked, TracePhases
    <2> QED BY <1>2, <2>1, <2>2, <2>3
  <1>14. CASE ReMarkRootSet
    <2>1. /\ UNCHANGED <<field, word, finger, cur, left, dirty, spec>> /\ phase = "reroots"
          /\ MarkObjects(Roots) /\ phase' = "rescan" /\ card' = 0 /\ prevAddr' = Null
      BY <1>14 DEF ReMarkRootSet, Goto
    <2>2. Roots \subseteq live \cup {Null}
      BY DEF Roots, HeapInv
    <2>3. MarksMore(Roots)
      BY <2>1, <2>2, MarkMore
    <2>4. \A t \in Threads : stored[t] = Null
      BY <2>1 DEF WorldInv, Halted
    <2>5. \A o \in mark : o \in Nat /\ o # Null
      BY Numbers DEF TypeOK
    <2>6. CardSize \in Nat
      BY GcAssumption
    <2>7. Pos' = 0
      BY <2>1, <2>6 DEF Pos
    <2>8. \A o \in mark : Watched(o) => Watched(o)'
      BY <2>1, <2>4, <2>5, <2>7 DEF Watched, Early
    <2>9. phase \in Marking
      BY <2>1 DEF Marking, Early
    <2> QED BY <1>2, <2>1, <2>3, <2>8, <2>9 DEF MarksMore
  <1>15. CASE ReScanCard
    <2>1. UNCHANGED <<field, word, finger, cur, left, phase, spec>> /\ phase = "rescan"
      BY <1>15 DEF ReScanCard
    <2>2. PICK d \in Nat, last \in Nat, limit \in Nat, start \in Nat :
              /\ d \in dirty /\ d >= card /\ \A c \in dirty : c >= card => d <= c
              /\ start = ScanStart(d) /\ limit = start + CardSize
              /\ last >= limit => \A o \in Objects : o >= limit => last <= o
              /\ card' = IF last < limit THEN d + 1 ELSE CardOf(last)
              /\ prevAddr' = IF last < limit THEN Null ELSE last
              /\ MarksMore(UNION {Targets(o) : o \in ScanHit(start)})
              /\ dirty \subseteq dirty'
      BY <1>15, ReScanCardStep
    <2>3. /\ Pos \in Nat /\ CardSize \in Nat \ {0} /\ card \in Nat
          /\ \A o \in Objects : /\ o \in Nat /\ CardOf(o) \in Nat
                                /\ CardOf(o) * CardSize <= o
                                /\ o >= Pos => CardOf(o) >= card
          /\ prevAddr # Null => prevAddr \in Nat /\ card * CardSize <= prevAddr
          /\ Null \notin Nat
      BY <2>1, CardPlace, GcAssumption
    <2>4. d * CardSize \in Nat /\ d * CardSize <= start
      BY <2>2, <2>3 DEF ScanStart
    <2>5. ASSUME NEW o \in mark, Watched(o), o \notin ScanHit(start) PROVE Watched(o)'
      <3>1. CardOf(o) \in dirty /\ o >= Pos /\ o \in Objects
        BY <2>1, <2>5 DEF Watched, Early, TypeOK
      <3>2. d <= CardOf(o) /\ o \in Nat /\ CardOf(o) \in Nat /\ CardOf(o) * CardSize <= o
        <4>1. /\ o \in Nat /\ CardOf(o) \in Nat /\ CardOf(o) * CardSize <= o
              /\ CardOf(o) >= card
          BY <2>3, <3>1
        <4>2. d <= CardOf(o)
          BY <2>2, <3>1, <4>1, Zenon
        <4> QED BY <4>1, <4>2
      <3>3. d * CardSize <= CardOf(o) * CardSize
        BY <2>3, <3>2
      <3>4. start <= o
        <4>1. CASE prevAddr # Null /\ d = card
          BY <2>2, <3>1, <4>1 DEF ScanStart, Pos
        <4>2. CASE ~(prevAddr # Null /\ d = card)
          <5>1. start = d * CardSize
            BY <2>2, <4>2 DEF ScanStart
          <5> QED BY <2>3, <2>4, <3>2, <3>3, <5>1
        <4> QED BY <4>1, <4>2
      <3>5. o >= limit
        BY <2>2, <2>3, <2>5, <3>2, <3>4 DEF ScanHit
      <3>6. o >= Pos'
        <4>1. CASE last < limit
          <5>1. Pos' = (d + 1) * CardSize
            BY <2>2, <4>1 DEF Pos
          <5>2. (d + 1) * CardSize = d * CardSize + CardSize
            BY <2>3
          <5>3. d * CardSize + CardSize <= limit
            BY <2>2, <2>3, <2>4
          <5> QED BY <2>2, <2>3, <2>4, <3>2, <3>5, <5>1, <5>2, <5>3
        <4>2. CASE ~(last < limit)
          <5>1. Pos' = last
            BY <2>2, <2>3, <4>2 DEF Pos
          <5> QED BY <2>2, <3>1, <3>2, <3>5, <4>2, <5>1
        <4> QED BY <4>1, <4>2
      <3> QED BY <2>1, <2>2, <3>1, <3>6 DEF Watched
    <2>6. ASSUME NEW o \in ScanHit(start), NEW f \in Fields PROVE field[o][f] \in mark' \cup {Null}
      <3>1. field[o][f] = Null \/ field[o][f] \in Targets(o)
        BY DEF Targets
      <3> QED BY <2>2, <3>1 DEF MarksMore
    <2>7. /\ mark \subseteq mark' /\ stack \subseteq stack'
          /\ \A o \in mark' \ mark : o \in stack' \/ WordOf(o) >= finger
      BY <2>2 DEF MarksMore
    <2>8. phase \in Marking
      BY <2>1 DEF Marking, Remarked
    <2> QED BY <2>1, <2>5, <2>6, <2>7, <2>8 DEF TriInv, Waiting
  <1>16. CASE ReScanDone
    <2>1. /\ UNCHANGED <<field, mark, word, finger, stack, cur, left>>
          /\ phase = "rescan" /\ \A c \in dirty : ~(c >= card)
      BY <1>16 DEF ReScanDone, DirtyFrom
    <2>2. \A o \in Objects : o >= Pos => CardOf(o) >= card
      BY <2>1, CardPlace
    <2>3. \A o \in mark : ~Watched(o)
      BY <2>1, <2>2 DEF Watched, Early, TypeOK
    <2>4. phase \in Marking
      BY <2>1 DEF Marking, Remarked
    <2> QED BY <1>2, <2>1, <2>3, <2>4
  <1>17. CASE PreserveSoft
    <2>1. /\ UNCHANGED <<field, word, finger, cur, left>> /\ phase = "soft" /\ phase \in Marking
      BY <1>17 DEF PreserveSoft, Marking, Remarked
    <2>2. \A o \in mark : ~Watched(o)
      BY <2>1, Unwatched DEF Remarked
    <2>3. CASE ~Preserve(spec)
      <3>1. UNCHANGED <<mark, stack>>
        BY <1>17, <2>3 DEF PreserveSoft
      <3> QED BY <1>2, <2>1, <2>2, <3>1
    <2>4. CASE Preserve(spec)
      <3>1. PICK kept \in SUBSET White(lists \cap Soft) : MarkObjects({referent[r] : r \in kept})
        BY <1>17, <2>4 DEF PreserveSoft
      <3>2. kept \subseteq live
        BY <2>1 DEF White, MarkInv
      <3>3. {referent[r] : r \in kept} \subseteq live \cup {Null}
        BY <3>2 DEF HeapInv
      <3>4. MarksMore({referent[r] : r \in kept})
        BY <3>1, <3>3, MarkMore
      <3>5. /\ mark \subseteq mark' /\ stack \subseteq stack'
            /\ \A o \in mark' \ mark : o \in stack' \/ WordOf(o) >= finger
        BY <3>4 DEF MarksMore
      <3> QED BY <1>2, <2>1, <2>2, <3>5
    <2> QED BY <2>3, <2>4
  <1>18. CASE ClearSoftAndWeak \/ ClearPhantom \/ SweepSystemWeaks
    <2>1. /\ UNCHANGED <<field, mark, word, finger, stack, cur, left>>
          /\ phase \in {"weak", "phantom", "weaks"} /\ phase \in Marking
      BY <1>18 DEF ClearSoftAndWeak, ClearPhantom, SweepSystemWeaks, Marking, Remarked
    <2>2. \A o \in mark : ~Watched(o)
      BY <2>1, Unwatched DEF Remarked
    <2> QED BY <1>2, <2>1, <2>2
  <1>19. CASE EnqueueFinalizers
    <2> DEFINE due == White(lists \cap Final)
    <2>1. /\ MarkObjects({referent[r] : r \in due})
          /\ field' = [r \in Objects |-> IF r \in due
                        THEN [field[r] EXCEPT ![Zombie] = referent[r]]
                        ELSE field[r]]
      BY <1>19 DEF EnqueueFinalizers
    <2>2. /\ UNCHANGED <<word, finger, cur, left>> /\ phase = "final" /\ phase \in Marking
      BY <1>19 DEF EnqueueFinalizers, Marking, Remarked
    <2>3. \A o \in mark : ~Watched(o)
      BY <2>2, Unwatched DEF Remarked
    <2>4. due \subseteq live
      BY <2>2 DEF White, MarkInv
    <2> HIDE DEF due
    <2>5. {referent[r] : r \in due} \subseteq live \cup {Null}
      BY <2>4 DEF HeapInv
    <2>6. MarksMore({referent[r] : r \in due})
      BY <2>1, <2>5, MarkMore
    <2>7. /\ mark \subseteq mark' /\ stack \subseteq stack'
          /\ \A o \in mark' \ mark : o \in stack' \/ WordOf(o) >= finger
          /\ \A r \in due : referent[r] \in mark' \cup {Null}
      BY <2>6 DEF MarksMore
    <2>8. \A o \in Objects, f \in Fields :
             field'[o][f] = IF o \in due /\ f = Zombie THEN referent[o] ELSE field[o][f]
      BY <2>1 DEF TypeOK
    <2>9. mark \subseteq Objects /\ \A o \in mark' \ mark : Waiting(o)'
      BY <2>2, <2>7 DEF TypeOK, Waiting
    <2> QED BY <2>2, <2>3, <2>7, <2>8, <2>9 DEF TriInv, Waiting
  <1> HIDE DEF TriInv
  <1> QED BY <1>3, <1>4, <1>5, <1>6, <1>7, <1>8, <1>9, <1>10, <1>11, <1>12, <1>13, <1>14,
       <1>15, <1>16, <1>17, <1>18, <1>19, Zenon DEF Next, Collector

(* Every step keeps RefInv.                                                *)
LEMMA RefNext ==
    /\ TypeOK /\ TypeOK' /\ LockInv /\ HeapInv /\ BlankInv /\ StageInv /\ StageInv'
    /\ MarkInv /\ RefInv /\ [Next]_vars
    => RefInv'
  <1> SUFFICES ASSUME TypeOK, TypeOK', LockInv, HeapInv, BlankInv, StageInv, StageInv',
                      MarkInv, RefInv, [Next]_vars
               PROVE  RefInv'
    OBVIOUS
  <1> USE DEF heapVars, rootVars, threadVars, lockVars, gcVars, scanVars, cardVars
  <1>1. ASSUME phase' \notin Marking PROVE RefInv'
    BY <1>1 DEF RefInv
  <1>2. ASSUME phase \in Marking, UNCHANGED <<referent, word, finger, cur>>,
               mark \subseteq mark', stack \subseteq stack', lists \subseteq lists',
               \A o \in mark' \ mark : o \in stack' \/ WordOf(o) >= finger
        PROVE  RefInv'
    BY <1>2 DEF RefInv, Waiting
  <1>3. CASE \E t \in Threads : Program(t)
    <2>1. PICK t \in Threads : Program(t)
      BY <1>3
    <2>2. HeapKept(t) /\ CollectorKept /\ (phase' = phase \/ phase' = "suspend")
      BY <2>1, ProgramHeap, ProgramFrame
    <2>3. "suspend" \notin Marking
      BY DEF Marking, Early, Remarked
    <2>4. phase \in Marking => mark \subseteq inUse
      BY DEF MarkInv, HeapInv
    <2> QED BY <2>2, <2>3, <2>4 DEF CollectorKept, HeapKept, RefInv, Waiting
  <1>4. CASE UNCHANGED vars
    BY <1>4 DEF vars, RefInv, Waiting
  <1>5. CASE DaemonGc \/ SwapBitmaps \/ SweepWord \/ FreeList \/ SweepDone \/ FinishMark \/ EndGc
    <2>1. phase' \notin Marking
      BY <1>5 DEF DaemonGc, BeginGc, SwapBitmaps, SweepWord, FreeList, SweepDone, FinishMark,
         EndGc, Goto, Marking, Early, Remarked
    <2> QED BY <1>1, <2>1
  <1>6. CASE SuspendAllThreads \/ UnlockHeap \/ ResumeAllThreads \/ MarkStackEmpty
             \/ RelockHeap \/ ReScanDone \/ SweepSystemWeaks
    <2>1. /\ UNCHANGED <<referent, mark, word, stack, cur, finger, lists>>
          /\ phase' \in Marking => phase \in Marking
      BY <1>6 DEF SuspendAllThreads, UnlockHeap, ResumeAllThreads, MarkStackEmpty,
         RelockHeap, ReScanDone, SweepSystemWeaks, Goto, Marking, Early, Remarked, TracePhases
    <2> QED BY <1>1, <1>2, <2>1
  <1>7. CASE MarkRootSet
    <2>1. finger' = 0 /\ mark' \subseteq Objects
      BY <1>7 DEF MarkRootSet, StageInv, Unmarked, TypeOK
    <2>2. \A o \in mark' : WordOf(o) >= finger'
      BY <2>1, Numbers
    <2> QED BY <2>2 DEF RefInv, Waiting
  <1>8. CASE WalkNext
    <2>1. UNCHANGED <<referent, mark, phase, lists>> /\ cur = Null
      BY <1>8 DEF WalkNext
    <2>2. \A o \in mark : Waiting(o) => Waiting(o)' \/ o = cur'
      BY <1>8, WalkAhead
    <2>3. \A o \in mark : o # Null
      BY Numbers DEF TypeOK
    <2> QED BY <2>1, <2>2, <2>3 DEF RefInv
  <1>9. CASE WalkDone
    <2>1. /\ UNCHANGED <<referent, mark, stack, word, cur, lists>>
          /\ phase = "walk" /\ \A o \in mark : WordOf(o) < finger
      BY <1>9 DEF WalkDone
    <2>2. \A o \in mark : WordOf(o) \in Nat /\ finger \in Nat
      BY Numbers DEF TypeOK
    <2>3. \A o \in mark : ~(WordOf(o) >= finger)
      BY <2>1, <2>2
    <2>4. phase \in Marking
      BY <2>1 DEF Marking, Early
    <2> QED BY <2>1, <2>3, <2>4 DEF RefInv, Waiting
  <1>10. CASE ScanField
    <2>1. PICK f \in left :
              /\ MarksMore({field[cur][f]})
              /\ cur' = cur \/ (cur' = Null /\ left' = {} /\ cur \notin Refs)
      BY <1>10, ScanFieldStep
    <2>2. UNCHANGED <<referent, lists, word, finger, phase>>
      BY <1>10 DEF ScanField
    <2>3. /\ mark \subseteq mark' /\ stack \subseteq stack'
          /\ \A o \in mark' \ mark : o \in stack' \/ WordOf(o) >= finger
      BY <2>1 DEF MarksMore
    <2> QED BY <2>1, <2>2, <2>3 DEF RefInv, Waiting
  <1>11. CASE DelayReferent
    <2>1. /\ UNCHANGED <<referent, mark, word, finger, phase, stack>>
          /\ lists' = lists \cup Delayed({cur})
      BY <1>11 DEF DelayReferent
    <2>2. cur \in Refs => cur \in lists' \/ referent[cur] \in mark \cup {Null}
      BY <2>1 DEF Delayed
    <2> QED BY <2>1, <2>2 DEF RefInv, Waiting
  <1>12. CASE PopMarkStack
    <2>1. /\ UNCHANGED <<referent, mark, word, finger, phase, lists>> /\ cur = Null
          /\ \E o \in stack : stack' = stack \ {o} /\ cur' = o
      BY <1>12 DEF PopMarkStack, ScanObject
    <2>2. \A o \in mark : o # Null
      BY Numbers DEF TypeOK
    <2> QED BY <2>1, <2>2 DEF RefInv, Waiting
  <1>13. CASE ReMarkRootSet
    <2>1. /\ UNCHANGED <<referent, word, finger, cur, lists>> /\ phase = "reroots"
          /\ MarkObjects(Roots)
      BY <1>13 DEF ReMarkRootSet
    <2>2. Roots \subseteq live \cup {Null}
      BY DEF Roots, HeapInv
    <2>3. MarksMore(Roots)
      BY <2>1, <2>2, MarkMore
    <2>4. phase \in Marking
      BY <2>1 DEF Marking, Early
    <2> QED BY <1>2, <2>1, <2>3, <2>4 DEF MarksMore
  <1>14. CASE ReScanCard
    <2>1. /\ UNCHANGED <<referent, word, finger, cur, phase>> /\ phase = "rescan"
      BY <1>14 DEF ReScanCard
    <2>2. PICK start \in Nat :
              /\ MarksMore(UNION {Targets(o) : o \in ScanHit(start)})
              /\ lists' = lists \cup Delayed(ScanHit(start))
      BY <1>14, ReScanCardStep
    <2>3. /\ mark \subseteq mark' /\ stack \subseteq stack'
          /\ \A o \in mark' \ mark : o \in stack' \/ WordOf(o) >= finger
      BY <2>2 DEF MarksMore
    <2>4. phase \in Marking
      BY <2>1 DEF Marking, Remarked
    <2> QED BY <1>2, <2>1, <2>2, <2>3, <2>4
  <1>15. CASE PreserveSoft
    <2>1. UNCHANGED <<referent, word, finger, cur>> /\ phase \in Marking
      BY <1>15 DEF PreserveSoft, Marking, Remarked
    <2>2. CASE ~Preserve(spec)
      <3>1. UNCHANGED <<mark, stack, lists>>
        BY <1>15, <2>2 DEF PreserveSoft
      <3> QED BY <3>1, <2>1, <1>2
    <2>3. CASE Preserve(spec)
      <3>1. PICK kept \in SUBSET White(lists \cap Soft) :
                /\ MarkObjects({referent[r] : r \in kept})
                /\ lists' = (lists \ Soft) \cup
                       {r \in White(lists \cap Soft) : referent[r] \notin mark'}
        BY <1>15, <2>3 DEF PreserveSoft
      <3>2. kept \subseteq live
        BY <2>1 DEF White, MarkInv
      <3>3. {referent[r] : r \in kept} \subseteq live \cup {Null}
        BY <3>2 DEF HeapInv
      <3>4. MarksMore({referent[r] : r \in kept})
        BY <3>1, <3>3, MarkMore
      <3>5. /\ mark \subseteq mark' /\ stack \subseteq stack'
            /\ \A o \in mark' \ mark : o \in stack' \/ WordOf(o) >= finger
        BY <3>4 DEF MarksMore
      <3>6. \A r \in lists : r \in lists' \/ referent[r] \in mark' \cup {Null}
        BY <3>1, <3>5 DEF White
      <3> QED BY <2>1, <3>5, <3>6 DEF RefInv, Waiting
    <2> QED BY <2>2, <2>3
  <1>16. CASE ClearSoftAndWeak \/ ClearPhantom
    <2>1. /\ UNCHANGED <<mark, word, finger, cur, stack>> /\ phase \in Marking
          /\ \E S : /\ referent' = [r \in Objects |-> IF r \in White(lists \cap S) THEN Null
                                      ELSE referent[r]]
                    /\ lists' = lists \ S
      BY <1>16 DEF ClearSoftAndWeak, ClearPhantom, ClearWhite, Marking, Remarked
    <2>2. PICK S : /\ referent' = [r \in Objects |-> IF r \in White(lists \cap S) THEN Null
                                      ELSE referent[r]]
                   /\ lists' = lists \ S
      BY <2>1
    <2>3. \A r \in Objects : referent'[r] = IF r \in White(lists \cap S) THEN Null ELSE referent[r]
      BY <2>2
    <2>4. \A r \in lists : r \in lists' \/ referent'[r] \in mark \cup {Null}
      <3>1. lists \subseteq Objects
        BY RefsType DEF TypeOK
      <3> QED BY <2>2, <2>3, <3>1 DEF White
    <2>5. mark \subseteq Objects
      BY DEF TypeOK
    <2> QED BY <2>1, <2>3, <2>4, <2>5 DEF RefInv, Waiting
  <1>17. CASE EnqueueFinalizers
    <2> DEFINE due == White(lists \cap Final)
    <2>1. /\ MarkObjects({referent[r] : r \in due}) /\ lists' = lists \ Final
          /\ referent' = [r \in Objects |-> IF r \in due THEN Null ELSE referent[r]]
      BY <1>17 DEF EnqueueFinalizers
    <2>2. UNCHANGED <<word, finger, cur>> /\ phase \in Marking
      BY <1>17 DEF EnqueueFinalizers, Marking, Remarked
    <2>3. due \subseteq live
      BY <2>2 DEF White, MarkInv
    <2>4. \A r \in lists \cap Final : r \in due \/ referent[r] \in mark \cup {Null}
      BY DEF White
    <2> HIDE DEF due
    <2>5. {referent[r] : r \in due} \subseteq live \cup {Null}
      BY <2>3 DEF HeapInv
    <2>6. MarksMore({referent[r] : r \in due})
      BY <2>1, <2>5, MarkMore
    <2>7. /\ mark \subseteq mark' /\ stack \subseteq stack'
          /\ \A o \in mark' \ mark : o \in stack' \/ WordOf(o) >= finger
      BY <2>6 DEF MarksMore
    <2>8. \A r \in Objects : referent'[r] = IF r \in due THEN Null ELSE referent[r]
      BY <2>1
    <2>9. mark \subseteq Objects /\ lists \subseteq Objects
      BY RefsType DEF TypeOK
    <2> QED BY <2>1, <2>2, <2>4, <2>7, <2>8, <2>9 DEF RefInv, Waiting
  <1> HIDE DEF RefInv
  <1> QED BY <1>3, <1>4, <1>5, <1>6, <1>7, <1>8, <1>9, <1>10, <1>11, <1>12, <1>13, <1>14,
       <1>15, <1>16, <1>17, Zenon DEF Next, Collector

(* Every step keeps FinalInv.                                              *)
LEMMA FinalNext ==
    /\ TypeOK /\ TypeOK' /\ LockInv /\ HeapInv /\ BlankInv /\ StageInv /\ StageInv'
    /\ MarkInv /\ RefInv /\ RootInv /\ FinalInv /\ [Next]_vars
    => FinalInv'
  <1> SUFFICES ASSUME TypeOK, TypeOK', LockInv, HeapInv, BlankInv, StageInv, StageInv',
                      MarkInv, RefInv, RootInv, FinalInv, [Next]_vars
               PROVE  FinalInv'
    OBVIOUS
  <1> DEFINE Ended == {"finalTrace", "phantom", "weaks", "swap"}
  <1> USE DEF heapVars, rootVars, threadVars, lockVars, gcVars, scanVars, cardVars
  <1>1. CASE phase' \notin Ended
    BY <1>1 DEF FinalInv
  <1>2. CASE \E t \in Threads : Program(t)
    <2>1. PICK t \in Threads : Program(t)
      BY <1>2
    <2>2. HeapKept(t) /\ CollectorKept /\ (phase' = phase \/ phase' = "suspend")
      BY <2>1, ProgramHeap, ProgramFrame
    <2>3. phase \in Ended => mark \subseteq inUse
      BY DEF MarkInv, HeapInv, Marking, Remarked
    <2> QED BY <2>2, <2>3 DEF CollectorKept, HeapKept, FinalInv
  <1>3. CASE UNCHANGED vars
    BY <1>3 DEF vars, FinalInv
  <1>4. CASE DaemonGc \/ SuspendAllThreads \/ MarkRootSet \/ UnlockHeap
             \/ ResumeAllThreads \/ WalkNext \/ WalkDone \/ RelockHeap \/ ReMarkRootSet
             \/ ReScanCard \/ ReScanDone \/ PreserveSoft \/ ClearSoftAndWeak
             \/ SwapBitmaps \/ SweepWord \/ FreeList \/ SweepDone \/ FinishMark \/ EndGc
    <2>1. phase' \notin Ended
      BY <1>4 DEF DaemonGc, BeginGc, SuspendAllThreads, MarkRootSet, UnlockHeap,
         ResumeAllThreads, WalkNext, WalkDone, RelockHeap, ReMarkRootSet, ReScanCard,
         ReScanDone, PreserveSoft, ClearSoftAndWeak, SwapBitmaps, SweepWord, FreeList,
         SweepDone, FinishMark, EndGc, Goto
    <2> QED BY <1>1, <2>1
  <1>5. CASE ScanField
    <2>1. PICK f \in left :
              MarksMore({field[cur][f]}) /\ f \in Fields /\ cur \in mark
      BY <1>5, ScanFieldStep
    <2>2. UNCHANGED <<referent, lists, phase>>
      BY <1>5 DEF ScanField
    <2>3. field[cur][f] \notin Final
      BY <2>1 DEF BlankInv, TypeOK
    <2> QED BY <2>1, <2>2, <2>3 DEF FinalInv, MarksMore
  <1>6. CASE DelayReferent
    <2>1. /\ UNCHANGED <<referent, mark, phase>> /\ cur # Null
          /\ lists' = lists \cup Delayed({cur})
      BY <1>6 DEF DelayReferent
    <2>2. cur \in mark
      BY <2>1 DEF MarkInv
    <2> QED BY <2>1, <2>2 DEF FinalInv, Delayed
  <1>7. CASE PopMarkStack
    BY <1>7 DEF PopMarkStack, FinalInv
  <1>8. CASE MarkStackEmpty
    <2>1. /\ UNCHANGED <<referent, mark, lists>>
          /\ phase' \in Ended => phase = "finalTrace"
      BY <1>8 DEF MarkStackEmpty, Goto, TracePhases
    <2> QED BY <2>1 DEF FinalInv
  <1>9. CASE EnqueueFinalizers
    <2> DEFINE due == White(lists \cap Final)
    <2>1. /\ MarkObjects({referent[r] : r \in due}) /\ lists' = lists \ Final
          /\ referent' = [r \in Objects |-> IF r \in due THEN Null ELSE referent[r]]
          /\ phase = "final"
      BY <1>9 DEF EnqueueFinalizers
    <2>2. due \subseteq live /\ due \subseteq Objects /\ phase \in Marking
      BY <2>1 DEF White, MarkInv, TypeOK, Marking, Remarked
    <2>3. \A r \in lists \cap Final : r \in due \/ referent[r] \in mark \cup {Null}
      BY DEF White
    <2> HIDE DEF due
    <2>4. {referent[r] : r \in due} \subseteq live \cup {Null}
      BY <2>2 DEF HeapInv
    <2>5. MarksMore({referent[r] : r \in due})
      BY <2>1, <2>4, MarkMore
    <2>6. \A o \in mark' \ mark : o \notin Final
      BY <2>2, <2>5 DEF MarksMore, BlankInv
    <2>7. /\ word = {} /\ stack = {} /\ cur = Null /\ finger = PastEnd
      BY <2>1 DEF StageInv, RootInv, Remarked
    <2>8. \A o \in mark : ~Waiting(o) /\ o # cur
      BY <2>7, Numbers DEF Waiting, TypeOK
    <2>9. Final \subseteq Refs /\ Final \subseteq Objects
      BY RefsType
    <2>10. \A r \in mark \cap Final : r \in lists \/ referent[r] \in mark \cup {Null}
      BY <2>2, <2>8, <2>9 DEF RefInv
    <2>11. \A r \in Objects : referent'[r] = IF r \in due THEN Null ELSE referent[r]
      BY <2>1
    <2>12. mark \subseteq mark'
      BY <2>5 DEF MarksMore
    <2> QED BY <2>1, <2>3, <2>6, <2>9, <2>10, <2>11, <2>12 DEF FinalInv
  <1>10. CASE ClearPhantom
    <2>1. /\ UNCHANGED mark /\ phase = "phantom" /\ lists' \subseteq lists
          /\ referent' = [r \in Objects |-> IF r \in White(lists \cap (Soft \cup Weak \cup Phantom))
                                            THEN Null ELSE referent[r]]
      BY <1>10 DEF ClearPhantom, ClearWhite
    <2>2. \A r \in Objects : referent'[r] \in {referent[r], Null}
      BY <2>1
    <2> QED BY <2>1, <2>2, RefsType DEF FinalInv
  <1>11. CASE SweepSystemWeaks
    BY <1>11 DEF SweepSystemWeaks, FinalInv, Goto
  <1> HIDE DEF FinalInv, Ended
  <1> QED BY <1>2, <1>3, <1>4, <1>5, <1>6, <1>7, <1>8, <1>9, <1>10, <1>11, Zenon
       DEF Next, Collector

(* Every step keeps RootInv.                                               *)
LEMMA RootNext ==
    /\ TypeOK /\ LockInv /\ LockInv' /\ WorldInv /\ HeapInv /\ StageInv /\ MarkInv
    /\ RootInv /\ [Next]_vars
    => RootInv'
  <1> SUFFICES ASSUME TypeOK, LockInv, LockInv', WorldInv, HeapInv, StageInv, MarkInv,
                      RootInv, [Next]_vars
               PROVE  RootInv'
    OBVIOUS
  <1> DEFINE Quiet == {"soft", "weak", "final", "phantom", "weaks", "swap"}
             Rooted == phase \in Remarked \/ (phase \in {"walk", "trace"} /\ ~Concurrent(spec))
  <1> USE DEF heapVars, rootVars, threadVars, lockVars, gcVars, scanVars, cardVars
  <1>a. ASSUME UNCHANGED <<reg, finList>> PROVE Roots' = Roots
    BY <1>a DEF Roots
  <1>1. CASE \E t \in Threads : Program(t)
    <2>1. PICK t \in Threads : Program(t)
      BY <1>1
    <2>2. CASE phase' = "suspend"
      BY <2>2 DEF RootInv, Remarked
    <2>3. CASE UNCHANGED <<phase, by, spec>>
      <3>1. CollectorKept
        BY <2>1, ProgramFrame
      <3>2. CASE Rooted
        <4>1. Halted
          BY <3>2 DEF Halted
        <4>2. UNCHANGED <<reg, weakTable, finList>>
          BY <2>1, <4>1, ProgramHalted
        <4>3. Roots' = Roots
          BY <4>2, <1>a
        <4> QED BY <2>3, <3>1, <4>2, <4>3 DEF RootInv, CollectorKept
      <3>3. CASE ~Rooted
        BY <2>3, <3>1, <3>3 DEF RootInv, Remarked
      <3> QED BY <3>2, <3>3
    <2> QED BY <2>1, <2>2, <2>3, ProgramFrame
  <1>2. CASE UNCHANGED vars
    <2>1. Roots' = Roots
      BY <1>2, <1>a DEF vars
    <2> QED BY <1>2, <2>1 DEF vars, RootInv
  <1>3. CASE DaemonGc \/ SuspendAllThreads \/ UnlockHeap
             \/ RelockHeap \/ SwapBitmaps \/ SweepWord \/ FreeList \/ SweepDone
             \/ FinishMark \/ EndGc
    <2>1. phase' \notin Remarked \cup {"walk", "trace"}
      BY <1>3 DEF DaemonGc, BeginGc, SuspendAllThreads, UnlockHeap, RelockHeap, SwapBitmaps,
         SweepWord, FreeList, SweepDone, FinishMark, EndGc, Goto, Remarked
    <2> QED BY <2>1 DEF RootInv, Remarked
  <1>4. CASE MarkRootSet
    <2>1. /\ Roots \subseteq mark' /\ UNCHANGED <<reg, finList>>
          /\ phase' \in {"unlock", "walk"}
      BY <1>4 DEF MarkRootSet, Goto
    <2>2. Roots' = Roots
      BY <2>1, <1>a
    <2> QED BY <2>1, <2>2 DEF RootInv, Remarked
  <1>5. CASE ResumeAllThreads
    <2>1. phase' \in {"walk", "sweep"} /\ Concurrent(spec')
      BY <1>5 DEF ResumeAllThreads, Goto, LockInv, OnlyConcurrent
    <2> QED BY <2>1 DEF RootInv, Remarked
  <1>6. CASE WalkNext \/ DelayReferent \/ PopMarkStack \/ WalkDone
    <2>1. /\ UNCHANGED <<reg, finList, mark, spec>>
          /\ phase \in {"walk"} \cup TracePhases
          /\ phase' = phase \/ (phase = "walk" /\ phase' = "trace")
      BY <1>6 DEF WalkNext, DelayReferent, PopMarkStack, WalkDone, StageInv, Goto
    <2>2. Roots' = Roots
      BY <2>1, <1>a
    <2> QED BY <2>1, <2>2 DEF RootInv, Remarked, TracePhases
  <1>7. CASE ScanField
    <2>1. UNCHANGED <<reg, finList, spec, phase>> /\ phase \in {"walk"} \cup TracePhases
      BY <1>7 DEF ScanField, StageInv
    <2>2. mark \subseteq mark'
      BY <1>7, ScanFieldStep DEF MarksMore
    <2>3. Roots' = Roots
      BY <2>1, <1>a
    <2> QED BY <2>1, <2>2, <2>3 DEF RootInv, Remarked, TracePhases
  <1>8. CASE MarkStackEmpty
    <2>1. /\ UNCHANGED <<reg, finList, mark, spec, stack, cur>>
          /\ stack = {} /\ cur = Null
          /\ \/ phase = "trace" /\ phase' = "soft" /\ ~Concurrent(spec)
             \/ phase' = "lock"
             \/ phase \in Remarked /\ phase' \in {"soft", "weak", "phantom"}
      BY <1>8 DEF MarkStackEmpty, Goto, TracePhases, Remarked
    <2>2. Roots' = Roots
      BY <2>1, <1>a
    <2> QED BY <2>1, <2>2 DEF RootInv, Remarked
  <1>9. CASE ReMarkRootSet
    <2>1. UNCHANGED <<reg, finList>> /\ MarkObjects(Roots) /\ phase' = "rescan"
      BY <1>9 DEF ReMarkRootSet, Goto
    <2>2. Roots \subseteq live \cup {Null} /\ \A o \in Roots : o \in Objects /\ o # Null
      BY RootsType, Numbers DEF Roots, HeapInv
    <2>3. Roots \subseteq mark'
      BY <2>1, <2>2, MarkMore DEF MarksMore
    <2>4. Roots' = Roots
      BY <2>1, <1>a
    <2> QED BY <2>1, <2>3, <2>4 DEF RootInv
  <1>10. CASE ReScanCard
    <2>1. UNCHANGED <<reg, finList, phase>> /\ phase = "rescan"
      BY <1>10 DEF ReScanCard
    <2>2. mark \subseteq mark'
      BY <1>10, ReScanCardStep DEF MarksMore
    <2>3. Roots' = Roots
      BY <2>1, <1>a
    <2> QED BY <2>1, <2>2, <2>3 DEF RootInv, Remarked
  <1>11. CASE ReScanDone \/ ClearSoftAndWeak \/ ClearPhantom \/ SweepSystemWeaks
    <2>1. /\ UNCHANGED <<reg, finList, mark, stack, cur>>
          /\ phase \in Remarked
          /\ \/ phase = "rescan" /\ phase' = "retrace"
             \/ phase \in Quiet /\ phase' \in {"final", "weaks"}
             \/ phase \in Quiet /\ phase' = "swap" /\ weakTable' \subseteq mark
      BY <1>11 DEF ReScanDone, ClearSoftAndWeak, ClearPhantom, SweepSystemWeaks, Goto, Remarked
    <2>2. Roots' = Roots
      BY <2>1, <1>a
    <2> QED BY <2>1, <2>2 DEF RootInv, Remarked
  <1>12. CASE PreserveSoft
    <2>1. UNCHANGED <<reg, finList, cur>> /\ phase = "soft" /\ phase \in Marking
      BY <1>12 DEF PreserveSoft, Marking, Remarked
    <2>2. Roots' = Roots
      BY <2>1, <1>a
    <2>3. CASE ~Preserve(spec)
      <3>1. UNCHANGED <<mark, stack>> /\ phase' = "weak"
        BY <1>12, <2>3 DEF PreserveSoft, Goto
      <3> QED BY <2>1, <2>2, <3>1 DEF RootInv, Remarked
    <2>4. CASE Preserve(spec)
      <3>1. phase' = "softTrace" /\ mark \subseteq mark'
        BY <1>12, <2>4 DEF PreserveSoft, Goto, MarkObjects
      <3> QED BY <2>1, <2>2, <3>1 DEF RootInv, Remarked
    <2> QED BY <2>3, <2>4
  <1>13. CASE EnqueueFinalizers
    <2>1. /\ UNCHANGED <<reg, finList>> /\ phase = "final" /\ phase' = "finalTrace"
          /\ mark \subseteq mark'
      BY <1>13 DEF EnqueueFinalizers, Goto, MarkObjects
    <2>2. Roots' = Roots
      BY <2>1, <1>a
    <2> QED BY <2>1, <2>2 DEF RootInv, Remarked
  <1> HIDE DEF RootInv
  <1> QED BY <1>1, <1>2, <1>3, <1>4, <1>5, <1>6, <1>7, <1>8, <1>9, <1>10, <1>11, <1>12,
       <1>13, Zenon DEF Next, Collector

(* The phases in which the old live bits are swept.                        *)
Sweeping == {"unlock2", "resume2", "sweep"}

(* Outside the zygote heap a chunk in use is live, or the sweep has it     *)
(* still to visit or to free; and a finalizer reference has a referent or  *)
(* a zombie, not both.                                                     *)
UseInv ==
    /\ \A o \in inUse \ Immune :
          o \in live \/ (phase \in Sweeping /\ (o \in buf \/ (o \in mark /\ WordOf(o) >= finger)))
    /\ \A r \in Final : referent[r] # Null => field[r][Zombie] = Null

(* A collection for an allocation that failed twice marks, and keeps,      *)
(* nothing but what is reachable.                                          *)
ExactInv == spec = "oom" =>
    /\ phase \in Marking => mark \subseteq Reachable
    /\ phase \in {"sweep", "finish", "done"} => live \subseteq Reachable

(* The first state satisfies UseInv and ExactInv.                          *)
LEMMA UseInit == Init => UseInv /\ ExactInv
  <1> SUFFICES ASSUME Init PROVE UseInv /\ ExactInv
    OBVIOUS
  <1>1. \A r \in Refs, f \in Fields : field[r][f] = Null
    BY DEF Init, NoRefs
  <1>2. Zombie \in Fields /\ Final \subseteq Refs
    BY GcAssumption, RefsType
  <1> QED BY <1>1, <1>2 DEF Init, UseInv, ExactInv

(* A step of the program keeps what UseInv is made of.                     *)
LEMMA ProgramUse ==
    ASSUME TypeOK, UseInv, BlankInv, NEW t \in Threads, Program(t)
    PROVE  /\ \A o \in inUse' : o \in inUse \/ o \in live'
           /\ \A r \in Final : referent'[r] # Null => field'[r][Zombie] = Null
  <1>a. /\ field \in [Objects -> [Fields -> Objects \cup {Null}]]
        /\ referent \in [Objects -> Objects \cup {Null}]
        /\ reg \in [Threads -> SUBSET Objects]
        /\ Final \subseteq Refs /\ Final \subseteq Objects /\ Zombie \in Fields
    BY GcAssumption, RefsType DEF TypeOK
  <1> DEFINE OK == /\ \A o \in inUse' : o \in inUse \/ o \in live'
                   /\ \A r \in Final : referent'[r] # Null => field'[r][Zombie] = Null
  <1> USE DEF heapVars, rootVars, threadVars, lockVars, gcVars, scanVars, cardVars
  <1>1. CASE UNCHANGED <<field, referent, inUse>>
    BY <1>1 DEF UseInv
  <1>2. CASE SetFieldObject(t)
    <2>1. PICK o \in reg[t] \ Refs, f \in Fields, v \in reg[t] \cup {Null} :
             field' = [field EXCEPT ![o][f] = v]
      BY <1>2 DEF SetFieldObject
    <2>2. o \in Objects /\ o \notin Final
      BY <1>a, <2>1
    <2>3. \A r \in Final : field'[r] = field[r]
      BY <1>a, <2>1, <2>2
    <2>4. UNCHANGED <<referent, inUse>>
      BY <1>2 DEF SetFieldObject
    <2> QED BY <2>3, <2>4 DEF UseInv
  <1>3. CASE ClearReferent(t)
    <2>1. PICK r \in reg[t] \cap Refs : referent' = [referent EXCEPT ![r] = Null]
      BY <1>3 DEF ClearReferent
    <2>2. \A o \in Objects : referent'[o] \in {referent[o], Null}
      BY <1>a, <2>1
    <2>3. UNCHANGED <<field, inUse>>
      BY <1>3 DEF ClearReferent
    <2> QED BY <1>a, <2>2, <2>3 DEF UseInv
  <1>4. CASE Poll(t)
    <2>1. PICK r \in finList : field' = [field EXCEPT ![r][Zombie] = Null]
      BY <1>4 DEF Poll
    <2>2. r \in Objects
      BY <1>a DEF TypeOK
    <2>3. \A p \in Objects : field'[p][Zombie] \in {field[p][Zombie], Null}
      BY <1>a, <2>1, <2>2
    <2>4. UNCHANGED <<referent, inUse>>
      BY <1>4 DEF Poll
    <2> QED BY <1>a, <2>3, <2>4 DEF UseInv
  <1>5. CASE Allocate(t)
    <2>1. PICK a \in Room(t), v \in reg[t] \cup {Null} :
            /\ inUse' = inUse \cup {a}
            /\ live' = live \cup {a}
            /\ referent' = [referent EXCEPT ![a] = v]
            /\ field' = field
      BY <1>5 DEF Allocate
    <2>2. a \in Objects \ inUse
      BY DEF Room
    <2>3. \A o \in Objects : o # a => referent'[o] = referent[o]
      BY <1>a, <2>1, <2>2
    <2>4. field[a][Zombie] = Null
      BY <1>a, <2>2 DEF BlankInv
    <2> QED BY <1>a, <2>1, <2>3, <2>4 DEF UseInv
  <1>6. CASE Load(t) \/ Drop(t) \/ MarkCard(t) \/ GetReferent(t) \/ Enter(t) \/ LookUp(t)
             \/ LockHeap(t) \/ SafePoint(t) \/ \E what \in Jobs : WantHeap(t, what)
    <2>1. UNCHANGED <<field, referent, inUse>>
      BY <1>6 DEF Load, Drop, MarkCard, GetReferent, Enter, LookUp, LockHeap, SafePoint, WantHeap
    <2> QED BY <2>1, <1>1
  <1>7. CASE AwaitGc(t) \/ \E s : Collect(t, s)
    <2>1. UNCHANGED <<field, referent, inUse>>
      BY <1>7 DEF AwaitGc, Collect
    <2> QED BY <2>1, <1>1
  <1>8. CASE Try(t) \/ Woken(t) \/ Retry(t) \/ Last(t)
    <2>1. \/ Allocate(t) \/ AwaitGc(t) \/ (\E s : Collect(t, s))
          \/ UNCHANGED <<field, referent, inUse>>
      <3>1. CASE Try(t)
        BY <3>1, Zenon DEF Try
      <3>2. CASE Retry(t)
        BY <3>2, Zenon DEF Retry
      <3>3. CASE Woken(t)
        BY <3>3 DEF Woken
      <3>4. CASE Last(t)
        BY <3>4 DEF Last
      <3> QED BY <1>8, <3>1, <3>2, <3>3, <3>4
    <2> QED BY <2>1, <1>1, <1>5, <1>7
  <1> QED BY <1>2, <1>3, <1>4, <1>6, <1>8, Zenon DEF Program

(* Every step keeps UseInv.                                                *)
LEMMA UseNext ==
    /\ TypeOK /\ TypeOK' /\ LockInv /\ HeapInv /\ BlankInv /\ StageInv /\ SweepInv /\ UseInv
    /\ [Next]_vars
    => UseInv'
  <1> SUFFICES ASSUME TypeOK, TypeOK', LockInv, HeapInv, BlankInv, StageInv, SweepInv, UseInv,
                      [Next]_vars
               PROVE  UseInv'
    OBVIOUS
  <1>a. /\ field \in [Objects -> [Fields -> Objects \cup {Null}]]
        /\ referent \in [Objects -> Objects \cup {Null}]
        /\ inUse \subseteq Objects /\ mark \subseteq Objects /\ finger \in Nat
        /\ Final \subseteq Refs /\ Final \subseteq Objects /\ Zombie \in Fields
        /\ \A o \in Objects : WordOf(o) \in Nat /\ WordOf(o) < PastEnd
        /\ PastEnd \in Nat
    BY GcAssumption, RefsType, Numbers DEF TypeOK
  <1> USE DEF heapVars, rootVars, threadVars, lockVars, gcVars, scanVars, cardVars
  <1>1. CASE \E t \in Threads : Program(t)
    <2>1. PICK t \in Threads : Program(t)
      BY <1>1
    <2>2. /\ \A o \in inUse' : o \in inUse \/ o \in live'
          /\ \A r \in Final : referent'[r] # Null => field'[r][Zombie] = Null
      BY <2>1, ProgramUse
    <2>3. /\ CollectorKept /\ live \subseteq live'
          /\ phase' = phase \/ (phase = "idle" /\ phase' = "suspend")
      BY <2>1, ProgramHeap, ProgramFrame DEF HeapKept
    <2> QED BY <2>2, <2>3 DEF UseInv, CollectorKept, Sweeping
  <1>2. ASSUME UNCHANGED <<field, inUse, live>>,
               \A r \in Objects : referent'[r] \in {referent[r], Null},
               phase \notin Sweeping \/ (UNCHANGED <<mark, buf, finger>> /\ phase' \in Sweeping)
        PROVE  UseInv'
    BY <1>a, <1>2 DEF UseInv
  <1>3. CASE UNCHANGED vars
    BY <1>3 DEF vars, UseInv
  <1>4. CASE DaemonGc \/ SuspendAllThreads \/ MarkRootSet \/ WalkNext
             \/ WalkDone \/ ScanField \/ DelayReferent \/ PopMarkStack
             \/ MarkStackEmpty \/ RelockHeap \/ ReMarkRootSet \/ ReScanCard \/ ReScanDone
             \/ PreserveSoft \/ SweepSystemWeaks \/ FinishMark \/ EndGc
    <2>1. UNCHANGED <<field, referent, inUse, live>> /\ phase \notin Sweeping
      BY <1>4 DEF DaemonGc, SuspendAllThreads, MarkRootSet,
         WalkNext, WalkDone, ScanField, DelayReferent, PopMarkStack, gcRunning,
         MarkStackEmpty, RelockHeap, ReMarkRootSet, ReScanCard, ReScanDone, PreserveSoft,
         SweepSystemWeaks, FinishMark, EndGc, StageInv, TracePhases, Sweeping
    <2> QED BY <2>1, <1>2
  <1>5. CASE UnlockHeap \/ ResumeAllThreads
    <2>1. /\ UNCHANGED <<field, referent, inUse, live, mark, buf, finger>>
          /\ phase \notin Sweeping \/ phase' \in Sweeping
      BY <1>5 DEF UnlockHeap, ResumeAllThreads, Goto, Sweeping
    <2> QED BY <2>1, <1>2
  <1>6. CASE ClearSoftAndWeak \/ ClearPhantom
    <2>1. /\ UNCHANGED <<field, inUse, live>> /\ phase \notin Sweeping
          /\ \E S : referent' = [r \in Objects |-> IF r \in White(lists \cap S) THEN Null
                                      ELSE referent[r]]
      BY <1>6 DEF ClearSoftAndWeak, ClearPhantom, ClearWhite, Sweeping
    <2>2. \A o \in Objects : referent'[o] \in {referent[o], Null}
      BY <2>1
    <2> QED BY <2>1, <2>2, <1>2
  <1>7. CASE EnqueueFinalizers
    <2> DEFINE due == White(lists \cap Final)
    <2>1. /\ field' = [r \in Objects |-> IF r \in due
                        THEN [field[r] EXCEPT ![Zombie] = referent[r]]
                        ELSE field[r]]
          /\ referent' = [r \in Objects |-> IF r \in due THEN Null ELSE referent[r]]
          /\ UNCHANGED <<inUse, live>> /\ phase \notin Sweeping
      BY <1>7 DEF EnqueueFinalizers, Sweeping
    <2> HIDE DEF due
    <2>2. \A r \in Final : r \in due \/ (referent'[r] = referent[r] /\ field'[r] = field[r])
      BY <1>a, <2>1
    <2>3. \A r \in Final : r \in due => referent'[r] = Null
      BY <1>a, <2>1
    <2> QED BY <2>1, <2>2, <2>3 DEF UseInv
  <1>8. CASE SwapBitmaps
    <2>1. UNCHANGED <<field, referent, inUse>> /\ mark' = live /\ finger' = 0 /\ phase = "swap"
          /\ phase' \in Sweeping
      BY <1>8 DEF SwapBitmaps, Goto, Sweeping
    <2>2. \A o \in inUse : WordOf(o) >= 0
      BY <1>a
    <2> QED BY <2>1, <2>2 DEF UseInv, Sweeping
  <1>9. CASE SweepWord
    <2>1. /\ UNCHANGED <<field, referent, inUse, live, mark, phase>> /\ finger' = finger + 1
          /\ phase = "sweep" /\ buf \subseteq buf'
          /\ \A o \in mark \ live : WordOf(o) = finger => o \in buf' \/ o \in Immune
      BY <1>9 DEF SweepWord
    <2>2. ASSUME NEW o \in inUse, WordOf(o) >= finger
          PROVE  WordOf(o) = finger \/ WordOf(o) >= finger + 1
      <3>1. WordOf(o) \in Nat /\ finger \in Nat
        BY <1>a, Zenon
      <3> QED BY <2>2, <3>1
    <2> QED BY <2>1, <2>2 DEF UseInv, Sweeping
  <1>10. CASE FreeList
    <2> DEFINE freed == buf \ Immune
    <2>1. /\ inUse' = inUse \ freed /\ live' = live \ buf
          /\ field' = [o \in Objects |-> IF o \in freed THEN NoRefs ELSE field[o]]
          /\ referent' = [o \in Objects |-> IF o \in freed THEN Null ELSE referent[o]]
          /\ UNCHANGED <<mark, finger, phase>> /\ phase = "sweep"
      BY <1>10 DEF FreeList
    <2>2. live' = live
      BY <2>1 DEF SweepInv
    <2>3. \A o \in inUse' \ Immune : o \in inUse /\ o \notin buf
      BY <2>1
    <2>4. \A r \in Objects : /\ r \in freed => referent'[r] = Null
                             /\ r \notin freed => field'[r] = field[r] /\ referent'[r] = referent[r]
      BY <2>1
    <2> HIDE DEF freed
    <2> QED BY <1>a, <2>1, <2>2, <2>3, <2>4 DEF UseInv, Sweeping
  <1>11. CASE SweepDone
    <2>1. /\ UNCHANGED <<field, referent, inUse, live>> /\ buf = {} /\ finger = PastEnd
      BY <1>11 DEF SweepDone
    <2>2. \A o \in inUse : ~(WordOf(o) >= finger)
      BY <1>a, <2>1
    <2> QED BY <2>1, <2>2 DEF UseInv
  <1> HIDE DEF UseInv
  <1> QED BY <1>1, <1>3, <1>4, <1>5, <1>6, <1>7, <1>8, <1>9, <1>10, <1>11, Zenon
       DEF Next, Collector

(* What is reachable: the roots, and the targets of what is.               *)
LEMMA ReachStep ==
    /\ TypeOK => Roots \subseteq Reachable
    /\ TypeOK => \A o \in Reachable : Targets(o) \subseteq Reachable
  <1> SUFFICES ASSUME TypeOK
               PROVE  /\ Roots \subseteq Reachable
                      /\ \A o \in Reachable : Targets(o) \subseteq Reachable
    OBVIOUS
  <1>1. ASSUME NEW o \in Roots PROVE o \in Reachable
    <2>1. o \in Objects
      BY RootsType
    <2>2. \A S \in SUBSET Objects : Roots \subseteq S /\ Closed(S) => o \in S
      BY Zenon
    <2> QED BY <2>1, <2>2, Zenon DEF Reachable
  <1>2. ASSUME NEW o \in Reachable, NEW p \in Targets(o) PROVE p \in Reachable
    <2>1. o \in Objects /\ \A S \in SUBSET Objects : Roots \subseteq S /\ Closed(S) => o \in S
      BY Zenon DEF Reachable
    <2>2. p \in Objects
      BY <2>1, TargetsType
    <2>3. ASSUME NEW S \in SUBSET Objects, Roots \subseteq S, Closed(S) PROVE p \in S
      <3>1. o \in S
        BY <2>1, <2>3
      <3>2. Targets(o) \subseteq S
        BY <2>3, <3>1, Zenon DEF Closed
      <3> QED BY <3>2
    <2> QED BY <2>2, <2>3, Zenon DEF Reachable
  <1> QED BY <1>1, <1>2

(* What is reachable is closed under the fields,                           *)
ReachClosed == Closed(Reachable)

(* after a step as before it.                                              *)
LEMMA ReachClosedNext == TypeOK' => ReachClosed'
  <1>1. TypeOK => ReachClosed
    BY ReachStep DEF ReachClosed, Closed
  <1> QED BY <1>1, PTL

(* Reachability depends on the fields and the roots only.                  *)
LEMMA ReachSame ==
    ASSUME UNCHANGED <<field, reg, finList>> PROVE Reachable' = Reachable
  <1>1. Roots' = Roots
    BY DEF Roots
  <1>2. \A S : Closed(S)' <=> Closed(S)
    BY DEF Closed, Targets
  <1> QED BY <1>1, <1>2 DEF Reachable

(* What stays reachable when the references among a set that holds what is *)
(* reachable are kept.                                                     *)
LEMMA ReachKept ==
    ASSUME NEW L, L \subseteq Objects, Roots \subseteq L, Closed(L), Roots' = Roots,
           \A o \in L : Targets(o) \subseteq Targets(o)'
    PROVE  Reachable \subseteq Reachable'
  <1> SUFFICES ASSUME NEW o \in Reachable PROVE o \in Reachable'
    OBVIOUS
  <1>1. o \in Objects /\ \A S \in SUBSET Objects : Roots \subseteq S /\ Closed(S) => o \in S
    BY Zenon DEF Reachable
  <1>2. ASSUME NEW S \in SUBSET Objects, Roots \subseteq S, Closed(S)' PROVE o \in S
    <2>1. Closed(S \cap L)
      <3>1. ASSUME NEW p \in S \cap L PROVE Targets(p) \subseteq S \cap L
        <4>1. Targets(p)' \subseteq S
          BY <1>2, Zenon DEF Closed
        <4>2. Targets(p) \subseteq L
          BY Zenon DEF Closed
        <4> QED BY <4>1, <4>2
      <3> QED BY <3>1, Zenon DEF Closed
    <2>2. Roots \subseteq S \cap L /\ S \cap L \in SUBSET Objects
      BY <1>2
    <2> QED BY <1>1, <2>1, <2>2
  <1> QED BY <1>1, <1>2, Zenon DEF Reachable

(* Every step keeps ExactInv.                                              *)
LEMMA ExactNext ==
    /\ TypeOK /\ TypeOK' /\ LockInv /\ WorldInv /\ HeapInv /\ BlankInv /\ StageInv /\ MarkInv
    /\ SweepInv /\ UseInv /\ ExactInv /\ [Next]_vars
    => ExactInv'
  <1> SUFFICES ASSUME TypeOK, TypeOK', LockInv, WorldInv, HeapInv, BlankInv, StageInv,
                      MarkInv, SweepInv, UseInv, ExactInv, [Next]_vars, spec' = "oom"
               PROVE  ExactInv'
    BY DEF ExactInv
  <1> DEFINE Swept == {"sweep", "finish", "done"}
  <1> USE DEF heapVars, rootVars, threadVars, lockVars, gcVars, scanVars, cardVars
  <1>1. ASSUME phase' \notin Marking \cup Swept PROVE ExactInv'
    BY <1>1 DEF ExactInv
  <1>2. ASSUME UNCHANGED <<field, reg, finList, mark, live, spec>>,
               phase' \in Marking => phase \in Marking,
               phase' \in Swept => phase \in Swept
        PROVE  ExactInv'
    <2>1. Reachable' = Reachable
      BY <1>2, ReachSame
    <2> QED BY <1>2, <2>1 DEF ExactInv
  <1>3. ASSUME UNCHANGED <<field, reg, finList, spec, phase>>, phase \in Marking,
               mark' \subseteq Reachable
        PROVE  ExactInv'
    <2>1. Reachable' = Reachable
      BY <1>3, ReachSame
    <2>2. phase \notin Swept
      BY <1>3 DEF Marking, Early, Remarked
    <2> QED BY <1>3, <2>1, <2>2 DEF ExactInv
  <1>4. CASE \E t \in Threads : Program(t)
    <2>1. PICK t \in Threads : Program(t)
      BY <1>4
    <2>2. CASE phase' = "suspend"
      BY <2>2, <1>1 DEF Marking, Early, Remarked
    <2>3. CASE UNCHANGED <<phase, by, spec>> /\ phase \in Marking \cup Swept
      <3>1. Halted
        BY <2>3 DEF Halted, Concurrent, Marking, Early, Remarked
      <3>2. UNCHANGED <<field, reg, finList, live>>
        BY <2>1, <3>1, ProgramHalted
      <3>3. mark' = mark
        BY <2>1, ProgramFrame DEF CollectorKept
      <3> QED BY <2>3, <3>2, <3>3, <1>2
    <2> QED BY <2>1, <2>2, <2>3, <1>1, ProgramFrame
  <1>5. CASE UNCHANGED vars
    BY <1>2, <1>5 DEF vars
  <1>6. CASE DaemonGc \/ EndGc \/ UnlockHeap \/ ResumeAllThreads \/ RelockHeap \/ ReMarkRootSet
             \/ ReScanCard \/ ReScanDone \/ (SuspendAllThreads /\ phase # "suspend")
    <2>1. spec' # "oom"
      BY <1>6 DEF DaemonGc, BeginGc, EndGc, UnlockHeap, ResumeAllThreads, RelockHeap,
         ReMarkRootSet, ReScanCard, ReScanDone, SuspendAllThreads, Goto, LockInv,
         OnlyConcurrent, Concurrent
    <2> QED BY <2>1
  <1>7. CASE SuspendAllThreads /\ phase = "suspend"
    BY <1>1, <1>7 DEF SuspendAllThreads, Goto, Marking, Early, Remarked
  <1>8. CASE WalkNext \/ WalkDone \/ DelayReferent \/ PopMarkStack \/ MarkStackEmpty
             \/ ClearSoftAndWeak \/ ClearPhantom \/ SweepSystemWeaks \/ SweepWord \/ SweepDone
             \/ FinishMark
    <2>1. /\ UNCHANGED <<field, reg, finList, live, spec>>
          /\ phase' \in Marking => phase \in Marking
          /\ phase' \in Swept => phase \in Swept
          /\ mark' = mark \/ phase' \notin Marking
      BY <1>8 DEF WalkNext, WalkDone, DelayReferent, PopMarkStack, MarkStackEmpty,
         ClearSoftAndWeak, ClearPhantom, SweepSystemWeaks, SweepWord, SweepDone, FinishMark,
         Goto, Marking, Early, Remarked, TracePhases
    <2>2. Reachable' = Reachable
      BY <2>1, ReachSame
    <2> QED BY <2>1, <2>2 DEF ExactInv
  <1>9. CASE MarkRootSet
    <2>1. /\ UNCHANGED <<field, reg, finList, spec>> /\ phase = "roots" /\ phase' \notin Swept
          /\ mark' = mark \cup Roots \cup IF Partial(spec) THEN live \cap Immune ELSE {}
      BY <1>9 DEF MarkRootSet, Goto
    <2>2. mark = {} /\ ~Partial(spec)
      BY <2>1 DEF StageInv, Unmarked, Partial
    <2>3. mark' \subseteq Reachable
      BY <2>1, <2>2, ReachStep
    <2>4. Reachable' = Reachable
      BY <2>1, ReachSame
    <2> QED BY <2>1, <2>3, <2>4 DEF ExactInv
  <1>10. CASE ScanField
    <2>1. PICK f \in left :
              MarksMore({field[cur][f]}) /\ f \in Fields /\ cur \in mark
      BY <1>10, ScanFieldStep
    <2>2. UNCHANGED <<field, reg, finList, spec, phase>> /\ cur # Null
      BY <1>10 DEF ScanField
    <2>3. phase \in Marking /\ mark \subseteq Reachable
      BY <2>2 DEF StageInv, ExactInv, Marking, Early, Remarked, TracePhases
    <2>4. Targets(cur) \subseteq Reachable
      BY <2>1, <2>3, ReachStep
    <2>5. mark' \ mark \subseteq Reachable
      <3>1. \A o \in mark' \ mark : o = field[cur][f]
        BY <2>1 DEF MarksMore
      <3>2. mark' \subseteq Objects /\ Null \notin Objects
        BY Numbers DEF TypeOK
      <3> QED BY <2>1, <2>4, <3>1, <3>2 DEF Targets
    <2> QED BY <1>3, <2>2, <2>3, <2>5
  <1>11. CASE PreserveSoft
    <2>1. /\ UNCHANGED <<field, reg, finList, spec, live>> /\ phase \in Marking
          /\ phase' \in {"softTrace", "weak"}
      BY <1>11 DEF PreserveSoft, Goto, Marking, Remarked
    <2>2. ~Preserve(spec)
      BY <2>1 DEF Preserve
    <2>3. mark' = mark
      BY <1>11, <2>2 DEF PreserveSoft
    <2> QED BY <1>2, <2>1, <2>3
  <1>12. CASE EnqueueFinalizers
    <2> DEFINE due == White(lists \cap Final)
    <2>1. /\ MarkObjects({referent[r] : r \in due})
          /\ field' = [r \in Objects |-> IF r \in due
                        THEN [field[r] EXCEPT ![Zombie] = referent[r]]
                        ELSE field[r]]
          /\ UNCHANGED <<reg, finList, spec, live>> /\ phase = "final" /\ phase' = "finalTrace"
      BY <1>12 DEF EnqueueFinalizers, Goto
    <2>2. phase \in Marking
      BY <2>1 DEF Marking, Remarked
    <2>3. due \subseteq mark /\ due \subseteq live /\ due \subseteq Final /\ mark \subseteq Reachable
      BY <2>1, <2>2 DEF White, MarkInv, ExactInv
    <2>4. \A r \in due : referent[r] # Null
      BY DEF White
    <2> HIDE DEF due
    <2>5. {referent[r] : r \in due} \subseteq live \cup {Null}
      BY <2>3 DEF HeapInv
    <2>6. MarksMore({referent[r] : r \in due})
      BY <2>1, <2>5, MarkMore
    <2>7. /\ Zombie \in Fields /\ Final \subseteq Objects
          /\ field \in [Objects -> [Fields -> Objects \cup {Null}]]
      BY GcAssumption, RefsType DEF TypeOK
    <2>8. \A o \in Objects, f \in Fields :
             field'[o][f] = IF o \in due /\ f = Zombie THEN referent[o] ELSE field[o][f]
      BY <2>1, <2>7
    <2>9. \A o \in Objects : Targets(o) \subseteq Targets(o)'
      <3>1. \A r \in due : field[r][Zombie] = Null
        BY <2>3, <2>4 DEF UseInv
      <3> QED BY <2>8, <3>1 DEF Targets
    <2>10. Reachable \subseteq Reachable'
      <3>1. Roots' = Roots
        BY <2>1 DEF Roots
      <3>2. Roots \subseteq Objects /\ Closed(Objects)
        BY RootsType, TargetsType, Zenon DEF Closed
      <3> QED BY <2>9, <3>1, <3>2, ReachKept
    <2>11. ASSUME NEW o \in mark' \ mark PROVE o \in Reachable'
      <3>1. PICK r \in due : o = referent[r]
        BY <2>6 DEF MarksMore
      <3>2. r \in Reachable' /\ r \in Objects
        BY <2>3, <2>7, <2>10
      <3>3. field'[r][Zombie] = o
        BY <2>7, <2>8, <3>1, <3>2
      <3>4. o \in Targets(r)'
        BY <2>4, <2>7, <3>1, <3>3 DEF Targets
      <3>5. \A p \in Reachable' : Targets(p)' \subseteq Reachable'
        BY ReachClosedNext DEF ReachClosed, Closed
      <3> QED BY <3>2, <3>4, <3>5
    <2>12. mark' \subseteq Reachable'
      BY <2>3, <2>10, <2>11
    <2> QED BY <2>1, <2>12 DEF ExactInv
  <1>13. CASE SwapBitmaps
    <2>1. /\ UNCHANGED <<field, reg, finList, spec>> /\ phase = "swap" /\ live' = mark
          /\ phase' \in {"unlock2", "sweep"}
      BY <1>13 DEF SwapBitmaps, Goto
    <2>2. mark \subseteq Reachable
      BY <2>1 DEF ExactInv, Marking, Remarked
    <2>3. Reachable' = Reachable
      BY <2>1, ReachSame
    <2> QED BY <2>1, <2>2, <2>3 DEF ExactInv, Marking, Early, Remarked
  <1>14. CASE FreeList
    <2> DEFINE freed == buf \ Immune
    <2>1. /\ live' = live \ buf
          /\ field' = [o \in Objects |-> IF o \in freed THEN NoRefs ELSE field[o]]
          /\ UNCHANGED <<reg, finList, spec, phase>> /\ phase = "sweep"
      BY <1>14 DEF FreeList
    <2>2. live' = live /\ \A o \in live : o \notin freed
      BY <2>1 DEF SweepInv
    <2>3. live \subseteq Reachable /\ live \subseteq Objects
      BY <2>1 DEF ExactInv, TypeOK
    <2> HIDE DEF freed
    <2>4. \A o \in live : Targets(o) \subseteq Targets(o)'
      <3>1. \A o \in live : field'[o] = field[o]
        BY <2>1, <2>2, <2>3
      <3> QED BY <3>1 DEF Targets
    <2>5. Roots \subseteq live /\ Roots' = Roots
      BY <2>1 DEF Roots, HeapInv
    <2>6. Closed(live)
      <3>1. \A o \in live : Targets(o) \subseteq live
        BY DEF HeapInv, Targets
      <3> QED BY <3>1, Zenon DEF Closed
    <2>7. Reachable \subseteq Reachable'
      BY <2>3, <2>4, <2>5, <2>6, ReachKept
    <2>8. phase' \notin Marking
      BY <2>1 DEF Marking, Early, Remarked
    <2> QED BY <2>2, <2>3, <2>7, <2>8 DEF ExactInv
  <1> HIDE DEF ExactInv
  <1> QED BY <1>4, <1>5, <1>6, <1>7, <1>8, <1>9, <1>10, <1>11, <1>12, <1>13, <1>14, Zenon
       DEF Next, Collector

-----------------------------------------------------------------------------
(* The inductive invariant.                                                *)
IInv == /\ TypeOK /\ LockInv /\ WorldInv /\ HeapInv /\ BlankInv /\ StageInv /\ MarkInv
        /\ SweepInv /\ TriInv /\ RefInv /\ FinalInv /\ RootInv /\ UseInv /\ ExactInv

(* The first state satisfies the invariant.                                *)
LEMMA InvInit == Init => IInv
  <1> SUFFICES ASSUME Init PROVE IInv
    OBVIOUS
  <1>1. TypeOK /\ LockInv /\ WorldInv /\ HeapInv /\ BlankInv /\ StageInv /\ MarkInv /\ SweepInv
    BY TypeInit, LockInit, WorldInit, HeapInit, StageInit, SweepInit
  <1>2. TriInv /\ RefInv /\ FinalInv /\ RootInv
    BY DEF Init, TriInv, RefInv, FinalInv, RootInv, Marking, Early, Remarked
  <1> QED BY <1>1, <1>2, UseInit DEF IInv

(* Every step keeps the invariant.                                         *)
LEMMA InvNext == IInv /\ [Next]_vars => IInv'
  <1> SUFFICES ASSUME IInv, [Next]_vars PROVE IInv'
    OBVIOUS
  <1> USE DEF IInv
  <1>1. TypeOK'
    <2>1. StoredInv
      BY DEF WorldInv, StoredInv
    <2> QED BY <2>1, TypeNext
  <1>2. LockInv'
    BY <1>1, LockNext
  <1>3. WorldInv'
    BY <1>2, WorldNext
  <1>4. StageInv'
    BY StageNext
  <1>5. HeapInv' /\ BlankInv'
    BY <1>1, HeapNext
  <1>6. SweepInv' /\ MarkInv'
    BY <1>1, <1>4, SweepNext, MarkNext
  <1>7. TriInv'
    BY <1>1, <1>2, <1>3, <1>4, TriNext
  <1>8. RefInv' /\ FinalInv'
    BY <1>1, <1>4, RefNext, FinalNext
  <1>9. RootInv'
    BY <1>2, RootNext
  <1>10. UseInv' /\ ExactInv'
    BY <1>1, UseNext, ExactNext
  <1> QED BY <1>1, <1>2, <1>3, <1>4, <1>5, <1>6, <1>7, <1>8, <1>9, <1>10

(* The invariant holds in every reachable state.                           *)
LEMMA Invariant == Spec => []IInv
  BY InvInit, InvNext, PTL DEF Spec

(* Every variable of the collector keeps its type: in particular no NULL   *)
(* is marked or pushed (markObject of MarkSweep.cpp tests for it).         *)
THEOREM TypeCorrect == Spec => []TypeOK
  <1>1. IInv => TypeOK
    BY DEF IInv
  <1> QED BY <1>1, Invariant, PTL

(* For any number of threads, a thread that waits in                       *)
(* dvmWaitForConcurrentGcToComplete of Heap.cpp has a collection to wait   *)
(* for.                                                                    *)
THEOREM WaiterSafe == Spec => []WaiterHasGc
  <1>1. IInv => WaiterHasGc
    BY DEF IInv, LockInv, WaiterHasGc, gcRunning
  <1> QED BY <1>1, Invariant, PTL

(* For any heap, words and cards of any size and any number of threads:    *)
(* when the world is stopped again, every marked object with a white       *)
(* reference lies on a dirty card or is on the mark stack                  *)
(* (dvmVerifyCardTable of Verify.cpp).                                     *)
THEOREM GraySafe == Spec => []GrayIsDirty
  <1>1. IInv => GrayIsDirty
    <2> SUFFICES ASSUME IInv, phase = "rescan", NEW o \in mark,
                        CardOf(o) \notin dirty, o \notin stack
                 PROVE  Targets(o) \subseteq mark
      BY DEF GrayIsDirty
    <2>1. word = {} /\ cur = Null /\ finger = PastEnd /\ phase \in Marking
      BY DEF IInv, StageInv, Remarked, Marking, TracePhases
    <2>2. ~Waiting(o) /\ o # cur
      BY <2>1, Numbers DEF IInv, TypeOK, Waiting
    <2>3. ~Watched(o)
      BY DEF Watched, Early
    <2>4. \A f \in Fields : field[o][f] \in mark \cup {Null}
      BY <2>1, <2>2, <2>3 DEF IInv, TriInv
    <2> QED BY <2>4 DEF Targets
  <1> QED BY <1>1, Invariant, PTL

(* No collection begins while one runs: the test at the head of            *)
(* dvmCollectGarbageInternal of Heap.cpp never fires.                      *)
THEOREM NoRecursive == Spec => NoRecursiveGc
  <1>1. IInv /\ [Next]_vars => (phase' = "suspend" /\ phase # "suspend" => phase = "idle")
    <2> SUFFICES ASSUME IInv, [Next]_vars, phase' = "suspend", phase # "suspend"
                 PROVE  phase = "idle"
      OBVIOUS
    <2>1. CASE \E t \in Threads : Program(t)
      BY <2>1, ProgramFrame DEF IInv
    <2>2. CASE DaemonGc
      BY <2>2 DEF DaemonGc, gcRunning
    <2>3. CASE Collector
      <3>1. phase' # "suspend"
        BY <2>3 DEF Collector, SuspendAllThreads, MarkRootSet, UnlockHeap,
           ResumeAllThreads, WalkNext, WalkDone, ScanField, DelayReferent, PopMarkStack,
           MarkStackEmpty, RelockHeap, ReMarkRootSet, ReScanCard, ReScanDone, PreserveSoft,
           ClearSoftAndWeak, EnqueueFinalizers, ClearPhantom, SweepSystemWeaks, SwapBitmaps,
           SweepWord, FreeList, SweepDone, FinishMark, EndGc, Goto, gcVars, TracePhases
      <3> QED BY <3>1
    <2>4. CASE UNCHANGED vars
      BY <2>4 DEF vars, gcVars
    <2> QED BY <2>1, <2>2, <2>3, <2>4, Zenon DEF Next
  <1> QED BY <1>1, Invariant, PTL DEF Spec, NoRecursiveGc

(* What the program can get at is live.                                    *)
LEMMA AccessibleLive == IInv => Accessible \subseteq live
  <1> SUFFICES ASSUME IInv, NEW o \in Accessible PROVE o \in live
    OBVIOUS
  <1>1. live \in SUBSET Objects
    BY DEF IInv, TypeOK
  <1>2. Roots \cup weakTable \subseteq live
    BY DEF IInv, HeapInv, Roots
  <1>3. WeaklyClosed(live)
    <2> SUFFICES ASSUME NEW p \in live
                 PROVE  Targets(p) \subseteq live /\ WeakTargets(p) \subseteq live
      BY Zenon DEF WeaklyClosed
    <2>1. Targets(p) \subseteq live
      BY DEF IInv, HeapInv, Targets
    <2>2. WeakTargets(p) \subseteq live
      BY DEF IInv, HeapInv, WeakTargets
    <2> QED BY <2>1, <2>2
  <1>4. \A S \in SUBSET Objects :
           Roots \cup weakTable \subseteq S /\ WeaklyClosed(S) => o \in S
    BY Zenon DEF Accessible
  <1> QED BY <1>1, <1>2, <1>3, <1>4, Zenon

(* When references are cleared, all that is strongly reachable is marked.  *)
LEMMA ReachableMarked ==
    ASSUME IInv, phase \in {"weak", "phantom"} PROVE Reachable \subseteq mark
  <1> SUFFICES ASSUME NEW o \in Reachable PROVE o \in mark
    OBVIOUS
  <1>1. mark \in SUBSET Objects /\ Roots \subseteq mark
    BY DEF IInv, TypeOK, RootInv, Remarked
  <1>2. \A p \in mark, f \in Fields : field[p][f] \in mark \cup {Null}
    BY MarkedClosed DEF IInv
  <1>3. \A p \in mark : Targets(p) \subseteq mark
    BY <1>2 DEF Targets
  <1>4. Closed(mark)
    BY <1>3, Zenon DEF Closed
  <1>5. \A S \in SUBSET Objects : Roots \subseteq S /\ Closed(S) => o \in S
    BY Zenon DEF Reachable
  <1> QED BY <1>1, <1>4, <1>5, Zenon

(* Whatever the program does while the collector of Heap.cpp and           *)
(* MarkSweep.cpp marks and sweeps, no chunk that dvmHeapSourceFreeList     *)
(* frees is within the program's reach.                                    *)
THEOREM FreesSafe == Spec => FreesOnlyGarbage
  <1>1. IInv /\ IInv' /\ [Next]_vars => \A o \in inUse \ inUse' : o \notin Accessible
    <2> SUFFICES ASSUME IInv, IInv', [Next]_vars, NEW o \in inUse \ inUse' PROVE o \notin live
      BY AccessibleLive
    <2> USE DEF heapVars, rootVars, threadVars, lockVars, gcVars, scanVars, cardVars
    <2>1. CASE \E t \in Threads : Program(t)
      <3>1. inUse \subseteq inUse'
        BY <2>1, ProgramHeap DEF IInv, HeapKept
      <3> QED BY <3>1
    <2>2. CASE FreeList
      <3>1. o \in buf
        BY <2>2 DEF FreeList
      <3> QED BY <3>1 DEF IInv, SweepInv
    <2>3. CASE UNCHANGED vars \/ DaemonGc \/ (Collector /\ ~FreeList)
      <3>1. inUse' = inUse
        BY <2>3 DEF vars, DaemonGc, Collector, SuspendAllThreads, MarkRootSet, UnlockHeap,
           ResumeAllThreads, WalkNext, WalkDone, ScanField, DelayReferent, PopMarkStack,
           MarkStackEmpty, RelockHeap, ReMarkRootSet, ReScanCard, ReScanDone, PreserveSoft,
           ClearSoftAndWeak, EnqueueFinalizers, ClearPhantom, SweepSystemWeaks, SwapBitmaps,
           SweepWord, SweepDone, FinishMark, EndGc
      <3> QED BY <3>1
    <2> QED BY <2>1, <2>2, <2>3, Zenon DEF Next
  <1> QED BY <1>1, Invariant, PTL DEF Spec, FreesOnlyGarbage

(* The one step the collector can take while it clears references.         *)
LEMMA OtherPhase ==
    ASSUME Collector, phase \in {"weak", "phantom"}, cur = Null
    PROVE  IF phase = "weak" THEN ClearSoftAndWeak ELSE ClearPhantom
  BY DEF Collector, SuspendAllThreads, MarkRootSet, UnlockHeap,
     ResumeAllThreads, WalkNext, WalkDone, ScanField, DelayReferent, PopMarkStack,
     MarkStackEmpty, RelockHeap, ReMarkRootSet, ReScanCard, ReScanDone, PreserveSoft,
     ClearSoftAndWeak, EnqueueFinalizers, ClearPhantom, SweepSystemWeaks, SwapBitmaps,
     SweepWord, FreeList, SweepDone, FinishMark, EndGc, TracePhases

(* A reference that loses its referent then has a white, unreachable one.  *)
LEMMA ClearStep ==
    ASSUME IInv, [Next]_vars, phase \in {"weak", "phantom"}, NEW r \in Objects,
           referent'[r] # referent[r]
    PROVE  /\ referent[r] \notin mark /\ referent[r] # Null /\ referent[r] \notin Reachable
           /\ IF phase = "weak" THEN ClearSoftAndWeak ELSE ClearPhantom
  <1>1. CASE \E t \in Threads : Program(t)
    <2>1. Halted
      BY DEF Halted, Remarked
    <2> QED BY <1>1, <2>1, ProgramHalted DEF IInv
  <1>2. CASE DaemonGc \/ UNCHANGED vars
    BY <1>2 DEF DaemonGc, gcRunning, vars, heapVars
  <1>3. CASE Collector
    <2>1. cur = Null
      BY DEF IInv, RootInv
    <2>2. IF phase = "weak" THEN ClearSoftAndWeak ELSE ClearPhantom
      BY <1>3, <2>1, OtherPhase
    <2>3. PICK S : referent' = [q \in Objects |-> IF q \in White(lists \cap S) THEN Null
                                                  ELSE referent[q]]
      BY <2>2 DEF ClearSoftAndWeak, ClearPhantom, ClearWhite
    <2>4. r \in White(lists \cap S)
      BY <2>3
    <2>5. referent[r] \notin mark /\ referent[r] # Null
      BY <2>4 DEF White
    <2> QED BY <2>2, <2>5, ReachableMarked
  <1> QED BY <1>1, <1>2, <1>3, Zenon DEF Next

(* clearWhiteReferences of MarkSweep.cpp clears no soft or weak reference  *)
(* with a strongly reachable referent.                                     *)
THEOREM ClearsSafe == Spec => ClearsOnlyUnreachable
  <1>1. IInv /\ [Next]_vars => (phase = "weak" => \A r \in Objects :
           referent'[r] # referent[r] => referent[r] \notin Reachable)
    BY ClearStep
  <1> QED BY <1>1, Invariant, PTL DEF Spec, ClearsOnlyUnreachable

(* dvmHeapProcessReferences of MarkSweep.cpp clears a phantom reference    *)
(* only when no finalizer reference has its referent any more.             *)
THEOREM PhantomSafe == Spec => PhantomIsLast
  <1>1. IInv /\ [Next]_vars =>
          \A r \in (lists \ lists') \cap Phantom :
             referent'[r] # referent[r] =>
               /\ referent[r] \notin Reachable
               /\ \A q \in finList : referent[q] # referent[r]
    <2> SUFFICES ASSUME IInv, [Next]_vars, NEW r \in (lists \ lists') \cap Phantom,
                        referent'[r] # referent[r]
                 PROVE  /\ referent[r] \notin Reachable
                        /\ \A q \in finList : referent[q] # referent[r]
      OBVIOUS
    <2> USE DEF heapVars, rootVars, threadVars, lockVars, gcVars, scanVars, cardVars
    <2>a. /\ Soft \cap Phantom = {} /\ Weak \cap Phantom = {} /\ Final \cap Phantom = {}
          /\ Phantom \subseteq Objects
      BY GcAssumption
    <2>1. phase = "phantom"
      <3>1. CASE \E t \in Threads : Program(t)
        BY <3>1, ProgramFrame DEF IInv, CollectorKept
      <3>2. CASE ClearSoftAndWeak \/ PreserveSoft \/ EnqueueFinalizers
        <4>1. \/ lists' = lists \ (Soft \cup Weak) \/ lists' = lists \/ lists' = lists \ Final
              \/ \E T : lists' = (lists \ Soft) \cup T
          BY <3>2 DEF ClearSoftAndWeak, ClearWhite, PreserveSoft, EnqueueFinalizers
        <4> QED BY <2>a, <4>1
      <3>3. CASE UNCHANGED vars \/ DaemonGc
                 \/ (Collector /\ ~ClearSoftAndWeak /\ ~PreserveSoft /\ ~EnqueueFinalizers)
        BY <3>3 DEF vars, DaemonGc, Collector, SuspendAllThreads, MarkRootSet, UnlockHeap,
           ResumeAllThreads, WalkNext, WalkDone, ScanField, DelayReferent, PopMarkStack,
           MarkStackEmpty, RelockHeap, ReMarkRootSet, ReScanCard, ReScanDone,
           ClearPhantom, SweepSystemWeaks, SwapBitmaps,
           SweepWord, FreeList, SweepDone, FinishMark, EndGc
      <3> QED BY <3>1, <3>2, <3>3, Zenon DEF Next
    <2>2. referent[r] \notin mark /\ referent[r] # Null /\ referent[r] \notin Reachable
      BY <2>a, <2>1, ClearStep
    <2>3. ASSUME NEW q \in finList PROVE referent[q] \in mark \cup {Null}
      <3>1. finList \subseteq Roots
        BY Zenon DEF Roots
      <3>2. q \in mark /\ q \in Final
        BY <2>1, <3>1 DEF IInv, RootInv, Remarked, TypeOK
      <3> QED BY <2>1, <3>2 DEF IInv, FinalInv
    <2> QED BY <2>2, <2>3
  <1> QED BY <1>1, Invariant, PTL DEF Spec, PhantomIsLast

(* An allocation that throws OutOfMemoryError (tryMalloc of Heap.cpp) has  *)
(* been preceded by a collection that left nothing but reachable objects   *)
(* outside the zygote heap.                                                *)
THEOREM OomSafe == Spec => []OomHeapIsReachable
  <1>1. IInv => OomHeapIsReachable
    BY DEF IInv, UseInv, ExactInv, OomHeapIsReachable, Sweeping
  <1> QED BY <1>1, Invariant, PTL

===========================================================================
