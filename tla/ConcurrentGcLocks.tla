------------------------- MODULE ConcurrentGcLocks -------------------------
(* Facts about ConcurrentGc: numbers and the steps of the scans, the types *)
(* of the variables, who holds the lock of the heap, and when the world is *)
(* stopped.                                                                *)
EXTENDS ConcurrentGc, TLAPS, WellFoundedInduction

(* MinOf picks the least element of a set of numbers that is not empty.    *)
LEMMA NatMin ==
    ASSUME NEW S, S \subseteq Nat, S # {}
    PROVE  MinOf(S) \in S /\ \A y \in S : MinOf(S) <= y
  <1> DEFINE R == OpToRel(<, Nat)
  <1>1. PICK x \in S : \A y \in S : ~(<<y, x>> \in R)
    <2>1. IsWellFoundedOn(R, Nat)
      BY NatLessThanWellFounded
    <2> HIDE DEF R
    <2> QED BY <2>1, WFMin
  <1>2. \A y \in S : ~(y < x)
    BY <1>1, Zenon DEF OpToRel
  <1>3. \A y \in S : x <= y
    BY <1>2
  <1> QED BY <1>3, Zenon DEF MinOf

(* MaxOf picks the greatest element of a bounded set of numbers.           *)
LEMMA BoundedMax ==
    ASSUME NEW S, S \subseteq Nat, S # {}, NEW b \in Nat, \A s \in S : s < b
    PROVE  MaxOf(S) \in S /\ \A y \in S : y <= MaxOf(S)
  <1> DEFINE U == {b - s : s \in S}
  <1>1. U \subseteq Nat /\ U # {}
    <2>1. \A s \in S : b - s \in Nat
      OBVIOUS
    <2> QED BY <2>1, Zenon
  <1>2. MinOf(U) \in U /\ \A y \in U : MinOf(U) <= y
    BY <1>1, NatMin
  <1>3. PICK m \in S : MinOf(U) = b - m
    BY <1>2
  <1>4. ASSUME NEW s \in S PROVE s <= m
    <2>1. b - s \in U
      BY Zenon
    <2> HIDE DEF U
    <2>2. b - m <= b - s
      BY <1>2, <1>3, <2>1
    <2> QED BY <2>2
  <1> QED BY <1>4, Zenon DEF MaxOf

(* A quotient names the word or card that holds an address.                *)
LEMMA DivMod ==
    ASSUME NEW w \in Nat \ {0}
    PROVE /\ \A a \in Nat : /\ a \div w \in Nat
                      /\ (a \div w) * w <= a /\ a < (a \div w + 1) * w
          /\ \A a \in Nat, c \in Nat : c <= a \div w => c * w <= a
          /\ \A a \in Nat, c \in Nat : c * w <= a => c <= a \div w
  OBVIOUS

(* A thread remembers an object exactly while it has its card to dirty.    *)
StoredInv == \A t \in Threads : stored[t] # Null <=> pc[t] = "store"

(* The first state has the right types.                                    *)
LEMMA TypeInit == Init => TypeOK
  <1> SUFFICES ASSUME Init PROVE TypeOK
    OBVIOUS
  <1> USE GcAssumption DEF Init, Phases
  <1>1. field \in [Objects -> [Fields -> Objects \cup {Null}]]
    <2>1. /\ inUse \subseteq Objects
          /\ field \in [Objects -> [Fields -> (inUse \ Final) \cup {Null}]]
      OBVIOUS
    <2> QED BY ONLY <2>1
  <1>2. referent \in [Objects -> Objects \cup {Null}]
    OBVIOUS
  <1>3. reg \in [Threads -> SUBSET Objects]
    OBVIOUS
  <1> QED BY <1>1, <1>2, <1>3 DEF TypeOK

(* An object is a number with a word below the end and a card.             *)
LEMMA Numbers ==
    /\ \A n \in Nat : CardOf(n) \in Nat
    /\ \A o \in Objects : /\ o \in Nat /\ o # Null
                         /\ WordOf(o) \in Nat /\ WordOf(o) < PastEnd /\ CardOf(o) \in Nat
  <1>1. /\ \A n \in Nat : CardOf(n) \in Nat
        /\ \A n \in Nat : WordOf(n) \in Nat
    BY GcAssumption, DivMod DEF WordOf, CardOf
  <1>2. Objects \subseteq Nat /\ Null \notin Nat /\ \A o \in Objects : WordOf(o) < PastEnd
    BY GcAssumption DEF WordOf
  <1> QED BY <1>1, <1>2

(* Reference objects are objects.                                          *)
LEMMA RefsType == Refs \subseteq Objects /\ Final \subseteq Refs /\ Final \subseteq Objects
  BY GcAssumption DEF Refs

(* The roots are objects.                                                  *)
LEMMA RootsType == TypeOK => Roots \subseteq Objects
  <1> SUFFICES ASSUME TypeOK, NEW o \in Roots PROVE o \in Objects
    OBVIOUS
  <1>1. CASE o \in finList
    BY <1>1, RefsType DEF TypeOK
  <1>2. CASE \E t \in Threads : o \in reg[t]
    BY <1>2 DEF TypeOK
  <1> QED BY <1>1, <1>2, Zenon DEF Roots

(* What a field refers to is an object.                                    *)
LEMMA TargetsType == TypeOK => \A o \in Objects : Targets(o) \subseteq Objects
  BY DEF TypeOK, Targets

(* What markObject does to the marks and the mark stack.                   *)
LEMMA MarkFacts ==
    ASSUME NEW S, S \subseteq Objects \cup {Null}, mark \subseteq Objects,
           stack \subseteq Objects, MarkObjects(S), finger \in Nat
    PROVE  /\ mark' = mark \cup (S \ {Null}) /\ mark' \subseteq Objects
           /\ stack \subseteq stack' /\ stack' \subseteq Objects
           /\ \A o \in stack' : o \in stack \/ o \in mark' \ mark
           /\ \A o \in mark' \ mark : o \in stack' \/ WordOf(o) >= finger
  <1> DEFINE white == (S \ {Null}) \ mark
  <1>1. /\ mark' = mark \cup white
        /\ stack' = stack \cup {o \in white : WordOf(o) < finger}
    BY DEF MarkObjects
  <1>2. \A o \in white : o \in Objects /\ (WordOf(o) < finger \/ WordOf(o) >= finger)
    BY Numbers
  <1> QED BY <1>1, <1>2

(* The scan of the cards finds the first dirty card from where it is.      *)
LEMMA ScanCardPlace ==
    ASSUME TypeOK, DirtyFrom(card) # {}
    PROVE  /\ MinOf(DirtyFrom(card)) \in DirtyFrom(card)
           /\ MinOf(DirtyFrom(card)) \in Nat
           /\ \A c \in DirtyFrom(card) : MinOf(DirtyFrom(card)) <= c
           /\ MinOf(DirtyFrom(card)) * CardSize \in Nat
           /\ MinOf(DirtyFrom(card)) * CardSize + CardSize \in Nat
           /\ prevAddr # Null => prevAddr \in Nat /\ prevAddr + CardSize \in Nat
  <1>1. DirtyFrom(card) \subseteq Nat
    BY GcAssumption DEF TypeOK, DirtyFrom, CardOf
  <1>2. /\ MinOf(DirtyFrom(card)) \in DirtyFrom(card)
        /\ \A c \in DirtyFrom(card) : MinOf(DirtyFrom(card)) <= c
    BY <1>1, NatMin
  <1> QED BY <1>1, <1>2, GcAssumption DEF TypeOK

(* An object ends above its address and not above the next object.         *)
LEMMA EndNat ==
    ASSUME NEW m \in Objects
    PROVE  End(m) \in Nat /\ m < End(m) /\ \A o \in Objects : o > m => End(m) <= o
  <1> DEFINE above == {p \in Objects : p > m}
  <1>1. above \subseteq Nat
    BY GcAssumption
  <1>2. CASE above = {}
    <2>1. End(m) = m + 1
      BY <1>2, Zenon DEF End
    <2> QED BY <1>2, <2>1, GcAssumption
  <1>3. CASE above # {}
    <2>1. MinOf(above) \in above /\ \A y \in above : MinOf(above) <= y
      BY <1>1, <1>3, NatMin
    <2>2. End(m) = MinOf(above)
      BY <1>3, Zenon DEF End
    <2> QED BY <1>1, <2>1, <2>2, GcAssumption
  <1> QED BY <1>2, <1>3

(* The last object that the scan of a card takes, and where it ends.       *)
LEMMA HitEnd ==
    ASSUME TypeOK, NEW p \in Nat, NEW l \in Nat,
           LET hit == {o \in mark : o >= p /\ o < l} IN hit # {}
    PROVE  LET hit == {o \in mark : o >= p /\ o < l}
               m == MaxOf(hit)
           IN /\ m \in hit /\ m \in Objects
              /\ End(m) \in Nat /\ m < End(m)
              /\ \A o \in Objects : o > m => End(m) <= o
  <1> DEFINE hit == {o \in mark : o >= p /\ o < l}
  <1>1. hit \subseteq Nat /\ hit \subseteq Objects /\ hit # {} /\ \A s \in hit : s < l
    BY GcAssumption DEF TypeOK
  <1>2. MaxOf(hit) \in hit
    <2> HIDE DEF hit
    <2> QED BY <1>1, BoundedMax
  <1>3. MaxOf(hit) \in Objects
    BY <1>1, <1>2
  <1> QED BY <1>2, <1>3, EndNat

(* The object that the walk over the bitmap takes next.                    *)
LEMMA WalkNextType ==
    ASSUME TypeOK, WalkNext
    PROVE  LET next == IF word # {} THEN MinOf(word)
                       ELSE MinOf({o \in mark : WordOf(o) >= finger})
           IN /\ next \in Objects /\ WordOf(next) \in Nat /\ next # Null
              /\ word # {} => next \in word
              /\ word = {} => /\ next \in mark /\ WordOf(next) >= finger
                             /\ \A o \in mark : WordOf(o) >= finger => next <= o
              /\ finger' = WordOf(next) + 1
              /\ word' = IF word # {} THEN word \ {next}
                         ELSE {o \in mark : WordOf(o) = WordOf(next)} \ {next}
              /\ cur' = next /\ left' = FieldsOf(next)
  <1> DEFINE ahead == {o \in mark : WordOf(o) >= finger}
             next == IF word # {} THEN MinOf(word) ELSE MinOf(ahead)
  <1>a. Objects \subseteq Nat /\ word \subseteq Objects /\ mark \subseteq Objects
    BY GcAssumption DEF TypeOK
  <1>1. /\ word # {} => next \in word
        /\ word = {} => next \in ahead /\ \A o \in ahead : next <= o
    <2>1. CASE word # {}
      BY <1>a, <2>1, NatMin
    <2>2. CASE word = {}
      <3>1. ahead # {} /\ ahead \subseteq Nat
        BY <1>a, <2>2 DEF WalkNext
      <3> HIDE DEF ahead
      <3> QED BY <3>1, <2>2, NatMin
    <2> QED BY <2>1, <2>2
  <1>2. next \in Objects /\ WordOf(next) \in Nat /\ next # Null
    <2>1. next \in Objects
      BY <1>a, <1>1
    <2> QED BY <2>1, Numbers
  <1>3. /\ finger' = WordOf(next) + 1
        /\ word' = IF word # {} THEN word \ {next}
                ELSE {o \in mark : WordOf(o) = WordOf(next)} \ {next}
        /\ cur' = next /\ left' = FieldsOf(next)
    BY DEF WalkNext, ScanObject
  <1>4. word = {} => /\ next \in mark /\ WordOf(next) >= finger
                     /\ \A o \in mark : WordOf(o) >= finger => next <= o
    BY <1>1
  <1> HIDE DEF next
  <1>5. /\ next \in Objects /\ WordOf(next) \in Nat /\ next # Null
        /\ word # {} => next \in word
        /\ word = {} => /\ next \in mark /\ WordOf(next) >= finger
                       /\ \A o \in mark : WordOf(o) >= finger => next <= o
        /\ finger' = WordOf(next) + 1
        /\ word' = IF word # {} THEN word \ {next}
                   ELSE {o \in mark : WordOf(o) = WordOf(next)} \ {next}
        /\ cur' = next /\ left' = FieldsOf(next)
    BY <1>1, <1>2, <1>3, <1>4
  <1> QED BY <1>5, Zenon DEF next

(* A step of the scan of the dirty cards: the objects it takes, and where  *)
(* the scan goes on.                                                       *)
ScanStart(d) == IF prevAddr # Null /\ d = card THEN prevAddr ELSE d * CardSize

(* The marked objects from an address to the end of a card's room.         *)
ScanHit(p) == {o \in mark : o >= p /\ o < p + CardSize}

(* One step of the scan of the dirty cards: where it begins and goes on.   *)
LEMMA ReScanPlace ==
    ASSUME TypeOK, ReScanCard
    PROVE  \E d \in Nat, last \in Nat, limit \in Nat :
              /\ d \in DirtyFrom(card) /\ \A c \in DirtyFrom(card) : d <= c
              /\ ScanStart(d) \in Nat /\ limit = ScanStart(d) + CardSize
              /\ last >= limit => \A o \in Objects : o >= limit => last <= o
              /\ card' = IF last < limit THEN d + 1 ELSE CardOf(last)
              /\ prevAddr' = IF last < limit THEN Null ELSE last
              /\ MarkObjects(UNION {Targets(o) : o \in ScanHit(ScanStart(d))})
              /\ lists' = lists \cup Delayed(ScanHit(ScanStart(d)))
              /\ dirty' = dirty \cup {CardOf(r) : r \in Delayed(ScanHit(ScanStart(d)))}
  <1> DEFINE d == MinOf(DirtyFrom(card))
             ptr == ScanStart(d)
             limit == ptr + CardSize
             hit == ScanHit(ptr)
             last == IF hit = {} THEN ptr ELSE End(MaxOf(hit))
  <1>1. DirtyFrom(card) # {}
    BY DEF ReScanCard
  <1>2. /\ d \in Nat /\ d \in DirtyFrom(card)
        /\ \A c \in DirtyFrom(card) : d <= c
    BY <1>1, ScanCardPlace
  <1>3. ptr \in Nat /\ limit \in Nat /\ CardSize \in Nat \ {0}
    BY <1>1, ScanCardPlace, GcAssumption DEF ScanStart, TypeOK
  <1>4. hit = {o \in mark : o >= ptr /\ o < limit}
    BY DEF ScanHit
  <1>5. last \in Nat /\ (last >= limit => \A o \in Objects : o >= limit => last <= o)
    <2> HIDE DEF ptr
    <2>1. CASE hit = {}
      BY <1>3, <2>1
    <2>2. CASE hit # {}
      <3> DEFINE m == MaxOf(hit)
      <3>1. m \in hit /\ m \in Objects /\ End(m) \in Nat
            /\ \A o \in Objects : o > m => End(m) <= o
        <4> HIDE DEF limit
        <4> QED BY <1>3, <1>4, <2>2, HitEnd
      <3>2. m \in Nat /\ m < limit
        BY <1>3, <1>4, <3>1, GcAssumption
      <3>3. last = End(m)
        BY <2>2
      <3> HIDE DEF m, hit, last
      <3>4. \A o \in Objects : o >= limit => o > m
        BY <3>2, <1>3, GcAssumption
      <3> QED BY <3>1, <3>2, <3>3, <3>4
    <2> QED BY <2>1, <2>2
  <1>6. /\ card' = IF last < limit THEN d + 1 ELSE CardOf(last)
        /\ prevAddr' = IF last < limit THEN Null ELSE last
        /\ MarkObjects(UNION {Targets(o) : o \in hit})
        /\ lists' = lists \cup Delayed(hit)
        /\ dirty' = dirty \cup {CardOf(r) : r \in Delayed(hit)}
    BY DEF ReScanCard, ScanStart, ScanHit
  <1> HIDE DEF d, last
  <1> QED BY <1>2, <1>3, <1>5, <1>6

(* Every step keeps the types.                                             *)
LEMMA TypeNext == TypeOK /\ StoredInv /\ [Next]_vars => TypeOK'
  <1> SUFFICES ASSUME TypeOK, StoredInv, [Next]_vars PROVE TypeOK'
    OBVIOUS
  <1> USE GcAssumption DEF TypeOK, heapVars, rootVars, threadVars, lockVars, gcVars,
        scanVars, cardVars, Running
  <1>1. CASE UNCHANGED vars
    BY <1>1 DEF vars
  <1>2. ASSUME NEW t \in Threads, Load(t) PROVE TypeOK'
    BY <1>2 DEF Load
  <1>3. ASSUME NEW t \in Threads, Drop(t) PROVE TypeOK'
    BY <1>3 DEF Drop
  <1>4. ASSUME NEW t \in Threads, SetFieldObject(t) PROVE TypeOK'
    BY <1>4 DEF SetFieldObject
  <1>5. ASSUME NEW t \in Threads, MarkCard(t) PROVE TypeOK'
    BY <1>5 DEF MarkCard, StoredInv
  <1>6. ASSUME NEW t \in Threads, GetReferent(t) PROVE TypeOK'
    BY <1>6 DEF GetReferent
  <1>7. ASSUME NEW t \in Threads, ClearReferent(t) PROVE TypeOK'
    BY <1>7 DEF ClearReferent
  <1>8. ASSUME NEW t \in Threads, Enter(t) PROVE TypeOK'
    BY <1>8 DEF Enter
  <1>9. ASSUME NEW t \in Threads, LookUp(t) PROVE TypeOK'
    BY <1>9 DEF LookUp
  <1>10. ASSUME NEW t \in Threads, Poll(t) PROVE TypeOK'
    <2>1. PICK r \in finList :
            /\ field[r][Zombie] # Null
            /\ reg' = [reg EXCEPT ![t] = @ \cup {field[r][Zombie]}]
            /\ field' = [field EXCEPT ![r][Zombie] = Null]
            /\ finList' = finList \ {r}
      BY <1>10 DEF Poll
    <2>2. r \in Objects
      OBVIOUS
    <2>3. field[r][Zombie] \in Objects
      BY <2>1, <2>2
    <2>4. reg' \in [Threads -> SUBSET Objects]
      BY <2>1, <2>3
    <2>5. field' \in [Objects -> [Fields -> Objects \cup {Null}]]
      BY <2>1, <2>2
    <2> QED BY <1>10, <2>1, <2>4, <2>5 DEF Poll
  <1>11. ASSUME NEW t \in Threads, NEW what \in Jobs, WantHeap(t, what) PROVE TypeOK'
    BY <1>11 DEF WantHeap
  <1>12. ASSUME NEW t \in Threads, LockHeap(t) PROVE TypeOK'
    BY <1>12 DEF LockHeap
  <1>13. ASSUME NEW t \in Threads, Allocate(t) PROVE TypeOK'
    <2>1. PICK a \in Room(t), v \in reg[t] \cup {Null} :
            /\ inUse' = inUse \cup {a}
            /\ live' = live \cup {a}
            /\ referent' = [referent EXCEPT ![a] = v]
            /\ IF a \in Refs
               THEN /\ pc' = [pc EXCEPT ![t] = "store"]
                    /\ stored' = [stored EXCEPT ![t] = a]
               ELSE /\ pc' = [pc EXCEPT ![t] = "run"]
                    /\ UNCHANGED stored
            /\ IF a \in Final
               THEN /\ finList' = finList \cup {a}
                    /\ UNCHANGED reg
               ELSE /\ reg' = [reg EXCEPT ![t] = @ \cup {a}]
                    /\ UNCHANGED finList
            /\ job' = [job EXCEPT ![t] = "none"]
            /\ heapLock' = Nobody
      BY <1>13 DEF Allocate
    <2>2. a \in Objects /\ v \in Objects \cup {Null}
      BY DEF Room
    <2>3. referent' \in [Objects -> Objects \cup {Null}]
      BY <2>1, <2>2
    <2>4. reg' \in [Threads -> SUBSET Objects] /\ finList' \subseteq Final
      BY <2>1, <2>2
    <2>5. /\ stored' \in [Threads -> Objects \cup {Null}]
          /\ pc' \in [Threads -> {"run", "store", "lock", "try", "wait", "relock",
                           "woken", "retry", "last", "collect"}]
      BY <2>1, <2>2
    <2> QED BY <1>13, <2>1, <2>2, <2>3, <2>4, <2>5 DEF Allocate
  <1>14. ASSUME NEW t \in Threads, AwaitGc(t) PROVE TypeOK'
    BY <1>14 DEF AwaitGc
  <1>15. ASSUME NEW t \in Threads, NEW s \in {"explicit", "malloc", "oom"}, Collect(t, s) PROVE TypeOK'
    BY <1>15 DEF Collect, BeginGc, Phases
  <1>16. ASSUME NEW t \in Threads, SafePoint(t) PROVE TypeOK'
    BY <1>16 DEF SafePoint
  <1>17. ASSUME DaemonGc PROVE TypeOK'
    BY <1>17 DEF DaemonGc, BeginGc, Phases
  <1>18. ASSUME SuspendAllThreads PROVE TypeOK'
    BY <1>18 DEF SuspendAllThreads, Goto, Phases
  <1>19. ASSUME MarkRootSet PROVE TypeOK'
    <2>1. mark' \subseteq Objects
      BY <1>19, RootsType DEF MarkRootSet
    <2> QED BY <1>19, <2>1 DEF MarkRootSet, Goto, Phases
  <1>20. ASSUME UnlockHeap PROVE TypeOK'
    BY <1>20 DEF UnlockHeap, Goto, Phases
  <1>21. ASSUME ResumeAllThreads PROVE TypeOK'
    BY <1>21 DEF ResumeAllThreads, Goto, Phases
  <1>22. ASSUME WalkNext PROVE TypeOK'
    <2> DEFINE ahead == {o \in mark : WordOf(o) >= finger}
               next == IF word # {} THEN MinOf(word) ELSE MinOf(ahead)
    <2>1. next \in Objects
      <3>1. CASE word # {}
        BY <3>1, NatMin
      <3>2. CASE word = {}
        <4>1. ahead # {} /\ ahead \subseteq Objects
          BY <3>2, <1>22 DEF WalkNext
        <4> HIDE DEF ahead
        <4> QED BY <4>1, <3>2, NatMin
      <3> QED BY <3>1, <3>2
    <2>2. WordOf(next) \in Nat
      BY <2>1, Numbers
    <2>3. /\ finger' = WordOf(next) + 1
          /\ word' = IF word # {} THEN word \ {next}
                  ELSE {o \in mark : WordOf(o) = WordOf(next)} \ {next}
          /\ cur' = next /\ left' = FieldsOf(next)
      BY <1>22 DEF WalkNext, ScanObject
    <2>4. FieldsOf(next) \subseteq Fields
      BY DEF FieldsOf
    <2>5. word' \subseteq Objects
      <3> HIDE DEF next
      <3> QED BY <2>3
    <2>6. finger' \in Nat /\ cur' \in Objects \cup {Null} /\ left' \subseteq Fields
      <3> HIDE DEF next
      <3> QED BY <2>1, <2>2, <2>3, <2>4
    <2> HIDE DEF next
    <2> QED BY <1>22, <2>5, <2>6 DEF WalkNext
  <1>23. ASSUME WalkDone PROVE TypeOK'
    BY <1>23 DEF WalkDone, Goto, Phases, TracePhases
  <1>24. ASSUME ScanField PROVE TypeOK'
    <2>1. MinOf(left) \in Fields
      BY <1>24, NatMin DEF ScanField
    <2>2. {field[cur][MinOf(left)]} \subseteq Objects \cup {Null}
      <3>1. cur \in Objects
        BY <1>24 DEF ScanField
      <3>2. \A f \in Fields : field[cur][f] \in Objects \cup {Null}
        BY <3>1
      <3>3. field[cur][MinOf(left)] \in Objects \cup {Null}
        BY <2>1, <3>2, Zenon
      <3> QED BY <3>3, Zenon
    <2>3. MarkObjects({field[cur][MinOf(left)]})
      BY <1>24 DEF ScanField
    <2>4. mark' \subseteq Objects /\ stack' \subseteq Objects
      BY <2>2, <2>3, MarkFacts
    <2> QED BY <1>24, <2>4 DEF ScanField
  <1>25. ASSUME DelayReferent PROVE TypeOK'
    BY <1>25 DEF DelayReferent, Delayed
  <1>26. ASSUME PopMarkStack PROVE TypeOK'
    <2>1. PICK o \in stack : stack' = stack \ {o} /\ cur' = o /\ left' = FieldsOf(o)
      BY <1>26 DEF PopMarkStack, ScanObject
    <2>2. FieldsOf(o) \subseteq Fields
      BY DEF FieldsOf
    <2> QED BY <1>26, <2>1, <2>2 DEF PopMarkStack
  <1>27. ASSUME MarkStackEmpty PROVE TypeOK'
    BY <1>27 DEF MarkStackEmpty, Goto, Phases, TracePhases
  <1>28. ASSUME RelockHeap PROVE TypeOK'
    BY <1>28 DEF RelockHeap, Goto, Phases
  <1>29. ASSUME ReMarkRootSet PROVE TypeOK'
    <2>1. mark' \subseteq Objects /\ stack' \subseteq Objects
      BY <1>29, RootsType, MarkFacts DEF ReMarkRootSet
    <2> QED BY <1>29, <2>1 DEF ReMarkRootSet, Goto, Phases
  <1>30. ASSUME ReScanCard PROVE TypeOK'
    <2> DEFINE d == MinOf(DirtyFrom(card))
               ptr == IF prevAddr # Null /\ d = card THEN prevAddr ELSE d * CardSize
               limit == ptr + CardSize
               hit == {o \in mark : o >= ptr /\ o < limit}
               last == IF hit = {} THEN ptr ELSE End(MaxOf(hit))
    <2>1. MarkObjects(UNION {Targets(o) : o \in hit})
      BY <1>30 DEF ReScanCard
    <2>2. UNION {Targets(o) : o \in hit} \subseteq Objects
      <3>1. hit \subseteq Objects
        OBVIOUS
      <3> HIDE DEF hit
      <3> QED BY <3>1, TargetsType
    <2>3. mark' \subseteq Objects /\ stack' \subseteq Objects
      BY <2>1, <2>2, MarkFacts
    <2>4. d \in Nat /\ ptr \in Nat /\ limit \in Nat
      BY <1>30, ScanCardPlace DEF ReScanCard
    <2>5. last \in Nat
      <3> HIDE DEF ptr, limit
      <3>1. CASE hit = {}
        BY <2>4, <3>1
      <3>2. CASE hit # {}
        BY <2>4, <3>2, HitEnd
      <3> QED BY <3>1, <3>2
    <2>6. /\ lists' = lists \cup Delayed(hit)
          /\ dirty' = dirty \cup {CardOf(r) : r \in Delayed(hit)}
          /\ card' = IF last < limit THEN d + 1 ELSE CardOf(last)
          /\ prevAddr' = IF last < limit THEN Null ELSE last
      BY <1>30 DEF ReScanCard
    <2>7. Delayed(hit) \subseteq Refs /\ Delayed(hit) \subseteq Objects
      BY DEF Delayed
    <2>8. CardOf(last) \in Nat
      <3> HIDE DEF last
      <3> QED BY <2>5 DEF CardOf
    <2>9. /\ lists' \subseteq Refs
          /\ dirty' \subseteq {CardOf(o) : o \in Objects}
      <3> HIDE DEF hit
      <3>1. lists' \subseteq Refs
        BY <2>6, <2>7
      <3>2. \A r \in Delayed(hit) : CardOf(r) \in {CardOf(o) : o \in Objects}
        BY <2>7
      <3>3. dirty' \subseteq {CardOf(o) : o \in Objects}
        BY <2>6, <3>2
      <3> QED BY <3>1, <3>3
    <2>10. card' \in Nat /\ prevAddr' \in Nat \cup {Null}
      <3> HIDE DEF d, last, limit, hit
      <3> QED BY <2>4, <2>5, <2>6, <2>8
    <2> HIDE DEF d, last, limit, hit
    <2> QED BY <1>30, <2>3, <2>9, <2>10 DEF ReScanCard
  <1>31. ASSUME ReScanDone PROVE TypeOK'
    BY <1>31 DEF ReScanDone, Goto, Phases, TracePhases
  <1>32. ASSUME PreserveSoft PROVE TypeOK'
    <2>1. CASE Preserve(spec)
      <3>1. PICK kept \in SUBSET White(lists \cap Soft) :
                /\ MarkObjects({referent[r] : r \in kept})
                /\ lists' = (lists \ Soft) \cup
                       {r \in White(lists \cap Soft) : referent[r] \notin mark'}
                /\ Goto("softTrace")
        BY <1>32, <2>1 DEF PreserveSoft
      <3>2. kept \subseteq Objects /\ White(lists \cap Soft) \subseteq lists
        BY DEF White
      <3>3. {referent[r] : r \in kept} \subseteq Objects \cup {Null}
        BY <3>2
      <3>4. mark' \subseteq Objects /\ stack' \subseteq Objects
        BY <3>1, <3>3, MarkFacts
      <3>5. lists' \subseteq Refs
        BY <3>1, <3>2
      <3> QED BY <1>32, <3>1, <3>4, <3>5 DEF PreserveSoft, Goto, Phases, TracePhases
    <2>2. CASE ~Preserve(spec)
      <3>1. Goto("weak") /\ UNCHANGED <<mark, stack, lists>>
        BY <1>32, <2>2, Zenon DEF PreserveSoft
      <3> QED BY <1>32, <3>1 DEF PreserveSoft, Goto, Phases
    <2> QED BY <2>1, <2>2
  <1>33. ASSUME ClearSoftAndWeak PROVE TypeOK'
    BY <1>33 DEF ClearSoftAndWeak, Goto, Phases, ClearWhite
  <1>34. ASSUME EnqueueFinalizers PROVE TypeOK'
    <2> DEFINE due == White(lists \cap Final)
    <2>1. due \subseteq Objects /\ due \subseteq lists
      BY DEF White
    <2>2. {referent[r] : r \in due} \subseteq Objects \cup {Null}
      <3>1. \A r \in due : referent[r] \in Objects \cup {Null}
        BY <2>1
      <3> HIDE DEF due
      <3> QED BY <3>1
    <2>3. MarkObjects({referent[r] : r \in due})
      BY <1>34 DEF EnqueueFinalizers
    <2>4. mark' \subseteq Objects /\ stack' \subseteq Objects
      BY <2>2, <2>3, MarkFacts
    <2>5. /\ field' = [r \in Objects |-> IF r \in due
                        THEN [field[r] EXCEPT ![Zombie] = referent[r]]
                        ELSE field[r]]
          /\ dirty' = dirty \cup {CardOf(r) : r \in due}
          /\ referent' = [r \in Objects |-> IF r \in due THEN Null ELSE referent[r]]
          /\ lists' = lists \ Final
      BY <1>34 DEF EnqueueFinalizers
    <2> HIDE DEF due
    <2>6. field' \in [Objects -> [Fields -> Objects \cup {Null}]]
      <3>1. \A r \in Objects : [field[r] EXCEPT ![Zombie] = referent[r]]
                                \in [Fields -> Objects \cup {Null}]
        OBVIOUS
      <3> QED BY <2>5, <3>1
    <2>7. /\ referent' \in [Objects -> Objects \cup {Null}]
          /\ dirty' \subseteq {CardOf(o) : o \in Objects}
      BY <2>1, <2>5
    <2> QED BY <1>34, <2>4, <2>5, <2>6, <2>7 DEF EnqueueFinalizers, Goto, Phases, TracePhases
  <1>35. ASSUME ClearPhantom PROVE TypeOK'
    BY <1>35 DEF ClearPhantom, Goto, Phases, ClearWhite
  <1>36. ASSUME SweepSystemWeaks PROVE TypeOK'
    BY <1>36 DEF SweepSystemWeaks, Goto, Phases
  <1>37. ASSUME SwapBitmaps PROVE TypeOK'
    BY <1>37 DEF SwapBitmaps, Goto, Phases
  <1>38. ASSUME SweepWord PROVE TypeOK'
    <2>1. finger' = finger + 1 /\ buf' \subseteq Objects
      BY <1>38 DEF SweepWord
    <2> QED BY <1>38, <2>1 DEF SweepWord
  <1>39. ASSUME FreeList PROVE TypeOK'
    BY <1>39 DEF FreeList, NoRefs
  <1>40. ASSUME SweepDone PROVE TypeOK'
    BY <1>40 DEF SweepDone, Goto, Phases
  <1>41. ASSUME FinishMark PROVE TypeOK'
    BY <1>41 DEF FinishMark, Goto, Phases
  <1>42. ASSUME EndGc PROVE TypeOK'
    BY <1>42 DEF EndGc, Phases
  <1>43. ASSUME NEW t \in Threads, Program(t) PROVE TypeOK'
    <2>1. CASE Try(t)
      BY <2>1, <1>13, <1>14, <1>15, Zenon DEF Try
    <2>2. CASE Woken(t)
      <3>1. CASE AwaitGc(t)
        BY <3>1, <1>14
      <3>2. CASE Collect(t, "explicit")
        BY <3>2, <1>15
      <3>3. CASE ~AwaitGc(t) /\ ~Collect(t, "explicit")
        <4>1. /\ pc' = [pc EXCEPT ![t] = "retry"]
              /\ UNCHANGED <<heapVars, rootVars, job, stored, lockVars, gcVars,
                             scanVars, cardVars, buf>>
          BY <3>3, <2>2, Zenon DEF Woken
        <4> QED BY <4>1
      <3> QED BY <3>1, <3>2, <3>3
    <2>3. CASE Retry(t)
      BY <2>3, <1>13, <1>15, Zenon DEF Retry
    <2>4. CASE Last(t)
      <3>1. CASE Allocate(t)
        BY <3>1, <1>13
      <3>2. CASE ~Allocate(t)
        <4>1. /\ heapLock' = Nobody
              /\ pc' = [pc EXCEPT ![t] = "run"]
              /\ job' = [job EXCEPT ![t] = "none"]
              /\ UNCHANGED <<heapVars, rootVars, stored, stopped, gcVars,
                         scanVars, cardVars, buf>>
          BY <3>2, <2>4, Zenon DEF Last
        <4> QED BY <4>1
      <3> QED BY <3>1, <3>2
    <2> HIDE DEF TypeOK
    <2> QED BY <1>2, <1>3, <1>4, <1>5, <1>6, <1>7, <1>8, <1>9, <1>10, <1>11, <1>12,
         <1>16, <1>43, <2>1, <2>2, <2>3, <2>4, Zenon DEF Program
  <1> HIDE DEF TypeOK
  <1> QED
    BY <1>1, <1>17, <1>18, <1>19, <1>20, <1>21, <1>22, <1>23, <1>24, <1>25, <1>26,
       <1>27, <1>28, <1>29, <1>30, <1>31, <1>32, <1>33, <1>34, <1>35, <1>36, <1>37,
       <1>38, <1>39, <1>40, <1>41, <1>42, <1>43, Zenon DEF Next, Collector

(* The places at which a thread of the program holds gcHeapLock.           *)
HoldsHeap == {"try", "woken", "retry", "last"}

(* The phases of every collection in which the collector holds it.         *)
LockedPhases == {"suspend", "roots", "unlock", "suspend2", "reroots", "rescan",
                 "retrace", "soft", "softTrace", "weak", "final", "finalTrace",
                 "phantom", "weaks", "swap", "unlock2", "done"}

(* The phases that only a concurrent collection has.                       *)
OnlyConcurrent == {"unlock", "resume", "lock", "suspend2", "reroots", "rescan",
                   "retrace", "unlock2", "resume2", "lock3"}

(* Who holds the lock of the heap, who collects and who waits for it.      *)
LockInv ==
    /\ \A t \in Threads :
        /\ pc[t] \in HoldsHeap => heapLock = t
        /\ pc[t] \in {"retry", "last"} => phase = "idle"
        /\ pc[t] = "collect" <=> phase # "idle" /\ by = t
        /\ pc[t] = "wait" => phase # "idle" /\ Concurrent(spec)
    /\ phase # "idle" => by \in Threads \cup {Daemon}
    /\ phase \in LockedPhases \/ (phase # "idle" /\ ~Concurrent(spec)) => heapLock = by
    /\ phase \in OnlyConcurrent => Concurrent(spec)

(* The first state satisfies LockInv.                                      *)
LEMMA LockInit == Init => LockInv
  BY GcAssumption DEF Init, LockInv, HoldsHeap, LockedPhases, OnlyConcurrent

(* Every step keeps LockInv: a collection that stops the world keeps the   *)
(* lock throughout, a concurrent one gives it up only where LockedPhases   *)
(* says so, and a thread gives it up before it waits.                      *)
LEMMA LockNext == TypeOK /\ TypeOK' /\ LockInv /\ [Next]_vars => LockInv'
  <1> SUFFICES ASSUME TypeOK, TypeOK', LockInv, [Next]_vars PROVE LockInv'
    OBVIOUS
  <1>a. /\ pc \in [Threads -> {"run", "store", "lock", "try", "wait", "relock",
                           "woken", "retry", "last", "collect"}]
        /\ heapLock \in Threads \cup {Daemon, Nobody}
        /\ Daemon \notin Threads /\ Nobody \notin Threads /\ Daemon # Nobody
        /\ phase \in Phases
    BY GcAssumption DEF TypeOK
  <1> USE <1>a DEF LockInv, heapVars, rootVars, threadVars, lockVars, gcVars, scanVars,
                   cardVars, Running, HoldsHeap
  <1>1. CASE UNCHANGED vars
    BY <1>1 DEF vars
  <1>2. ASSUME NEW t \in Threads,
               UNCHANGED <<heapLock, phase, by, spec>>, UNCHANGED pc
        PROVE LockInv'
    BY <1>2
  <1>3. ASSUME NEW t \in Threads, NEW p \in {"run", "store"}, pc[t] \in {"run", "store"},
               UNCHANGED <<heapLock, phase, by, spec>>, pc' = [pc EXCEPT ![t] = p]
        PROVE LockInv'
    BY <1>3
  <1>4. ASSUME NEW t \in Threads, NEW what \in Jobs, WantHeap(t, what) PROVE LockInv'
    BY <1>4 DEF WantHeap
  <1>5. ASSUME NEW t \in Threads, LockHeap(t) PROVE LockInv'
    <2>1. PICK p \in {"try", "woken"} : pc' = [pc EXCEPT ![t] = p]
      BY <1>5 DEF LockHeap
    <2>2. /\ pc[t] \in {"lock", "relock"} /\ heapLock = Nobody /\ heapLock' = t
          /\ UNCHANGED <<phase, by, spec>>
      BY <1>5 DEF LockHeap
    <2>3. ~(phase \in LockedPhases \/ (phase # "idle" /\ ~Concurrent(spec)))
      BY <2>2 DEF LockedPhases
    <2> QED BY <2>1, <2>2, <2>3
  <1>6. ASSUME NEW t \in Threads, Allocate(t), pc[t] \in HoldsHeap PROVE LockInv'
    <2>1. heapLock = t /\ heapLock' = Nobody /\ UNCHANGED <<phase, by, spec>>
      BY <1>6 DEF Allocate
    <2>2. PICK p \in {"store", "run"} : pc' = [pc EXCEPT ![t] = p]
      BY <1>6 DEF Allocate
    <2>3. ~(phase \in LockedPhases \/ (phase # "idle" /\ ~Concurrent(spec)))
      BY <2>1, <1>6 DEF LockedPhases
    <2> QED BY <2>1, <2>2, <2>3, <1>6
  <1>7. ASSUME NEW t \in Threads, AwaitGc(t), pc[t] \in {"try", "woken"} PROVE LockInv'
    BY <1>7 DEF AwaitGc, gcRunning
  <1>8. ASSUME NEW t \in Threads, NEW s \in {"explicit", "malloc", "oom"}, Collect(t, s),
               pc[t] \in HoldsHeap, phase = "idle"
        PROVE LockInv'
    BY <1>8 DEF Collect, BeginGc, LockedPhases, OnlyConcurrent
  <1>9. ASSUME DaemonGc PROVE LockInv'
    BY <1>9 DEF DaemonGc, BeginGc, gcRunning, Concurrent, LockedPhases, OnlyConcurrent
  <1>10. ASSUME NEW t \in Threads, Try(t) PROVE LockInv'
    <2>1. pc[t] = "try"
      BY <1>10 DEF Try
    <2>2. Allocate(t) \/ AwaitGc(t) \/ (~gcRunning /\ \E s \in {"explicit", "malloc"} : Collect(t, s))
      BY <1>10, Zenon DEF Try
    <2> QED BY <2>1, <2>2, <1>6, <1>7, <1>8 DEF gcRunning
  <1>11. ASSUME NEW t \in Threads, Woken(t) PROVE LockInv'
    <2>1. pc[t] = "woken"
      BY <1>11 DEF Woken
    <2>2. CASE AwaitGc(t)
      BY <2>1, <2>2, <1>7
    <2>3. CASE ~gcRunning /\ Collect(t, "explicit")
      BY <2>1, <2>3, <1>8 DEF gcRunning
    <2>4. CASE /\ ~gcRunning /\ job[t] = "alloc"
               /\ pc' = [pc EXCEPT ![t] = "retry"]
               /\ UNCHANGED <<heapVars, rootVars, job, stored, lockVars, gcVars,
                         scanVars, cardVars, buf>>
      BY <2>1, <2>4 DEF gcRunning
    <2> QED BY <2>2, <2>3, <2>4, <1>11, Zenon DEF Woken
  <1>12. ASSUME NEW t \in Threads, Retry(t) PROVE LockInv'
    <2>1. pc[t] = "retry" /\ phase = "idle"
      BY <1>12 DEF Retry
    <2>2. Allocate(t) \/ Collect(t, "oom")
      BY <1>12, Zenon DEF Retry
    <2> QED BY <2>1, <2>2, <1>6, <1>8
  <1>13. ASSUME NEW t \in Threads, Last(t) PROVE LockInv'
    <2>1. pc[t] = "last" /\ phase = "idle" /\ heapLock = t
      BY <1>13 DEF Last
    <2>2. CASE Allocate(t)
      BY <2>1, <2>2, <1>6
    <2>3. CASE /\ Room(t) = {}
          /\ heapLock' = Nobody
          /\ pc' = [pc EXCEPT ![t] = "run"]
          /\ job' = [job EXCEPT ![t] = "none"]
          /\ UNCHANGED <<heapVars, rootVars, stored, stopped, gcVars,
                         scanVars, cardVars, buf>>
      <3>1. ~(phase \in LockedPhases \/ (phase # "idle" /\ ~Concurrent(spec)))
        BY <2>1 DEF LockedPhases
      <3>2. /\ pc' = [pc EXCEPT ![t] = "run"] /\ heapLock' = Nobody
            /\ UNCHANGED <<phase, by, spec>>
        BY <2>3
      <3> QED BY <2>1, <3>1, <3>2
    <2> QED BY <2>2, <2>3, <1>13, Zenon DEF Last
  <1>14. ASSUME NEW t \in Threads, Program(t) PROVE LockInv'
    <2>1. CASE Load(t) \/ Drop(t) \/ GetReferent(t) \/ ClearReferent(t) \/ Enter(t)
               \/ LookUp(t) \/ Poll(t) \/ SafePoint(t)
      <3>1. UNCHANGED <<heapLock, phase, by, spec, pc>>
        BY <2>1 DEF Load, Drop, GetReferent, ClearReferent, Enter, LookUp, Poll, SafePoint
      <3> QED BY <3>1, <1>2
    <2>2. CASE SetFieldObject(t)
      <3>1. /\ UNCHANGED <<heapLock, phase, by, spec>>
            /\ pc[t] = "run"
            /\ pc' = pc \/ pc' = [pc EXCEPT ![t] = "store"]
        BY <2>2 DEF SetFieldObject
      <3> QED BY <3>1, <1>2, <1>3
    <2>3. CASE MarkCard(t)
      <3>1. /\ UNCHANGED <<heapLock, phase, by, spec>>
            /\ pc[t] = "store"
            /\ pc' = [pc EXCEPT ![t] = "run"]
        BY <2>3 DEF MarkCard
      <3> QED BY <3>1, <1>3
    <2> QED BY <1>14, <1>4, <1>5, <1>10, <1>11, <1>12, <1>13, <2>1, <2>2, <2>3, Zenon
         DEF Program
  <1>15. ASSUME NEW p \in Phases, phase # "idle", p # "idle", phase' = p,
                UNCHANGED <<by, spec, pc, heapLock>>,
                p \in LockedPhases => phase \in LockedPhases \/ ~Concurrent(spec),
                p \in OnlyConcurrent => Concurrent(spec)
         PROVE LockInv'
    BY <1>15
  <1>16. CASE SuspendAllThreads
    <2>1. /\ phase \in {"suspend", "suspend2"}
          /\ phase' = IF phase = "suspend" THEN "roots" ELSE "reroots"
          /\ UNCHANGED <<by, spec, pc, heapLock>>
      BY <1>16 DEF SuspendAllThreads, Goto
    <2> QED BY <2>1, <1>15 DEF Phases, LockedPhases, OnlyConcurrent
  <1>17. CASE MarkRootSet
    <2>1. /\ phase = "roots" /\ phase' = IF Concurrent(spec) THEN "unlock" ELSE "walk"
          /\ UNCHANGED <<by, spec, pc, heapLock>>
      BY <1>17 DEF MarkRootSet, Goto
    <2> QED BY <2>1, <1>15 DEF Phases, LockedPhases, OnlyConcurrent
  <1>18. CASE UnlockHeap
    <2>1. /\ phase \in {"unlock", "unlock2"}
          /\ phase' = IF phase = "unlock" THEN "resume" ELSE "resume2"
          /\ heapLock' = Nobody /\ UNCHANGED <<by, spec, pc>>
      BY <1>18 DEF UnlockHeap, Goto
    <2>2. Concurrent(spec) /\ heapLock = by
      BY <2>1 DEF OnlyConcurrent, LockedPhases
    <2>3. ~(phase' \in LockedPhases)
      BY <2>1 DEF LockedPhases
    <2>4. \A t \in Threads : pc[t] \notin HoldsHeap
      BY <2>1, <2>2
    <2> QED BY <2>1, <2>2, <2>3, <2>4
  <1>19. CASE ResumeAllThreads
    <2>1. /\ phase \in {"resume", "resume2"}
          /\ phase' = IF phase = "resume" THEN "walk" ELSE "sweep"
          /\ UNCHANGED <<by, spec, pc, heapLock>>
      BY <1>19 DEF ResumeAllThreads, Goto
    <2> QED BY <2>1, <1>15 DEF Phases, TracePhases, LockedPhases, OnlyConcurrent
  <1>20. CASE WalkNext \/ ScanField \/ DelayReferent \/ PopMarkStack \/ ReScanCard
              \/ SweepWord \/ FreeList
    <2>1. UNCHANGED <<heapLock, phase, by, spec, pc>>
      BY <1>20 DEF WalkNext, ScanField, DelayReferent, PopMarkStack, ReScanCard,
           SweepWord, FreeList
    <2> QED BY <2>1
  <1>21. CASE WalkDone
    <2>1. phase = "walk" /\ phase' = "trace" /\ UNCHANGED <<by, spec, pc, heapLock>>
      BY <1>21 DEF WalkDone, Goto
    <2> QED BY <2>1, <1>15 DEF Phases, TracePhases, LockedPhases, OnlyConcurrent
  <1>22. CASE MarkStackEmpty
    <2>1. /\ phase \in TracePhases
          /\ phase' = CASE phase = "trace" -> IF Concurrent(spec) THEN "lock" ELSE "soft"
              [] phase = "retrace" -> "soft"
              [] phase = "softTrace" -> "weak"
              [] phase = "finalTrace" -> "phantom"
          /\ UNCHANGED <<by, spec, pc, heapLock>>
      BY <1>22 DEF MarkStackEmpty, Goto
    <2> QED BY <2>1, <1>15 DEF Phases, TracePhases, LockedPhases, OnlyConcurrent
  <1>23. CASE RelockHeap
    <2>1. /\ phase \in {"lock", "lock3"} /\ heapLock = Nobody /\ heapLock' = by
          /\ phase' = IF phase = "lock" THEN "suspend2" ELSE "done"
          /\ UNCHANGED <<by, spec, pc>>
      BY <1>23 DEF RelockHeap, Goto
    <2>2. Concurrent(spec) /\ \A t \in Threads : pc[t] \notin HoldsHeap
      BY <2>1 DEF OnlyConcurrent
    <2> QED BY <2>1, <2>2
  <1>24. CASE ReMarkRootSet \/ ReScanDone \/ PreserveSoft \/ ClearSoftAndWeak
              \/ EnqueueFinalizers \/ ClearPhantom \/ SweepSystemWeaks
    <2>1. /\ phase \in LockedPhases
          /\ phase' \in {"rescan", "retrace", "softTrace", "weak", "final",
                         "finalTrace", "weaks", "swap"}
          /\ phase' \in {"rescan", "retrace"} => phase \in {"reroots", "rescan"}
          /\ UNCHANGED <<by, spec, pc, heapLock>>
      BY <1>24 DEF ReMarkRootSet, ReScanDone, PreserveSoft, ClearSoftAndWeak,
           EnqueueFinalizers, ClearPhantom, SweepSystemWeaks, Goto, LockedPhases
    <2>2. phase' \in Phases /\ phase' # "idle" /\ phase # "idle"
      BY <2>1 DEF Phases, TracePhases, LockedPhases
    <2>3. phase' \in OnlyConcurrent => Concurrent(spec)
      BY <2>1 DEF OnlyConcurrent
    <2> QED BY <2>1, <2>2, <2>3, <1>15
  <1>25. CASE SwapBitmaps
    <2>1. /\ phase = "swap" /\ phase' = IF Concurrent(spec) THEN "unlock2" ELSE "sweep"
          /\ UNCHANGED <<by, spec, pc, heapLock>>
      BY <1>25 DEF SwapBitmaps, Goto
    <2> QED BY <2>1, <1>15 DEF Phases, LockedPhases, OnlyConcurrent
  <1>26. CASE SweepDone \/ FinishMark
    <2>1. /\ phase \in {"sweep", "finish"}
          /\ phase' = IF phase = "sweep" THEN "finish"
                      ELSE IF Concurrent(spec) THEN "lock3" ELSE "done"
          /\ UNCHANGED <<by, spec, pc, heapLock>>
      BY <1>26 DEF SweepDone, FinishMark, Goto
    <2> QED BY <2>1, <1>15 DEF Phases, LockedPhases, OnlyConcurrent
  <1>27. CASE EndGc
    <2>1. /\ phase = "done" /\ phase' = "idle" /\ heapLock = by
          /\ heapLock' = IF Concurrent(spec) THEN Nobody ELSE heapLock
          /\ pc' = [t \in Threads |->
                 IF t = by THEN CASE spec = "malloc" -> "retry"
                                  [] spec = "oom" -> "last"
                                  [] OTHER -> "run"
                 ELSE IF Concurrent(spec) /\ pc[t] = "wait" THEN "relock"
                 ELSE pc[t]]
      BY <1>27 DEF EndGc, LockedPhases
    <2>2. \A t \in Threads : t # by => pc[t] \notin HoldsHeap /\ pc[t] # "collect"
      BY <2>1
    <2>3. ASSUME NEW t \in Threads
          PROVE  /\ pc'[t] \in HoldsHeap => heapLock' = t
                 /\ pc'[t] \notin {"collect", "wait"}
      <3>1. CASE t = by
        BY <2>1, <3>1 DEF Concurrent
      <3>2. CASE t # by
        BY <2>1, <2>2, <3>2
      <3> QED BY <3>1, <3>2
    <2> QED BY <2>1, <2>3 DEF LockedPhases, OnlyConcurrent
  <1> HIDE DEF LockInv
  <1> QED
    BY <1>1, <1>9, <1>14, <1>16, <1>17, <1>18, <1>19, <1>20, <1>21, <1>22, <1>23,
       <1>24, <1>25, <1>26, <1>27, Zenon DEF Next, Collector

(* No thread of the program touches what the collector works with, but for *)
(* the cards it dirties and the collection it begins.                      *)
CollectorKept ==
    /\ mark' = mark /\ finger' = finger /\ word' = word /\ stack' = stack
    /\ cur' = cur /\ left' = left /\ lists' = lists
    /\ card' = card /\ prevAddr' = prevAddr /\ buf' = buf
    /\ dirty \subseteq dirty'

(* A step of the program keeps the collector's state, and begins a         *)
(* collection only when none runs.                                         *)
LEMMA ProgramFrame ==
    ASSUME LockInv, NEW t \in Threads, Program(t)
    PROVE  /\ CollectorKept
           /\ \/ phase' = phase /\ by' = by /\ spec' = spec
              \/ phase = "idle" /\ phase' = "suspend"
  <1> DEFINE Kept == CollectorKept /\ phase' = phase /\ by' = by /\ spec' = spec
             Begun == CollectorKept /\ phase = "idle" /\ phase' = "suspend"
  <1> USE DEF heapVars, rootVars, threadVars, lockVars, gcVars, scanVars, cardVars,
              CollectorKept
  <1>1. CASE Load(t) \/ Drop(t) \/ GetReferent(t) \/ ClearReferent(t) \/ Enter(t)
             \/ LookUp(t) \/ Poll(t)
    BY <1>1 DEF Load, Drop, GetReferent, ClearReferent, Enter, LookUp, Poll
  <1>2. CASE SafePoint(t) \/ SetFieldObject(t) \/ MarkCard(t) \/ LockHeap(t)
             \/ \E what \in Jobs : WantHeap(t, what)
    BY <1>2 DEF SafePoint, SetFieldObject, MarkCard, LockHeap, WantHeap
  <1>3. CASE Allocate(t)
    BY <1>3 DEF Allocate
  <1>4. CASE AwaitGc(t)
    BY <1>4 DEF AwaitGc
  <1>5. ASSUME phase = "idle", NEW s, Collect(t, s) PROVE Begun
    BY <1>5 DEF Collect, BeginGc
  <1> HIDE DEF CollectorKept
  <1>6. CASE Try(t)
    <2>1. \/ Allocate(t) \/ AwaitGc(t)
          \/ (phase = "idle" /\ \E s \in {"explicit", "malloc"} : Collect(t, s))
      BY <1>6, Zenon DEF Try, gcRunning
    <2> QED BY <2>1, <1>3, <1>4, <1>5
  <1>7. CASE Woken(t)
    <2>1. AwaitGc(t) \/ (phase = "idle" /\ Collect(t, "explicit")) \/ Kept
      BY <1>7 DEF Woken, gcRunning, CollectorKept
    <2> QED BY <2>1, <1>4, <1>5
  <1>8. CASE Retry(t)
    <2>1. phase = "idle"
      BY <1>8 DEF Retry, LockInv, Running
    <2>2. Allocate(t) \/ Collect(t, "oom")
      BY <1>8, Zenon DEF Retry
    <2> QED BY <2>1, <2>2, <1>3, <1>5
  <1>9. CASE Last(t)
    <2>1. Allocate(t) \/ Kept
      BY <1>9 DEF Last, CollectorKept
    <2> QED BY <2>1, <1>3
  <1> QED BY <1>1, <1>2, <1>6, <1>7, <1>8, <1>9, Zenon DEF Program

(* The phases from the second marking of the roots to the swap.            *)
Remarked == {"rescan", "retrace", "soft", "softTrace", "weak", "final", "finalTrace",
             "phantom", "weaks", "swap"}

(* The world is stopped.                                                   *)
Halted == \/ phase \in {"roots", "unlock", "resume", "reroots", "unlock2", "resume2"}
          \/ phase \in Remarked
          \/ ~Concurrent(spec) /\ phase \notin {"idle", "suspend"}

(* A stopped world has no thread between a store and its card.             *)
WorldInv ==
    /\ Halted => stopped = Threads
    /\ \A t \in Threads : /\ stored[t] # Null <=> pc[t] = "store"
                          /\ t \in stopped => pc[t] # "store"

(* The first state satisfies WorldInv.                                     *)
LEMMA WorldInit == Init => WorldInv
  BY GcAssumption DEF Init, WorldInv, Halted, Remarked

(* What a step of the program does to the threads.                         *)
LEMMA ProgramWorld ==
    ASSUME TypeOK, LockInv, WorldInv, NEW t \in Threads, Program(t)
    PROVE  /\ stopped \subseteq stopped'
           /\ \A u \in Threads : /\ stored'[u] # Null <=> pc'[u] = "store"
                                 /\ u \in stopped' => pc'[u] # "store"
           /\ \A u \in Threads \ {t} : pc'[u] = pc[u] /\ stored'[u] = stored[u]
  <1>a. /\ pc \in [Threads -> {"run", "store", "lock", "try", "wait", "relock",
                           "woken", "retry", "last", "collect"}]
        /\ stored \in [Threads -> Objects \cup {Null}]
        /\ Null \notin Objects /\ Refs \subseteq Objects
    BY GcAssumption, RefsType DEF TypeOK
  <1> USE <1>a DEF WorldInv, heapVars, rootVars, threadVars, lockVars, gcVars, scanVars,
        cardVars, Running
  <1>1. CASE UNCHANGED <<pc, stored, stopped>>
    BY <1>1
  <1>2. ASSUME NEW p \in {"run", "lock", "try", "woken", "wait", "retry", "collect"},
               pc' = [pc EXCEPT ![t] = p], UNCHANGED <<stored, stopped>>, pc[t] # "store"
        PROVE  /\ stopped \subseteq stopped'
               /\ \A u \in Threads : /\ stored'[u] # Null <=> pc'[u] = "store"
                                     /\ u \in stopped' => pc'[u] # "store"
               /\ \A u \in Threads \ {t} : pc'[u] = pc[u] /\ stored'[u] = stored[u]
    BY <1>2
  <1>3. CASE Load(t) \/ Drop(t) \/ GetReferent(t) \/ ClearReferent(t) \/ Enter(t)
             \/ LookUp(t) \/ Poll(t)
    BY <1>3, <1>1 DEF Load, Drop, GetReferent, ClearReferent, Enter, LookUp, Poll
  <1>4. CASE SafePoint(t)
    BY <1>4 DEF SafePoint
  <1>5. CASE SetFieldObject(t)
    <2>1. /\ pc[t] = "run" /\ t \notin stopped /\ UNCHANGED stopped
          /\ \/ UNCHANGED <<pc, stored>>
             \/ \E o \in reg[t] : pc' = [pc EXCEPT ![t] = "store"] /\ stored' = [stored EXCEPT ![t] = o]
      BY <1>5 DEF SetFieldObject
    <2>2. reg[t] \subseteq Objects
      BY DEF TypeOK
    <2> QED BY <2>1, <2>2
  <1>6. CASE MarkCard(t)
    BY <1>6 DEF MarkCard
  <1>7. CASE \E what \in Jobs : WantHeap(t, what)
    BY <1>7, <1>2 DEF WantHeap
  <1>8. CASE LockHeap(t)
    <2>1. PICK p \in {"try", "woken"} : pc' = [pc EXCEPT ![t] = p]
      BY <1>8 DEF LockHeap
    <2> QED BY <1>8, <2>1, <1>2 DEF LockHeap
  <1>9. ASSUME Allocate(t), t \notin stopped, pc[t] \in HoldsHeap
        PROVE  /\ stopped \subseteq stopped'
               /\ \A u \in Threads : /\ stored'[u] # Null <=> pc'[u] = "store"
                                     /\ u \in stopped' => pc'[u] # "store"
               /\ \A u \in Threads \ {t} : pc'[u] = pc[u] /\ stored'[u] = stored[u]
    <2>1. /\ UNCHANGED stopped
          /\ \/ pc' = [pc EXCEPT ![t] = "run"] /\ UNCHANGED stored
             \/ \E a \in Objects : pc' = [pc EXCEPT ![t] = "store"] /\ stored' = [stored EXCEPT ![t] = a]
      BY <1>9 DEF Allocate, Room
    <2>2. pc[t] # "store"
      BY <1>9 DEF HoldsHeap
    <2> QED BY <1>9, <2>1, <2>2
  <1>10. CASE AwaitGc(t) /\ pc[t] # "store"
    BY <1>10, <1>2 DEF AwaitGc
  <1>11. CASE (\E s \in {"explicit", "malloc", "oom"} : Collect(t, s)) /\ pc[t] # "store"
    BY <1>11, <1>2 DEF Collect
  <1>12. CASE Try(t)
    <2>1. pc[t] = "try" /\ t \notin stopped
      BY <1>12 DEF Try
    <2>2. Allocate(t) \/ AwaitGc(t) \/ (\E s \in {"explicit", "malloc"} : Collect(t, s))
      BY <1>12, Zenon DEF Try
    <2> QED BY <2>1, <2>2, <1>9, <1>10, <1>11 DEF HoldsHeap
  <1>13. CASE Woken(t)
    <2>1. pc[t] = "woken"
      BY <1>13 DEF Woken
    <2>2. \/ AwaitGc(t) \/ Collect(t, "explicit")
          \/ pc' = [pc EXCEPT ![t] = "retry"] /\ UNCHANGED <<stored, stopped>>
      BY <1>13 DEF Woken
    <2> QED BY <2>1, <2>2, <1>2, <1>10, <1>11
  <1>14. CASE Retry(t)
    <2>1. pc[t] = "retry" /\ t \notin stopped
      BY <1>14 DEF Retry
    <2>2. Allocate(t) \/ Collect(t, "oom")
      BY <1>14, Zenon DEF Retry
    <2> QED BY <2>1, <2>2, <1>9, <1>11 DEF HoldsHeap
  <1>15. CASE Last(t)
    <2>1. pc[t] = "last" /\ t \notin stopped
      BY <1>15 DEF Last
    <2>2. Allocate(t) \/ (pc' = [pc EXCEPT ![t] = "run"] /\ UNCHANGED <<stored, stopped>>)
      BY <1>15 DEF Last
    <2> QED BY <2>1, <2>2, <1>9, <1>2 DEF HoldsHeap
  <1> QED BY <1>3, <1>4, <1>5, <1>6, <1>7, <1>8, <1>12, <1>13, <1>14, <1>15, Zenon
       DEF Program

(* Every step keeps WorldInv: the collector goes on only when each thread  *)
(* is at a safepoint or in VMWAIT, and at neither has it a card to dirty.  *)
LEMMA WorldNext == TypeOK /\ LockInv /\ LockInv' /\ WorldInv /\ [Next]_vars => WorldInv'
  <1> SUFFICES ASSUME TypeOK, LockInv, LockInv', WorldInv, [Next]_vars PROVE WorldInv'
    OBVIOUS
  <1> USE DEF heapVars, rootVars, threadVars, lockVars, gcVars, scanVars, cardVars
  <1>1. CASE UNCHANGED vars
    BY <1>1 DEF vars, WorldInv, Halted
  <1>2. CASE \E t \in Threads : Program(t)
    <2>1. PICK t \in Threads : Program(t)
      BY <1>2
    <2>2. stopped' \subseteq Threads
      <3>1. stopped' = stopped \/ stopped' = stopped \cup {t}
        BY <2>1 DEF Program, Load, Drop, GetReferent, ClearReferent, Enter, LookUp, Poll,
          SafePoint, SetFieldObject, MarkCard, WantHeap, LockHeap, Try, Woken, Retry, Last,
          Allocate, AwaitGc, Collect, BeginGc
      <3> QED BY <3>1 DEF TypeOK
    <2>3. Halted' => Halted
      <3>1. UNCHANGED <<phase, by, spec>> \/ phase' = "suspend"
        BY <2>1, ProgramFrame
      <3> QED BY <3>1 DEF Halted, Remarked
    <2> QED BY <2>1, <2>2, <2>3, ProgramWorld DEF WorldInv
  <1>3. CASE DaemonGc
    BY <1>3 DEF DaemonGc, BeginGc, WorldInv, Halted, Remarked
  <1>4. CASE SuspendAllThreads
    <2>1. /\ phase \in {"suspend", "suspend2"} /\ stopped' = Threads
          /\ \A t \in Threads \ {by} : t \in stopped \/ pc[t] \in VmWait
          /\ UNCHANGED <<pc, stored>>
      BY <1>4 DEF SuspendAllThreads
    <2>2. \A t \in Threads : pc[t] # "store"
      BY <2>1 DEF WorldInv, VmWait, LockInv
    <2> QED BY <2>1, <2>2 DEF WorldInv
  <1>5. CASE ResumeAllThreads
    <2>1. /\ phase \in {"resume", "resume2"} /\ phase' \in {"walk", "sweep"}
          /\ stopped' = {} /\ UNCHANGED <<pc, stored, spec>>
      BY <1>5 DEF ResumeAllThreads, Goto
    <2>2. ~Halted'
      BY <2>1 DEF LockInv, OnlyConcurrent, Halted, Remarked
    <2> QED BY <2>1, <2>2 DEF WorldInv
  <1>6. CASE EndGc
    <2>1. /\ phase = "done" /\ phase' = "idle" /\ stopped' = {} /\ stored' = stored
          /\ pc' = [t \in Threads |->
                 IF t = by THEN CASE spec = "malloc" -> "retry"
                                  [] spec = "oom" -> "last"
                                  [] OTHER -> "run"
                 ELSE IF Concurrent(spec) /\ pc[t] = "wait" THEN "relock"
                 ELSE pc[t]]
      BY <1>6 DEF EndGc
    <2>2. ASSUME NEW t \in Threads PROVE pc'[t] = "store" <=> pc[t] = "store"
      <3>1. CASE t = by
        BY <2>1, <3>1 DEF LockInv
      <3>2. CASE t # by
        BY <2>1, <3>2
      <3> QED BY <3>1, <3>2
    <2>3. ~Halted'
      BY <2>1 DEF Halted, Remarked
    <2> QED BY <2>1, <2>2, <2>3 DEF WorldInv
  <1>7. ASSUME UNCHANGED <<pc, stored, stopped>>, Halted' => Halted PROVE WorldInv'
    BY <1>7 DEF WorldInv
  <1>8. CASE WalkNext \/ ScanField \/ DelayReferent \/ PopMarkStack \/ ReScanCard
              \/ SweepWord \/ FreeList
    <2>1. UNCHANGED <<pc, stored, stopped, phase, spec>>
      BY <1>8 DEF WalkNext, ScanField, DelayReferent, PopMarkStack, ReScanCard,
           SweepWord, FreeList
    <2> QED BY <2>1, <1>7 DEF Halted
  <1>9. CASE MarkRootSet \/ UnlockHeap \/ ReMarkRootSet \/ ReScanDone \/ PreserveSoft
             \/ ClearSoftAndWeak \/ EnqueueFinalizers \/ ClearPhantom \/ SweepSystemWeaks
             \/ SwapBitmaps
    <2>1. /\ UNCHANGED <<pc, stored, stopped>>
          /\ phase \in {"roots", "unlock", "reroots", "unlock2"} \cup Remarked
      BY <1>9 DEF MarkRootSet, UnlockHeap, ReMarkRootSet, ReScanDone, PreserveSoft,
         ClearSoftAndWeak, EnqueueFinalizers, ClearPhantom, SweepSystemWeaks, SwapBitmaps,
         Remarked
    <2> QED BY <2>1, <1>7 DEF Halted
  <1>10. CASE WalkDone \/ MarkStackEmpty \/ RelockHeap \/ SweepDone \/ FinishMark
    <2>1. /\ UNCHANGED <<pc, stored, stopped, spec>>
          /\ \/ phase \in {"retrace", "softTrace", "finalTrace"}
             \/ /\ phase \in {"walk", "trace", "lock", "lock3", "sweep", "finish"}
                /\ phase' \in {"trace", "soft", "finish", "lock3", "suspend2", "done", "lock"}
                /\ phase' = "soft" => ~Concurrent(spec)
      BY <1>10 DEF WalkDone, MarkStackEmpty, RelockHeap, SweepDone, FinishMark, Goto,
         TracePhases
    <2> QED BY <2>1, <1>7 DEF Halted, Remarked
  <1> HIDE DEF WorldInv
  <1> QED BY <1>1, <1>2, <1>3, <1>4, <1>5, <1>6, <1>8, <1>9, <1>10, Zenon
       DEF Next, Collector

============================================================================
