---------------------------- MODULE ConcurrentGc ----------------------------
(* The collector of the Dalvik VM: dvmCollectGarbageInternal of            *)
(* src/doc/dalvik.git-android-4.3_r3-vm/alloc/Heap.cpp with the marking,   *)
(* reference processing and sweep of MarkSweep.cpp, the bitmaps and card   *)
(* table, and the allocation that waits for a collection or runs one.      *)
(*                                                                         *)
(* Objects are the addresses at which an object can lie; an object takes   *)
(* the room up to the next address, and its address decides its kind.  The *)
(* suspension of the threads is one step that needs every other thread at  *)
(* a safepoint or in VMWAIT; module ThreadSuspend shows how the VM gets    *)
(* there.                                                                  *)
EXTENDS Naturals, FiniteSets

CONSTANTS Objects,    \* addresses of objects
          Null,       \* a NULL reference
          Fields,     \* the strong reference fields of an object, in order
          Zombie,     \* the field FinalizerReference.zombie
          Immune,     \* the objects of the zygote heap, below the immune limit
          Soft,       \* addresses of SoftReference objects,
          Weak,       \* WeakReference objects,
          Final,      \* FinalizerReference objects
          Phantom,    \* and PhantomReference objects
          Interned,   \* objects that may be interned or be weak JNI globals
          WordSize,   \* addresses in a word of a heap bitmap
          CardSize,   \* addresses on a card
          PastEnd,    \* ULONG_MAX, a word beyond every object
          FlushAt,    \* garbage pointers that make the sweep call back
          Threads,    \* mutator threads
          Daemon,     \* the GC thread
          Nobody,     \* no thread
          Jobs        \* bound: what the program wants the heap lock for

Refs == Soft \cup Weak \cup Final \cup Phantom

ASSUME GcAssumption ==
    /\ Objects \subseteq Nat /\ IsFiniteSet(Objects)
    /\ Fields \subseteq Nat /\ Zombie \in Fields
    /\ Null \notin Nat
    /\ Immune \subseteq Objects
    /\ Soft \cup Weak \cup Final \cup Phantom \subseteq Objects \ Immune
    /\ Soft \cap (Weak \cup Final \cup Phantom) = {}
    /\ Weak \cap (Final \cup Phantom) = {}
    /\ Final \cap Phantom = {}
    /\ Interned \subseteq Objects \ Refs
    /\ WordSize \in Nat \ {0} /\ CardSize \in Nat \ {0} /\ FlushAt \in Nat \ {0}
    /\ PastEnd \in Nat /\ \A o \in Objects : o \div WordSize < PastEnd
    /\ Daemon \notin Threads /\ Nobody \notin Threads \cup {Daemon}
    /\ Jobs \subseteq {"alloc", "explicit"}

VARIABLES
    field,      \* the strong references in each object
    referent,   \* the referent of each reference object
    inUse,      \* the chunks dlmalloc has given out
    live,       \* liveBits
    mark,       \* markBits
    dirty,      \* the dirty cards
    reg,        \* the roots of each thread: registers, JNI locals
    weakTable,  \* interned strings and weak JNI globals
    finList,    \* the list of FinalizerReference, a root
    pc,         \* where each thread is
    job,        \* what it wants the heap lock for
    stored,     \* the object it stored into and whose card it has still to dirty
    heapLock,   \* gcHeapLock: its owner
    stopped,    \* the threads that are suspended
    phase,      \* where the collection is; gcRunning is phase # "idle"
    by,         \* the thread that runs it
    spec,       \* its GcSpec
    finger,     \* ctx->finger, and the sweep's place, as a word
    word,       \* the bits of the word that the bitmap walk has still to visit
    stack,      \* the mark stack
    cur,        \* the object being scanned
    left,       \* the fields of it still to be read
    lists,      \* the reference objects on the pending lists
    card,       \* where the scan of the dirty cards is
    prevAddr,   \* the end of the last object it scanned there
    buf         \* pointerBuf: garbage found by the sweep, not yet freed

heapVars == <<field, referent, inUse, live, mark, dirty>>
rootVars == <<reg, weakTable, finList>>
threadVars == <<pc, job, stored>>
lockVars == <<heapLock, stopped>>
gcVars == <<phase, by, spec>>
scanVars == <<finger, word, stack, cur, left, lists>>
cardVars == <<card, prevAddr>>
vars == <<heapVars, rootVars, threadVars, lockVars, gcVars, scanVars, cardVars,
          buf>>

MinOf(S) == CHOOSE x \in S : \A y \in S : x <= y
MaxOf(S) == CHOOSE x \in S : \A y \in S : y <= x

WordOf(o) == o \div WordSize
CardOf(o) == o \div CardSize

(* An object takes the room up to the next address; the last one takes one *)
(* address.                                                                *)
End(o) == LET above == {p \in Objects : p > o}
          IN IF above = {} THEN o + 1 ELSE MinOf(above)

Concurrent(s) == s \in {"concurrent", "explicit"}
Partial(s) == s \in {"concurrent", "malloc"}
Preserve(s) == s # "oom"

(* The reference objects are of the classes of java.lang.ref themselves.   *)
FieldsOf(o) == IF o \in Final THEN {Zombie} ELSE IF o \in Refs THEN {} ELSE Fields

gcRunning == phase # "idle"
Roots == finList \cup UNION {reg[t] : t \in Threads}
NoRefs == [f \in Fields |-> Null]
Targets(o) == {field[o][f] : f \in Fields} \ {Null}

TracePhases == {"trace", "retrace", "softTrace", "finalTrace"}
Phases == TracePhases \cup
    {"idle", "suspend", "roots", "unlock", "resume", "walk",
     "lock", "suspend2", "reroots", "rescan", "soft", "weak", "final",
     "phantom", "weaks", "swap", "unlock2", "resume2", "sweep", "finish",
     "lock3", "done"}

(* Any heap the program may have built before the first collection: what   *)
(* it can get at is allocated, and a FinalizerReference is on its list and *)
(* nowhere else.                                                           *)
Init ==
    /\ inUse \in SUBSET Objects /\ Immune \subseteq inUse /\ live = inUse
    /\ mark = {} /\ dirty = {}
    /\ reg \in [Threads -> SUBSET (inUse \ Final)]
    /\ weakTable \in SUBSET (inUse \cap Interned)
    /\ finList \in SUBSET (inUse \cap Final)
    /\ field \in [Objects -> [Fields -> (inUse \ Final) \cup {Null}]]
    /\ \A o \in Objects \ inUse : field[o] = NoRefs
    /\ \A o \in Refs : field[o] = NoRefs
    /\ referent \in [Objects -> (inUse \ Final) \cup {Null}]
    /\ \A o \in Objects : referent[o] # Null <=> o \in inUse \cap Refs
    /\ pc = [t \in Threads |-> "run"] /\ job = [t \in Threads |-> "none"]
    /\ stored = [t \in Threads |-> Null]
    /\ heapLock = Nobody /\ stopped = {}
    /\ phase = "idle" /\ by = Nobody /\ spec = "none"
    /\ finger = 0 /\ word = {} /\ stack = {} /\ cur = Null /\ left = {}
    /\ lists = {} /\ card = 0 /\ prevAddr = Null /\ buf = {}

-----------------------------------------------------------------------------
(* The program.  A thread runs between safepoints; a store of a reference  *)
(* and the dirtying of the card are two steps without one in between.      *)
Running(t, at) == pc[t] = at /\ t \notin stopped

Load(t) ==
    /\ Running(t, "run")
    /\ \E o \in reg[t], f \in Fields :
        /\ field[o][f] # Null
        /\ reg' = [reg EXCEPT ![t] = @ \cup {field[o][f]}]
    /\ UNCHANGED <<heapVars, weakTable, finList, threadVars, lockVars, gcVars,
                   scanVars, cardVars, buf>>

Drop(t) ==
    /\ Running(t, "run")
    /\ \E o \in reg[t] : reg' = [reg EXCEPT ![t] = @ \ {o}]
    /\ UNCHANGED <<heapVars, weakTable, finList, threadVars, lockVars, gcVars,
                   scanVars, cardVars, buf>>

(* dvmSetFieldObject; storing NULL dirties nothing.                        *)
SetFieldObject(t) ==
    /\ Running(t, "run")
    /\ \E o \in reg[t] \ Refs, f \in Fields, v \in reg[t] \cup {Null} :
        /\ field' = [field EXCEPT ![o][f] = v]
        /\ IF v = Null THEN UNCHANGED <<pc, stored>>
           ELSE /\ pc' = [pc EXCEPT ![t] = "store"]
                /\ stored' = [stored EXCEPT ![t] = o]
    /\ UNCHANGED <<referent, inUse, live, mark, dirty, rootVars, job, lockVars,
                   gcVars, scanVars, cardVars, buf>>

(* Mutant: the card is that of the next object. *)
MarkCardBehind(t) ==
    /\ Running(t, "store")
    /\ dirty' = dirty \cup ({CardOf(stored[t]) + 1} \cap {CardOf(o) : o \in Objects})
    /\ pc' = [pc EXCEPT ![t] = "run"]
    /\ stored' = [stored EXCEPT ![t] = Null]
    /\ UNCHANGED <<field, referent, inUse, live, mark, rootVars, job, lockVars,
                   gcVars, scanVars, cardVars, buf>>

MarkCard(t) ==
    /\ Running(t, "store")
    /\ dirty' = dirty \cup {CardOf(stored[t])}
    /\ pc' = [pc EXCEPT ![t] = "run"]
    /\ stored' = [stored EXCEPT ![t] = Null]
    /\ UNCHANGED <<field, referent, inUse, live, mark, rootVars, job, lockVars,
                   gcVars, scanVars, cardVars, buf>>

(* Reference.get; a PhantomReference answers null and the finalizer        *)
(* references are not the program's.                                       *)
GetReferent(t) ==
    /\ Running(t, "run")
    /\ \E r \in reg[t] \cap (Soft \cup Weak) :
        /\ referent[r] # Null
        /\ reg' = [reg EXCEPT ![t] = @ \cup {referent[r]}]
    /\ UNCHANGED <<heapVars, weakTable, finList, threadVars, lockVars, gcVars,
                   scanVars, cardVars, buf>>

ClearReferent(t) ==
    /\ Running(t, "run")
    /\ \E r \in reg[t] \cap Refs :
        /\ referent[r] # Null
        /\ referent' = [referent EXCEPT ![r] = Null]
    /\ UNCHANGED <<field, inUse, live, mark, dirty, rootVars, threadVars,
                   lockVars, gcVars, scanVars, cardVars, buf>>

(* String.intern and NewWeakGlobalRef, and the look-ups that make such a   *)
(* weakly held object strong again.                                        *)
Enter(t) ==
    /\ Running(t, "run")
    /\ \E o \in reg[t] \cap Interned : weakTable' = weakTable \cup {o}
    /\ UNCHANGED <<heapVars, reg, finList, threadVars, lockVars, gcVars,
                   scanVars, cardVars, buf>>

LookUp(t) ==
    /\ Running(t, "run")
    /\ \E o \in weakTable : reg' = [reg EXCEPT ![t] = @ \cup {o}]
    /\ UNCHANGED <<heapVars, weakTable, finList, threadVars, lockVars, gcVars,
                   scanVars, cardVars, buf>>

(* The finalizer daemon takes the zombie of an enqueued finalizer          *)
(* reference and drops the reference.                                      *)
Poll(t) ==
    /\ Running(t, "run")
    /\ \E r \in finList :
        /\ referent[r] = Null
        /\ field[r][Zombie] # Null
        /\ reg' = [reg EXCEPT ![t] = @ \cup {field[r][Zombie]}]
        /\ field' = [field EXCEPT ![r][Zombie] = Null]
        /\ finList' = finList \ {r}
    /\ UNCHANGED <<referent, inUse, live, mark, dirty, weakTable, threadVars,
                   lockVars, gcVars, scanVars, cardVars, buf>>

-----------------------------------------------------------------------------
(* Allocation and explicit collections: dvmLockHeap waits in VMWAIT, so    *)
(* the lock can be taken while the threads are suspended, but nothing is   *)
(* done with it before they run again.                                     *)
WantHeap(t, what) ==
    /\ Running(t, "run")
    /\ pc' = [pc EXCEPT ![t] = "lock"]
    /\ job' = [job EXCEPT ![t] = what]
    /\ UNCHANGED <<heapVars, rootVars, stored, lockVars, gcVars, scanVars,
                   cardVars, buf>>

LockHeap(t) ==
    /\ pc[t] \in {"lock", "relock"}
    /\ heapLock = Nobody
    /\ heapLock' = t
    /\ pc' = [pc EXCEPT ![t] = IF @ = "lock" THEN "try" ELSE "woken"]
    /\ UNCHANGED <<heapVars, rootVars, job, stored, stopped, gcVars, scanVars,
                   cardVars, buf>>

(* dvmHeapSourceAlloc: a zeroed chunk and its live bit.  A reference       *)
(* object gets its referent from its constructor, a barriered store; a     *)
(* FinalizerReference is put on its list.                                  *)
Room(t) == {a \in Objects \ (Immune \cup inUse) : a \in Refs => reg[t] # {}}

Allocate(t) ==
    \E a \in Room(t), v \in reg[t] \cup {Null} :
        /\ v # Null <=> a \in Refs
        /\ inUse' = inUse \cup {a}
        /\ live' = live \cup {a}
        /\ referent' = [referent EXCEPT ![a] = v]
        /\ IF a \in Refs
           THEN /\ pc' = [pc EXCEPT ![t] = "store"]
                /\ stored' = [stored EXCEPT ![t] = a]
           ELSE /\ pc' = [pc EXCEPT ![t] = "run"]
                /\ UNCHANGED stored
        /\ IF a \in Final
           THEN /\ finList' = finList \cup {a}
                /\ UNCHANGED reg
           ELSE /\ reg' = [reg EXCEPT ![t] = @ \cup {a}]
                /\ UNCHANGED finList
        /\ job' = [job EXCEPT ![t] = "none"]
        /\ heapLock' = Nobody
        /\ UNCHANGED <<field, mark, dirty, weakTable, stopped, gcVars,
                       scanVars, cardVars, buf>>

BeginGc(c, s) ==
    /\ phase' = "suspend"
    /\ by' = c
    /\ spec' = s

Collect(t, s) ==
    /\ BeginGc(t, s)
    /\ pc' = [pc EXCEPT ![t] = "collect"]
    /\ UNCHANGED <<heapVars, rootVars, job, stored, lockVars, scanVars,
                   cardVars, buf>>

(* dvmWaitForConcurrentGcToComplete: dvmWaitCond gives the lock up.        *)
AwaitGc(t) ==
    /\ gcRunning
    /\ heapLock' = Nobody
    /\ pc' = [pc EXCEPT ![t] = "wait"]
    /\ UNCHANGED <<heapVars, rootVars, job, stored, stopped, gcVars, scanVars,
                   cardVars, buf>>

(* tryMalloc.  The first attempt may fail on the soft limit.               *)
Try(t) ==
    /\ Running(t, "try")
    /\ \/ job[t] = "alloc" /\ Allocate(t)
       \/ AwaitGc(t)
       \/ /\ ~gcRunning
          /\ Collect(t, IF job[t] = "alloc" THEN "malloc" ELSE "explicit")

(* Mutant: one wake-up is enough. *)
WokenOnce(t) ==
    /\ Running(t, "woken")
    /\ \/ job[t] = "explicit" /\ Collect(t, "explicit")
       \/ /\ job[t] = "alloc"
          /\ pc' = [pc EXCEPT ![t] = "retry"]
          /\ UNCHANGED <<heapVars, rootVars, job, stored, lockVars, gcVars,
                         scanVars, cardVars, buf>>

Woken(t) ==
    /\ Running(t, "woken")
    /\ \/ AwaitGc(t)
       \/ /\ ~gcRunning /\ job[t] = "explicit"
          /\ Collect(t, "explicit")
       \/ /\ ~gcRunning /\ job[t] = "alloc"
          /\ pc' = [pc EXCEPT ![t] = "retry"]
          /\ UNCHANGED <<heapVars, rootVars, job, stored, lockVars, gcVars,
                         scanVars, cardVars, buf>>

(* The second attempts, without the soft limit; when they fail, a full     *)
(* collection that clears the soft references.                             *)
Retry(t) ==
    /\ Running(t, "retry")
    /\ \/ Allocate(t)
       \/ Room(t) = {} /\ Collect(t, "oom")

(* The last attempt, or OutOfMemoryError.                                  *)
Last(t) ==
    /\ Running(t, "last")
    /\ \/ Allocate(t)
       \/ /\ Room(t) = {}
          /\ heapLock' = Nobody
          /\ pc' = [pc EXCEPT ![t] = "run"]
          /\ job' = [job EXCEPT ![t] = "none"]
          /\ UNCHANGED <<heapVars, rootVars, stored, stopped, gcVars,
                         scanVars, cardVars, buf>>

-----------------------------------------------------------------------------
(* The collector.  dvmSuspendAllThreads asks every thread to suspend       *)
(* itself at its next safepoint; a thread in VMWAIT counts as suspended,   *)
(* and stops before it runs again.                                         *)
Goto(p) == phase' = p /\ UNCHANGED <<by, spec>>

DaemonGc ==
    /\ ~gcRunning
    /\ heapLock = Nobody
    /\ heapLock' = Daemon
    /\ BeginGc(Daemon, "concurrent")
    /\ UNCHANGED <<heapVars, rootVars, threadVars, stopped, scanVars, cardVars,
                   buf>>

SafePoint(t) ==
    /\ phase \in {"suspend", "suspend2"}
    /\ Running(t, "run")
    /\ stopped' = stopped \cup {t}
    /\ UNCHANGED <<heapVars, rootVars, threadVars, heapLock, gcVars, scanVars,
                   cardVars, buf>>

VmWait == {"lock", "wait", "relock"}

SuspendAllThreads ==
    /\ phase \in {"suspend", "suspend2"}
    /\ \A t \in Threads \ {by} : t \in stopped \/ pc[t] \in VmWait
    /\ stopped' = Threads
    /\ Goto(IF phase = "suspend" THEN "roots" ELSE "reroots")
    /\ UNCHANGED <<heapVars, rootVars, threadVars, heapLock, scanVars, cardVars,
                   buf>>

(* Mutant: no test for NULL. *)
MarkObjectsUnchecked(S) ==
    /\ mark' = mark \cup S
    /\ stack' = stack \cup {o \in S \ mark : o # Null /\ WordOf(o) < finger}

(* Mutant: the objects of the word being scanned are taken to be ahead. *)
MarkObjectsAhead(S) ==
    LET white == (S \ {Null}) \ mark
    IN /\ mark' = mark \cup white
       /\ stack' = stack \cup {o \in white : WordOf(o) + 1 < finger}

(* markObject: an unmarked object below the finger goes on the mark stack, *)
(* one above it will be met by the walk.                                   *)
MarkObjects(S) ==
    LET white == (S \ {Null}) \ mark
    IN /\ mark' = mark \cup white
       /\ stack' = stack \cup {o \in white : WordOf(o) < finger}

(* dvmHeapMarkRootSet: the immune objects and the roots; nothing is pushed *)
(* as the finger is at the bottom.  Before the threads are resumed, all    *)
(* cards are clean.                                                        *)
MarkRootSet ==
    /\ phase = "roots"
    /\ mark' = mark \cup Roots \cup IF Partial(spec) THEN live \cap Immune ELSE {}
    /\ dirty' = IF Concurrent(spec) THEN {} ELSE dirty
    /\ Goto(IF Concurrent(spec) THEN "unlock" ELSE "walk")
    /\ UNCHANGED <<field, referent, inUse, live, rootVars, threadVars, lockVars,
                   scanVars, cardVars, buf>>

UnlockHeap ==
    /\ phase \in {"unlock", "unlock2"}
    /\ heapLock' = Nobody
    /\ Goto(IF phase = "unlock" THEN "resume" ELSE "resume2")
    /\ UNCHANGED <<heapVars, rootVars, threadVars, stopped, scanVars, cardVars,
                   buf>>

ResumeAllThreads ==
    /\ phase \in {"resume", "resume2"}
    /\ stopped' = {}
    /\ Goto(IF phase = "resume" THEN "walk" ELSE "sweep")
    /\ UNCHANGED <<heapVars, rootVars, threadVars, heapLock, scanVars, cardVars,
                   buf>>

ScanObject(o) == cur' = o /\ left' = FieldsOf(o)

(* dvmHeapBitmapScanWalk: a word of the bitmap is read once, then its      *)
(* objects are scanned in address order with the finger at the next word.  *)
WalkNext ==
    LET ahead == {o \in mark : WordOf(o) >= finger}
        next == IF word # {} THEN MinOf(word) ELSE MinOf(ahead)
    IN /\ phase = "walk" /\ cur = Null
       /\ word \cup ahead # {}
       /\ finger' = WordOf(next) + 1
       /\ word' = IF word # {} THEN word \ {next}
                  ELSE {o \in mark : WordOf(o) = WordOf(next)} \ {next}
       /\ ScanObject(next)
       /\ UNCHANGED <<heapVars, rootVars, threadVars, lockVars, gcVars, stack,
                      lists, cardVars, buf>>

WalkDone ==
    /\ phase = "walk" /\ cur = Null
    /\ word = {} /\ \A o \in mark : WordOf(o) < finger
    /\ finger' = PastEnd
    /\ Goto("trace")
    /\ UNCHANGED <<heapVars, rootVars, threadVars, lockVars, word, stack, cur,
                   left, lists, cardVars, buf>>

(* scanFields, one field after the other, while the program runs.          *)
ScanField ==
    LET f == MinOf(left)
    IN /\ cur # Null /\ left # {}
       /\ MarkObjects({field[cur][f]})
       /\ left' = left \ {f}
       /\ cur' = IF left' = {} /\ cur \notin Refs THEN Null ELSE cur
       /\ UNCHANGED <<field, referent, inUse, live, dirty, rootVars, threadVars,
                      lockVars, gcVars, finger, word, lists, cardVars, buf>>

(* delayReferenceReferent: a reference whose referent is white waits on a  *)
(* pending list; the link is a barriered store into the reference.         *)
Delayed(S) == {r \in S \cap Refs : /\ r \notin lists
                                   /\ referent[r] # Null
                                   /\ referent[r] \notin mark'}

DelayReferent ==
    /\ cur # Null /\ left = {}
    /\ mark' = mark
    /\ lists' = lists \cup Delayed({cur})
    /\ dirty' = dirty \cup {CardOf(r) : r \in Delayed({cur})}
    /\ cur' = Null
    /\ UNCHANGED <<field, referent, inUse, live, rootVars, threadVars, lockVars,
                   gcVars, finger, word, stack, left, cardVars, buf>>

(* processMarkStack                                                        *)
PopMarkStack ==
    /\ phase \in TracePhases /\ cur = Null
    /\ \E o \in stack : stack' = stack \ {o} /\ ScanObject(o)
    /\ UNCHANGED <<heapVars, rootVars, threadVars, lockVars, gcVars, finger,
                   word, lists, cardVars, buf>>

MarkStackEmpty ==
    /\ phase \in TracePhases /\ cur = Null /\ stack = {}
    /\ Goto(CASE phase = "trace" -> IF Concurrent(spec) THEN "lock" ELSE "soft"
              [] phase = "retrace" -> "soft"
              [] phase = "softTrace" -> "weak"
              [] phase = "finalTrace" -> "phantom")
    /\ UNCHANGED <<heapVars, rootVars, threadVars, lockVars, scanVars, cardVars,
                   buf>>

RelockHeap ==
    /\ phase \in {"lock", "lock3"}
    /\ heapLock = Nobody
    /\ heapLock' = by
    /\ Goto(IF phase = "lock" THEN "suspend2" ELSE "done")
    /\ UNCHANGED <<heapVars, rootVars, threadVars, stopped, scanVars, cardVars,
                   buf>>

(* Mutant: the roots are left as they were marked at first. *)
ReMarkNothing ==
    /\ phase = "reroots"
    /\ Goto("rescan")
    /\ UNCHANGED <<heapVars, rootVars, threadVars, lockVars, scanVars, cardVars,
                   buf>>

(* dvmHeapReMarkRootSet: no barrier watches the roots.                     *)
ReMarkRootSet ==
    /\ phase = "reroots"
    /\ MarkObjects(Roots)
    /\ card' = 0 /\ prevAddr' = Null
    /\ Goto("rescan")
    /\ UNCHANGED <<field, referent, inUse, live, dirty, rootVars, threadVars,
                   lockVars, finger, word, cur, left, lists, buf>>

(* scanGrayObjects and scanDirtyCards: from one dirty card to the next; an *)
(* object that reaches beyond its card makes the scan go on behind it.     *)
DirtyFrom(c) == {d \in dirty : d >= c}

(* Mutant: the scan stays on a card that it has finished. *)
ReScanCardAgain ==
    LET d == MinOf(DirtyFrom(card))
        ptr == IF prevAddr # Null /\ d = card THEN prevAddr ELSE d * CardSize
        limit == ptr + CardSize
        hit == {o \in mark : o >= ptr /\ o < limit}
        last == IF hit = {} THEN ptr ELSE End(MaxOf(hit))
    IN /\ phase = "rescan"
       /\ DirtyFrom(card) # {}
       /\ MarkObjects(UNION {Targets(o) : o \in hit})
       /\ lists' = lists \cup Delayed(hit)
       /\ dirty' = dirty \cup {CardOf(r) : r \in Delayed(hit)}
       /\ card' = IF last < limit THEN d ELSE CardOf(last)
       /\ prevAddr' = IF last < limit THEN Null ELSE last
       /\ UNCHANGED <<field, referent, inUse, live, rootVars, threadVars,
                      lockVars, gcVars, finger, word, cur, left, buf>>

ReScanCard ==
    LET d == MinOf(DirtyFrom(card))
        ptr == IF prevAddr # Null /\ d = card THEN prevAddr ELSE d * CardSize
        limit == ptr + CardSize
        hit == {o \in mark : o >= ptr /\ o < limit}
        last == IF hit = {} THEN ptr ELSE End(MaxOf(hit))
    IN /\ phase = "rescan"
       /\ DirtyFrom(card) # {}
       /\ MarkObjects(UNION {Targets(o) : o \in hit})
       /\ lists' = lists \cup Delayed(hit)
       /\ dirty' = dirty \cup {CardOf(r) : r \in Delayed(hit)}
       /\ card' = IF last < limit THEN d + 1 ELSE CardOf(last)
       /\ prevAddr' = IF last < limit THEN Null ELSE last
       /\ UNCHANGED <<field, referent, inUse, live, rootVars, threadVars,
                      lockVars, gcVars, finger, word, cur, left, buf>>

ReScanDone ==
    /\ phase = "rescan"
    /\ DirtyFrom(card) = {}
    /\ Goto("retrace")
    /\ card' = 0 /\ prevAddr' = Null
    /\ UNCHANGED <<heapVars, rootVars, threadVars, lockVars, scanVars, buf>>

-----------------------------------------------------------------------------
(* dvmHeapProcessReferences, with the threads suspended.                   *)
White(S) == {r \in S : referent[r] # Null /\ referent[r] \notin mark}

(* preserveSomeSoftReferences keeps every second of them.                  *)
PreserveSoft ==
    /\ phase = "soft"
    /\ IF Preserve(spec)
       THEN \E kept \in SUBSET White(lists \cap Soft) :
                /\ MarkObjects({referent[r] : r \in kept})
                /\ lists' = (lists \ Soft) \cup
                       {r \in White(lists \cap Soft) : referent[r] \notin mark'}
                /\ Goto("softTrace")
       ELSE /\ Goto("weak")
            /\ UNCHANGED <<mark, stack, lists>>
    /\ UNCHANGED <<field, referent, inUse, live, dirty, rootVars, threadVars,
                   lockVars, finger, word, cur, left, cardVars, buf>>

(* clearWhiteReferences                                                    *)
ClearWhite(S) ==
    /\ referent' = [r \in Objects |-> IF r \in White(lists \cap S) THEN Null
                                      ELSE referent[r]]
    /\ lists' = lists \ S

(* Mutant: the phantom references are cleared along. *)
ClearAllAtOnce ==
    /\ phase = "weak"
    /\ ClearWhite(Soft \cup Weak \cup Phantom)
    /\ Goto("final")
    /\ UNCHANGED <<field, inUse, live, mark, dirty, rootVars, threadVars,
                   lockVars, finger, word, stack, cur, left, cardVars, buf>>

ClearSoftAndWeak ==
    /\ phase = "weak"
    /\ ClearWhite(Soft \cup Weak)
    /\ Goto("final")
    /\ UNCHANGED <<field, inUse, live, mark, dirty, rootVars, threadVars,
                   lockVars, finger, word, stack, cur, left, cardVars, buf>>

(* enqueueFinalizerReferences: the referent becomes the zombie.            *)
EnqueueFinalizers ==
    LET due == White(lists \cap Final)
    IN /\ phase = "final"
       /\ MarkObjects({referent[r] : r \in due})
       /\ field' = [r \in Objects |-> IF r \in due
                        THEN [field[r] EXCEPT ![Zombie] = referent[r]]
                        ELSE field[r]]
       /\ dirty' = dirty \cup {CardOf(r) : r \in due}
       /\ referent' = [r \in Objects |-> IF r \in due THEN Null ELSE referent[r]]
       /\ lists' = lists \ Final
       /\ Goto("finalTrace")
       /\ UNCHANGED <<inUse, live, rootVars, threadVars, lockVars, finger, word,
                      cur, left, cardVars, buf>>

(* The references that were only reached through zombies, then the         *)
(* phantom references.                                                     *)
ClearPhantom ==
    /\ phase = "phantom"
    /\ ClearWhite(Soft \cup Weak \cup Phantom)
    /\ Goto("weaks")
    /\ UNCHANGED <<field, inUse, live, mark, dirty, rootVars, threadVars,
                   lockVars, finger, word, stack, cur, left, cardVars, buf>>

(* dvmHeapSweepSystemWeaks                                                 *)
SweepSystemWeaks ==
    /\ phase = "weaks"
    /\ weakTable' = weakTable \cap mark
    /\ Goto("swap")
    /\ UNCHANGED <<heapVars, reg, finList, threadVars, lockVars, scanVars,
                   cardVars, buf>>

SwapBitmaps ==
    /\ phase = "swap"
    /\ live' = mark
    /\ mark' = live
    /\ finger' = 0
    /\ Goto(IF Concurrent(spec) THEN "unlock2" ELSE "sweep")
    /\ UNCHANGED <<field, referent, inUse, dirty, rootVars, threadVars, lockVars,
                   word, stack, cur, left, lists, cardVars, buf>>

-----------------------------------------------------------------------------
(* dvmHeapBitmapSweepWalk: the old live bits without the new ones, read    *)
(* without the lock; a partial collection leaves the zygote heap out.      *)
SweepWord ==
    LET garbage == {o \in mark \ live : WordOf(o) = finger}
    IN /\ phase = "sweep"
       /\ finger < PastEnd /\ Cardinality(buf) < FlushAt
       /\ buf' = buf \cup (garbage \ IF Partial(spec) THEN Immune ELSE {})
       /\ finger' = finger + 1
       /\ UNCHANGED <<heapVars, rootVars, threadVars, lockVars, gcVars, word,
                      stack, cur, left, lists, cardVars>>

(* sweepBitmapCallback and dvmHeapSourceFreeList, under the lock.  Objects *)
(* of the zygote heap only lose their bit.  What a free chunk holds is     *)
(* not state: calloc zeroes it.                                            *)
FreeList ==
    LET freed == buf \ Immune
    IN /\ phase = "sweep"
       /\ buf # {}
       /\ Cardinality(buf) >= FlushAt \/ finger = PastEnd
       /\ Concurrent(spec) => heapLock = Nobody
       /\ inUse' = inUse \ freed
       /\ live' = live \ buf
       /\ field' = [o \in Objects |-> IF o \in freed THEN NoRefs ELSE field[o]]
       /\ referent' = [o \in Objects |-> IF o \in freed THEN Null
                                         ELSE referent[o]]
       /\ buf' = {}
       /\ UNCHANGED <<mark, dirty, rootVars, threadVars, lockVars, gcVars,
                      scanVars, cardVars>>

SweepDone ==
    /\ phase = "sweep"
    /\ buf = {} /\ finger = PastEnd
    /\ Goto("finish")
    /\ UNCHANGED <<heapVars, rootVars, threadVars, lockVars, scanVars, cardVars,
                   buf>>

(* Mutant: the mark bits are not cleared. *)
FinishMarkDirty ==
    /\ phase = "finish"
    /\ finger' = 0
    /\ Goto(IF Concurrent(spec) THEN "lock3" ELSE "done")
    /\ UNCHANGED <<heapVars, rootVars, threadVars, lockVars, word, stack, cur,
                   left, lists, cardVars, buf>>

(* dvmHeapFinishMarkStep                                                   *)
FinishMark ==
    /\ phase = "finish"
    /\ mark' = {}
    /\ finger' = 0
    /\ Goto(IF Concurrent(spec) THEN "lock3" ELSE "done")
    /\ UNCHANGED <<field, referent, inUse, live, dirty, rootVars, threadVars,
                   lockVars, word, stack, cur, left, lists, cardVars, buf>>

(* Mutant: only the GC thread wakes the waiters. *)
EndGcOfDaemon ==
    /\ phase = "done"
    /\ phase' = "idle" /\ by' = Nobody /\ spec' = "none"
    /\ stopped' = {}
    /\ heapLock' = IF Concurrent(spec) THEN Nobody ELSE heapLock
    /\ pc' = [t \in Threads |->
                 IF t = by THEN CASE spec = "malloc" -> "retry"
                                  [] spec = "oom" -> "last"
                                  [] OTHER -> "run"
                 ELSE IF spec = "concurrent" /\ pc[t] = "wait" THEN "relock"
                 ELSE pc[t]]
    /\ job' = [t \in Threads |-> IF t = by /\ spec = "explicit" THEN "none"
                                 ELSE job[t]]
    /\ UNCHANGED <<heapVars, rootVars, stored, scanVars, cardVars, buf>>

(* The end of the collection, with the lock: the waiters are woken or the  *)
(* threads resumed, and the caller goes on.                                *)
EndGc ==
    /\ phase = "done"
    /\ phase' = "idle" /\ by' = Nobody /\ spec' = "none"
    /\ stopped' = {}
    /\ heapLock' = IF Concurrent(spec) THEN Nobody ELSE heapLock
    /\ pc' = [t \in Threads |->
                 IF t = by THEN CASE spec = "malloc" -> "retry"
                                  [] spec = "oom" -> "last"
                                  [] OTHER -> "run"
                 ELSE IF Concurrent(spec) /\ pc[t] = "wait" THEN "relock"
                 ELSE pc[t]]
    /\ job' = [t \in Threads |-> IF t = by /\ spec = "explicit" THEN "none"
                                 ELSE job[t]]
    /\ UNCHANGED <<heapVars, rootVars, stored, scanVars, cardVars, buf>>

Collector ==
    \/ SuspendAllThreads \/ MarkRootSet \/ UnlockHeap
    \/ ResumeAllThreads \/ WalkNext \/ WalkDone \/ ScanField \/ DelayReferent
    \/ PopMarkStack \/ MarkStackEmpty \/ RelockHeap \/ ReMarkRootSet
    \/ ReScanCard \/ ReScanDone \/ PreserveSoft \/ ClearSoftAndWeak
    \/ EnqueueFinalizers \/ ClearPhantom \/ SweepSystemWeaks \/ SwapBitmaps
    \/ SweepWord \/ FreeList \/ SweepDone \/ FinishMark \/ EndGc

Program(t) ==
    \/ Load(t) \/ Drop(t) \/ SetFieldObject(t) \/ MarkCard(t) \/ GetReferent(t)
    \/ ClearReferent(t) \/ Enter(t) \/ LookUp(t) \/ Poll(t)
    \/ \E what \in Jobs : WantHeap(t, what)
    \/ LockHeap(t) \/ Try(t) \/ Woken(t) \/ Retry(t) \/ Last(t) \/ SafePoint(t)

Next == (\E t \in Threads : Program(t)) \/ DaemonGc \/ Collector

Spec == Init /\ [][Next]_vars

-----------------------------------------------------------------------------
TypeOK ==
    /\ field \in [Objects -> [Fields -> Objects \cup {Null}]]
    /\ referent \in [Objects -> Objects \cup {Null}]
    /\ inUse \subseteq Objects /\ live \subseteq Objects /\ mark \subseteq Objects
    /\ dirty \subseteq {CardOf(o) : o \in Objects}
    /\ reg \in [Threads -> SUBSET Objects] /\ weakTable \subseteq Objects
    /\ finList \subseteq Final
    /\ pc \in [Threads -> {"run", "store", "lock", "try", "wait", "relock",
                           "woken", "retry", "last", "collect"}]
    /\ job \in [Threads -> {"none", "alloc", "explicit"}]
    /\ stored \in [Threads -> Objects \cup {Null}]
    /\ heapLock \in Threads \cup {Daemon, Nobody} /\ stopped \subseteq Threads
    /\ phase \in Phases /\ by \in Threads \cup {Daemon, Nobody}
    /\ spec \in {"none", "concurrent", "explicit", "malloc", "oom"}
    /\ finger \in Nat /\ word \subseteq Objects /\ stack \subseteq Objects
    /\ cur \in Objects \cup {Null} /\ left \subseteq Fields
    /\ lists \subseteq Refs /\ card \in Nat /\ prevAddr \in Nat \cup {Null}
    /\ buf \subseteq Objects

(* What the program can get at: the least set that holds the roots and the *)
(* targets of its own fields; with the weakly held objects and referents,  *)
(* as long as nobody has cleared them.                                     *)
Closed(S) == \A o \in S : Targets(o) \subseteq S
Reachable == {o \in Objects :
    \A S \in SUBSET Objects : Roots \subseteq S /\ Closed(S) => o \in S}

WeakTargets(o) == IF o \in Soft \cup Weak THEN {referent[o]} \ {Null} ELSE {}
WeaklyClosed(S) == \A o \in S : Targets(o) \cup WeakTargets(o) \subseteq S
Accessible == {o \in Objects :
    \A S \in SUBSET Objects :
        Roots \cup weakTable \subseteq S /\ WeaklyClosed(S) => o \in S}

(* Whatever the program does while the collector marks and sweeps, a chunk *)
(* that is freed is out of the program's reach, not even through a weak    *)
(* reference or the table of interned strings.                             *)
FreesOnlyGarbage == [][\A o \in inUse \ inUse' : o \notin Accessible]_vars

(* A soft or weak reference that the collector clears has a referent that  *)
(* is not strongly reachable.                                              *)
ClearsOnlyUnreachable ==
    [][phase = "weak" => \A r \in Objects :
           referent'[r] # referent[r] => referent[r] \notin Reachable]_vars

(* dvmVerifyCardTable: after the roots are marked again, a marked object   *)
(* with a white reference lies on a dirty card or waits on the mark stack. *)
GrayIsDirty ==
    phase = "rescan" /\ card = 0 =>
        \A o \in mark : Targets(o) \subseteq mark \/ CardOf(o) \in dirty
                        \/ o \in stack

(* An allocation that throws OutOfMemoryError does so from a heap in which *)
(* the collection has left nothing but reachable objects.                  *)
OomHeapIsReachable ==
    phase = "done" /\ spec = "oom" => inUse \ Immune \subseteq Reachable

(* A phantom reference outlasts the finalization of its referent: the      *)
(* collector clears none whose referent is reachable or still has to be    *)
(* finalized.                                                              *)
PhantomIsLast ==
    [][\A r \in (lists \ lists') \cap Phantom :
           referent'[r] # referent[r] =>
               /\ referent[r] \notin Reachable
               /\ \A q \in finList : referent[q] # referent[r]]_vars

(* A collection does not begin while another one runs: the warning         *)
(* "Attempted recursive GC" is never logged.                               *)
NoRecursiveGc ==
    [][phase' = "suspend" /\ phase # "suspend" => phase = "idle"]_vars

(* A thread that waits for a collection to complete has one to wait for:   *)
(* the broadcast at the end finds every waiter.                            *)
WaiterHasGc == \A t \in Threads : pc[t] = "wait" => gcRunning

(* The steps of the collector and those of a thread between two safepoints *)
(* or with the heap lock are taken.  A mutex does not starve the collector *)
(* and a thread comes to a safepoint again and again: strong fairness      *)
(* there.                                                                  *)
Fairness ==
    /\ WF_vars(Collector) /\ SF_vars(RelockHeap) /\ SF_vars(FreeList)
    /\ \A t \in Threads :
        /\ WF_vars(MarkCard(t) \/ Try(t) \/ Woken(t) \/ Retry(t) \/ Last(t))
        /\ SF_vars(SafePoint(t))

FairSpec == Spec /\ Fairness

(* However the program stores, allocates and waits, every collection ends. *)
GcCompletes == []<>~gcRunning

=============================================================================
