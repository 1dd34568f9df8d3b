--------------------------- MODULE ColdDexProofs ----------------------------
(***************************************************************************)
(* Theorems about ColdDex, for any patches, any number of dex files, of    *)
(* threads of the executor, of installs and of system updates.             *)
(***************************************************************************)
EXTENDS ColdDex, TLAPS, SequenceTheorems

\* What the types leave out: a preload that has opened its jar knows a patch,
\* and before it has extracted nothing.
SourceInv == \A w \in Workers :
    /\ job[w].at \in {"none", "open"} => job[w].done = {}
    /\ job[w].at \in {"extract", "merge"} => job[w].src \in Patches
    /\ job[w].at = "merge" => job[w].out.patch = job[w].src

\* The start works alone: its preloads come after it.
Alone == \/ pc = "down"
         \/ pc \in StartPcs
         \/ pc \in CleanPcs /\ back # "idle"

PlaceInv ==
    /\ Alone => queue = <<>> /\ \A w \in Workers : job[w].at = "none"
    /\ pc = "clearStandby" => where # cur
    /\ pc \in {"clearOdex", "load"} \cup CleanPcs => where = cur

(***************************************************************************)
(* The system that compiled an odex.                                       *)
(***************************************************************************)

\* The odex of directory d was compiled by another system than this one.
Old(d) == odex[d] # NoOdex /\ odex[d].sys # system

\* A preload of directory d is waiting or runs.
Posted(d) == \/ \E i \in 1..Len(queue) : queue[i] = d
             \/ \E w \in Workers : PreloadIn(w, d)

ClearPcs == {"clearStandby", "clearOdex", "clean", "addClear"}

\* At rest: the odex that the next process will load is no older than the stamp.
StampInv ==
    /\ stamp <= system
    /\ \A d \in Dirs : odex[d].sys <= system
    /\ odex[next] # NoOdex => odex[next].sys >= stamp

\* clearDir deletes an old odex; where it is done there is none.
ClearedInv == \A d \in Dirs : where = d /\ Old(d) =>
    /\ pc \in ClearPcs => OdexFile \in left
    /\ pc \notin {"cleanPrefs", "addCopy", "addCommit", "addLoad"}

\* In a process: what the check of the system has seen ...
CheckedInv == \A d \in Dirs : cur = d =>
    /\ /\ odex[d] # NoOdex
       /\ pc \in StartPcs \/ (pc \in CleanPcs /\ back # "idle")
       => odex[d].sys >= stamp
    /\ pc \in {"checkDue", "load"} /\ Old(d) => stamp = NoStamp

\* ... and which directories are sure to have no old odex.  A preload in the
\* standby directory stamps the system, while an old odex may be in the current
\* one; by then the standby directory is the next one, or a clean has deleted
\* that odex.
FreshInv == \A d \in Dirs :
    /\ pc \notin {"down", "clearStandby"} /\ d # cur => ~Old(d)
    /\ Posted(d) => ~Old(d)
    /\ /\ d # cur
       /\ Posted(d) \/ (pc = "addLoad" /\ where = d)
       => next = d \/ \A e \in Dirs \ {d} : ~Old(e)

SystemInv == StampInv /\ ClearedInv /\ CheckedInv /\ FreshInv

(***************************************************************************)
(* The files of a directory.                                               *)
(***************************************************************************)

\* What `mixed` stands for: where it is FALSE a preload has the directory to
\* itself, and who empties and fills it too.
SoleInv == \A d \in Dirs : ~mixed[d] =>
    /\ \A v, w \in Workers : PreloadIn(v, d) /\ PreloadIn(w, d) => v = w
    /\ Emptying(d) => \A w \in Workers : ~PreloadIn(w, d)

\* An install starts without files of an earlier patch.
EmptiedInv == \A d \in Dirs : where = d /\ ~mixed[d] =>
    /\ pc = "addClear" => /\ merged[d] # NoMerged => MergedFile \in left
                          /\ odex[d] # NoOdex => OdexFile \in left
    /\ pc = "addCopy" => merged[d] = NoMerged /\ odex[d] = NoOdex

\* A preload loses none of the class files it has extracted and not yet merged,
\* and nobody exchanges its jar.
PreloadInv == \A w \in Workers, d \in Dirs : PreloadIn(w, d) /\ ~mixed[d] =>
    /\ job[w].at \in {"extract", "merge"} => jar[d] \in {job[w].src, NoPatch}
    /\ job[w].at = "extract" => job[w].done \subseteq dex[d]
    /\ job[w].at = "merge" =>
          \A i \in Dexes : i > job[w].out.upto => i \in dex[d]

\* Beside a jar is nothing but what was made of it: the merged file has its
\* classes and all of the apk, and the odex was compiled from those.
MadeInv == \A d \in Dirs : jar[d] # NoPatch /\ ~mixed[d] =>
    /\ merged[d] # NoMerged => merged[d] = Full(jar[d])
    /\ odex[d] # NoOdex => odex[d].of = Full(jar[d])

FilesInv == SoleInv /\ EmptiedInv /\ PreloadInv /\ MadeInv

(***************************************************************************)
(* Types.                                                                  *)
(***************************************************************************)

\* Properties of the constants that the proofs use.
LEMMA Constants ==
    /\ NoPatch \notin Patches
    /\ BaseDexes \in Nat /\ BaseDexes > 0 /\ MaxSystem \in Nat /\ 0 \in Dexes
    /\ Dexes \subseteq Nat
    /\ \A d \in Dirs : Other(d) \in Dirs /\ Other(d) # d /\ Other(Other(d)) = d
BY ColdAssumption DEF Dexes, Dirs, Other

\* The values of the records.
LEMMA Records ==
    /\ NoMerged \in Merged /\ NoOdex \in Odex /\ NoOdex.state = "absent"
    /\ NoOdex.sys = 0
    /\ \A p \in Patches, i \in Dexes : [patch |-> p, upto |-> i] \in Merged
    /\ \A m \in Merged : m.upto \in Dexes /\ m.patch \in Patches \cup {NoPatch}
    /\ \A m \in Merged : m.patch \in Patches =>
          \A i \in Dexes : [m EXCEPT !.upto = i] \in Merged
    /\ \A o \in Odex : Md5(o) \in Odex
    /\ \A o \in Odex : /\ o.of \in Merged /\ o.sys \in Systems
                       /\ o.state \in {"absent", "empty", "torn", "whole"}
    /\ \A m \in Merged, s \in Systems :
          \A st \in {"absent", "empty", "torn", "whole"} :
             [of |-> m, sys |-> s, state |-> st] \in Odex
    /\ \A o \in Odex : \A st \in {"absent", "empty", "torn", "whole"} :
          [o EXCEPT !.state = st] \in Odex
BY Constants DEF Merged, NoMerged, Odex, NoOdex, Systems, Md5, Blank, Dexes

\* A worker with nothing to do.
LEMMA NoJobType == NoJob \in Jobs
BY Records DEF NoJob, Jobs, Tasks, Dirs, Blank

\* The names of the files of a directory.
LEMMA Names ==
    ASSUME TypeOK, NEW d \in Dirs
    PROVE  FilesIn(d) \subseteq {JarFile, MergedFile, OdexFile} \cup Dexes
BY DEF TypeOK, FilesIn

TypeInv == TypeOK /\ SourceInv

\* The first state has its types.
LEMMA TypeInit == Init => TypeInv
  <1> SUFFICES ASSUME Init PROVE TypeInv
    OBVIOUS
  <1>1. 0 \in Dirs /\ 0 \in Systems
    BY Constants DEF Dirs, Systems
  <1>2. /\ jar \in [Dirs -> Patches \cup {NoPatch}]
        /\ dex \in [Dirs -> SUBSET Dexes]
        /\ merged \in [Dirs -> Merged] /\ odex \in [Dirs -> Odex]
    BY Records DEF Init
  <1>3. queue \in Seq(Dirs) /\ mixed \in [Dirs -> BOOLEAN]
    BY DEF Init
  <1>4. /\ job \in [Workers -> Jobs]
        /\ \A w \in Workers : job[w].at = "none" /\ job[w].done = {}
    BY NoJobType DEF Init, NoJob
  <1> QED BY <1>1, <1>2, <1>3, <1>4 DEF Init, TypeInv, TypeOK, SourceInv

\* The operations keep them ...
LEMMA TypeOperating ==
    ASSUME TypeInv, Starting \/ Storing \/ Calling \/ Changing
    PROVE  TypeOK' /\ job' = job
  <1> DEFINE Goal == TypeOK' /\ job' = job
  <1> USE Constants DEF TypeInv, TypeOK, StartPcs, CleanPcs, AddPcs, dirVars,
    prefVars, opVars, taskVars
  <1>r. NoMerged \in Merged /\ NoOdex \in Odex
    BY Records
  <1>1. CASE StartProcess
    BY <1>1, Names DEF StartProcess, List, Other, Dirs
  <1>2. CASE StandbyCleared
    BY <1>2 DEF StandbyCleared, Emptied
  <1>3. CASE CheckDue
    <2> DEFINE At == IF pc = "checkApp" THEN "checkSystem" ELSE "load"
    <2>1. CASE due /\ CallClean(At)
      <3>1. mixed' \in [Dirs -> BOOLEAN]
        BY <2>1 DEF CallClean, Enter
      <3>2. left' \subseteq {JarFile, MergedFile, OdexFile} \cup Dexes
        BY <2>1, Names DEF CallClean, List
      <3> QED BY <1>3, <2>1, <3>1, <3>2 DEF CallClean, List
    <2>2. CASE ~(due /\ CallClean(At))
      <3>1. /\ pc' \in {"checkSystem", "load"} /\ where' = cur
            /\ UNCHANGED <<dirVars, prefVars, system, back, cur, cand, left,
                           adds, injected, taskVars, mixed>>
        BY <1>3, <2>2, Zenon DEF CheckDue
      <3> QED BY <3>1
    <2> QED BY <2>1, <2>2
  <1>4. CASE CheckSystem
    BY <1>4, Names DEF CheckSystem, List, Updated
  <1>5. CASE OdexCleared
    BY <1>5 DEF OdexCleared
  <1>6. CASE DeleteNext
    <2>1. PICK f \in left : Delete(where, f) /\ left' = left \ {f}
      BY <1>6 DEF DeleteNext
    <2>2. /\ jar' \in [Dirs -> Patches \cup {NoPatch}]
          /\ dex' \in [Dirs -> SUBSET Dexes]
      BY <2>1 DEF Delete
    <2>3. merged' \in [Dirs -> Merged]
      BY <1>r, <2>1 DEF Delete
    <2>4. odex' \in [Dirs -> Odex]
      BY <1>r, <2>1 DEF Delete
    <2> QED BY <1>6, <2>1, <2>2, <2>3, <2>4 DEF DeleteNext
  <1>7. CASE CleanListed
    BY <1>7 DEF CleanListed, Emptied
  <1>8. CASE CleanPrefs
    <2>1. next' \in Dirs /\ where' \in Dirs
      BY <1>8 DEF CleanPrefs, Dirs
    <2> QED BY <1>8, <2>1 DEF CleanPrefs
  <1>9. CASE AddCleared
    BY <1>9 DEF AddCleared, Emptied
  <1>10. CASE AddCopy
    BY <1>10 DEF AddCopy
  <1>11. CASE AddCommit
    BY <1>11 DEF AddCommit
  <1>12. CASE FailAdd
    BY <1>12 DEF FailAdd, Return
  <1>13. CASE LoadNone
    BY <1>13 DEF LoadNone, Loading, Return
  <1>14. CASE Inject
    BY <1>14 DEF Inject, Loading, Return
  <1>15. CASE PostPreload
    <2>1. odex' \in [Dirs -> Odex] /\ queue' \in Seq(Dirs)
      BY <1>15, <1>r DEF PostPreload
    <2> QED BY <1>15, <2>1 DEF PostPreload, Return
  <1>16. CASE CleanPatches
    <2>1. mixed' \in [Dirs -> BOOLEAN]
      BY <1>16 DEF CleanPatches, CallClean, Enter
    <2>2. left' \subseteq {JarFile, MergedFile, OdexFile} \cup Dexes
      BY <1>16, Names DEF CleanPatches, CallClean, List
    <2> QED BY <1>16, <2>1, <2>2 DEF CleanPatches, CallClean, List
  <1>17. ASSUME NEW p \in Patches, AddPatch(p) PROVE Goal
    <2>1. TargetDir \in Dirs
      BY DEF TargetDir
    <2>2. mixed' \in [Dirs -> BOOLEAN]
      BY <1>17 DEF AddPatch, Enter
    <2>3. left' \subseteq {JarFile, MergedFile, OdexFile} \cup Dexes
      BY <1>17, <2>1, Names DEF AddPatch, List
    <2> QED BY <1>17, <2>1, <2>2, <2>3 DEF AddPatch, List
  <1>18. CASE BecomeDue
    BY <1>18 DEF BecomeDue
  <1>19. CASE UpdateSystem
    BY <1>19 DEF UpdateSystem, Systems
  <1> QED BY <1>1, <1>2, <1>3, <1>4, <1>5, <1>6, <1>7, <1>8, <1>9, <1>10,
    <1>11, <1>12, <1>13, <1>14, <1>15, <1>16, <1>17, <1>18, <1>19
    DEF Starting, Storing, Calling, Changing

\* ... and so do the executor ...
LEMMA TypePreloading ==
    ASSUME TypeInv, NEW w \in Workers, Preloading(w)
    PROVE  TypeInv'
  <1> DEFINE j == job[w]
             SourceOf(k) == /\ k.at \in {"none", "open"} => k.done = {}
                            /\ k.at \in {"extract", "merge"} =>
                                  k.src \in Patches
                            /\ k.at = "merge" => k.out.patch = k.src
  <1>0. /\ j \in Jobs /\ SourceOf(j) /\ job \in [Workers -> Jobs]
        /\ j.dir \in Dirs /\ j.src \in Patches \cup {NoPatch}
        /\ j.done \in SUBSET Dexes /\ j.out \in Merged /\ j.md5 \in Odex
    BY DEF TypeInv, TypeOK, SourceInv, Jobs
  <1>r. /\ NoMerged \in Merged /\ NoOdex \in Odex /\ Blank \in Odex
        /\ \A o \in Odex : Md5(o) \in Odex
    BY Records DEF Blank
  <1>t. /\ jar \in [Dirs -> Patches \cup {NoPatch}]
        /\ dex \in [Dirs -> SUBSET Dexes]
        /\ merged \in [Dirs -> Merged] /\ odex \in [Dirs -> Odex]
        /\ record \in Odex \cup {NoRecord} /\ stamp \in Systems \cup {NoStamp}
        /\ system \in Systems /\ queue \in Seq(Dirs)
        /\ mixed \in [Dirs -> BOOLEAN]
    BY DEF TypeInv, TypeOK
  <1>j. ASSUME NEW k \in Jobs, SourceOf(k), job' = [job EXCEPT ![w] = k]
        PROVE  job' \in [Workers -> Jobs] /\ SourceInv'
    BY <1>0, <1>j DEF TypeInv, SourceInv
  <1>f. ASSUME dex' \in [Dirs -> SUBSET Dexes], merged' \in [Dirs -> Merged],
               odex' \in [Dirs -> Odex], record' \in Odex \cup {NoRecord},
               stamp' \in Systems \cup {NoStamp}, queue' \in Seq(Dirs),
               mixed' \in [Dirs -> BOOLEAN],
               job' \in [Workers -> Jobs] /\ SourceInv',
               UNCHANGED <<jar, next, due, system, opVars, injected>>
        PROVE  TypeInv'
    BY <1>f DEF TypeInv, TypeOK, opVars
  <1> USE DEF dirVars, prefVars, taskVars, Tasks
  <1>1. CASE TakeTask(w)
    <2>1. queue' \in Seq(Dirs) /\ Head(queue) \in Dirs
      BY <1>1, <1>t, HeadTailProperties DEF TakeTask
    <2> DEFINE k == [j EXCEPT !.at = "open", !.dir = Head(queue)]
    <2>2. k \in Jobs /\ SourceOf(k)
      BY <1>0, <1>1, <2>1 DEF TakeTask, Jobs
    <2>3. job' = [job EXCEPT ![w] = k]
      BY <1>1 DEF TakeTask
    <2>4. mixed' \in [Dirs -> BOOLEAN]
      BY <1>1, <1>t DEF TakeTask, Enter
    <2> HIDE DEF k
    <2>5. job' \in [Workers -> Jobs] /\ SourceInv'
      BY <1>j, <2>2, <2>3
    <2> QED BY <1>1, <1>f, <1>t, <2>1, <2>4, <2>5 DEF TakeTask
  <1>2. CASE OpenJar(w)
    <2> DEFINE k == [j EXCEPT !.at = "extract", !.src = jar[j.dir]]
    <2>1. k \in Jobs /\ SourceOf(k)
      BY <1>2, <1>0, <1>t DEF OpenJar, Jobs
    <2>2. job' = [job EXCEPT ![w] = k]
      BY <1>2 DEF OpenJar
    <2> HIDE DEF k
    <2> QED BY <1>2, <1>f, <1>j, <1>t, <2>1, <2>2 DEF OpenJar
  <1>3. ASSUME NEW i \in Dexes, Extract(w, i) PROVE TypeInv'
    <2> DEFINE k == [j EXCEPT !.done = @ \cup {i}]
    <2>1. k \in Jobs /\ SourceOf(k)
      BY <1>0, <1>3 DEF Extract, Jobs
    <2>2. job' = [job EXCEPT ![w] = k]
      BY <1>3 DEF Extract
    <2>3. dex' \in [Dirs -> SUBSET Dexes]
      BY <1>3, <1>0, <1>t DEF Extract
    <2> HIDE DEF k
    <2> QED BY <1>3, <1>f, <1>j, <1>t, <2>1, <2>2, <2>3 DEF Extract
  <1>4. CASE MergePatch(w)
    <2> DEFINE m == [patch |-> j.src, upto |-> 0]
               k == [j EXCEPT !.at = "merge", !.done = {}, !.out = m]
    <2>1. m \in Merged
      BY <1>4, <1>0, Records, Constants DEF MergePatch
    <2>2. k \in Jobs /\ SourceOf(k)
      BY <1>4, <1>0, <2>1 DEF MergePatch, Jobs
    <2>3. job' = [job EXCEPT ![w] = k]
      BY <1>4 DEF MergePatch
    <2>4. dex' \in [Dirs -> SUBSET Dexes]
      BY <1>4, <1>0, <1>t DEF MergePatch
    <2> HIDE DEF k
    <2> QED BY <1>4, <1>f, <1>j, <1>t, <2>2, <2>3, <2>4 DEF MergePatch
  <1>5. CASE MergeBase(w)
    <2> DEFINE m == [j.out EXCEPT !.upto = @ + 1]
               k == [j EXCEPT !.out = m]
    <2>1. m = [j.out EXCEPT !.upto = j.out.upto + 1] /\ j.out.upto + 1 \in Dexes
      BY <1>5, <1>0, <1>t DEF MergeBase
    <2>2. j.out.patch \in Patches
      BY <1>5, <1>0 DEF MergeBase
    <2>3. m \in Merged /\ m.patch = j.out.patch
      <3>1. m \in Merged
        BY <1>0, <2>1, <2>2, Records
      <3>2. m.patch = j.out.patch
        BY <1>0 DEF Merged, NoMerged
      <3> QED BY <3>1, <3>2
    <2> HIDE DEF m
    <2>4. k \in Jobs /\ SourceOf(k)
      BY <1>5, <1>0, <2>3 DEF MergeBase, Jobs
    <2>5. job' = [job EXCEPT ![w] = k]
      BY <1>5 DEF MergeBase, m
    <2>6. dex' \in [Dirs -> SUBSET Dexes]
      BY <1>5, <1>0, <1>t DEF MergeBase
    <2> HIDE DEF k
    <2> QED BY <1>5, <1>f, <1>j, <1>t, <2>4, <2>5, <2>6 DEF MergeBase
  <1>6. CASE Rename(w)
    <2> DEFINE k == [j EXCEPT !.at = "compile", !.src = NoPatch,
                              !.out = NoMerged]
    <2>1. k \in Jobs /\ SourceOf(k)
      BY <1>6, <1>0, <1>r DEF Jobs
    <2>2. job' = [job EXCEPT ![w] = k]
      BY <1>6 DEF Rename
    <2>3. merged' \in [Dirs -> Merged]
      BY <1>6, <1>0, <1>t DEF Rename
    <2> HIDE DEF k
    <2> QED BY <1>6, <1>f, <1>j, <1>t, <2>1, <2>2, <2>3 DEF Rename
  <1>7. CASE StartCompile(w)
    <2> DEFINE k == [j EXCEPT !.at = "wait"]
    <2>1. k \in Jobs /\ SourceOf(k)
      BY <1>0 DEF Jobs
    <2>2. job' = [job EXCEPT ![w] = k]
      BY <1>7 DEF StartCompile
    <2>3. NewOdex(j.dir) \in Odex
      BY <1>0, <1>t, Records DEF NewOdex
    <2>4. odex' \in [Dirs -> Odex]
      BY <1>7, <1>t, <2>3 DEF StartCompile
    <2> HIDE DEF k
    <2> QED BY <1>7, <1>f, <1>j, <1>t, <2>1, <2>2, <2>4 DEF StartCompile
  <1>8. CASE ReadMd5(w)
    <2> DEFINE k == [j EXCEPT !.at = "compare", !.md5 = Md5(odex[j.dir])]
    <2>1. k \in Jobs /\ SourceOf(k)
      BY <1>0, <1>r, <1>t DEF Jobs
    <2>2. job' = [job EXCEPT ![w] = k]
      BY <1>8 DEF ReadMd5
    <2> HIDE DEF k
    <2> QED BY <1>8, <1>f, <1>j, <1>t, <2>1, <2>2 DEF ReadMd5
  <1>9. CASE CompareMd5(w)
    <2> DEFINE a == [j EXCEPT !.at = "record"]
               b == [j EXCEPT !.md5 = Md5(odex[j.dir])]
               c == [j EXCEPT !.at = "record", !.md5 = Blank]
    <2>1. \/ job' = [job EXCEPT ![w] = a]
          \/ job' = [job EXCEPT ![w] = b]
          \/ job' = [job EXCEPT ![w] = c]
      BY <1>9 DEF CompareMd5
    <2>2. /\ a \in Jobs /\ SourceOf(a)
          /\ b \in Jobs /\ SourceOf(b)
          /\ c \in Jobs /\ SourceOf(c)
      BY <1>9, <1>0, <1>r, <1>t DEF CompareMd5, Jobs
    <2> HIDE DEF a, b, c
    <2>3. job' \in [Workers -> Jobs] /\ SourceInv'
      BY <1>j, <2>1, <2>2
    <2> QED BY <1>9, <1>f, <1>t, <2>3 DEF CompareMd5
  <1>10. CASE Record(w)
    <2> DEFINE k == [j EXCEPT !.at = "stamp", !.md5 = Blank]
    <2>1. k \in Jobs /\ SourceOf(k)
      BY <1>0, <1>r DEF Jobs
    <2>2. job' = [job EXCEPT ![w] = k]
      BY <1>10 DEF Record
    <2>3. record' \in Odex
      BY <1>10, <1>0 DEF Record
    <2> HIDE DEF k
    <2> QED BY <1>10, <1>f, <1>j, <1>t, <2>1, <2>2, <2>3 DEF Record
  <1>n. NoJob \in Jobs /\ SourceOf(NoJob)
    BY NoJobType DEF NoJob
  <1>11. CASE Stamp(w)
    BY <1>11, <1>f, <1>j, <1>n, <1>t DEF Stamp
  <1>12. CASE FailTask(w)
    BY <1>12, <1>f, <1>j, <1>n, <1>t DEF FailTask
  <1> QED BY <1>1, <1>2, <1>3, <1>4, <1>5, <1>6, <1>7, <1>8, <1>9, <1>10,
    <1>11, <1>12 DEF Preloading

\* ... and the compiler, which writes on an odex or deletes it.
LEMMA CompilerStep ==
    ASSUME TypeInv, NEW e \in Dirs, Compiling(e)
    PROVE  /\ odex' \in [Dirs -> Odex]
           /\ \A d \in Dirs :
                 \/ odex'[d] = NoOdex
                 \/ /\ odex[d] # NoOdex
                    /\ odex'[d].of = odex[d].of /\ odex'[d].sys = odex[d].sys
           /\ UNCHANGED <<jar, dex, merged, prefVars, system, opVars, injected,
                          taskVars, mixed>>
  <1>1. PICK o : Compile(e, {"empty", "torn"}, o) /\
            o \in {NoOdex, [odex[e] EXCEPT !.state = "torn"],
                   [odex[e] EXCEPT !.state = "whole"]}
    BY DEF Compiling, WriteOdex, EndCompile, FailCompile, Compile
  <1>2. odex \in [Dirs -> Odex] /\ odex[e] \in Odex
    BY DEF TypeInv, TypeOK
  <1>3. o \in Odex
    BY <1>1, <1>2, Records
  <1>4. odex[e] # NoOdex
    BY <1>1, Records DEF Compile
  <1>5. o # NoOdex => o.of = odex[e].of /\ o.sys = odex[e].sys
    BY <1>1, <1>2 DEF Odex
  <1> QED BY <1>1, <1>2, <1>3, <1>4, <1>5 DEF Compile

\* The death of the process forgets what is not on disk.
LEMMA DeathType ==
    ASSUME TypeInv, Die
    PROVE  TypeInv' /\ \A w \in Workers : job'[w] = NoJob
  <1>1. job' \in [Workers -> Jobs] /\ \A w \in Workers : job'[w] = NoJob
    BY NoJobType DEF Die
  <1>2. SourceInv'
    BY <1>1 DEF SourceInv, NoJob
  <1>3. cur' \in Dirs /\ where' \in Dirs /\ queue' \in Seq(Dirs)
    BY DEF Die, Dirs
  <1> QED BY <1>1, <1>2, <1>3 DEF Die, TypeInv, TypeOK, dirVars, prefVars

\* Every step keeps the types.
LEMMA TypeNext ==
    ASSUME TypeInv, [Next]_vars
    PROVE  TypeInv'
  <1>1. CASE Starting \/ Storing \/ Calling \/ Changing
    BY <1>1, TypeOperating DEF TypeInv, SourceInv
  <1>2. ASSUME NEW w \in Workers, Preloading(w) PROVE TypeInv'
    BY <1>2, TypePreloading
  <1>3. ASSUME NEW e \in Dirs, Compiling(e) PROVE TypeInv'
    BY <1>3, CompilerStep DEF TypeInv, TypeOK, SourceInv, prefVars, opVars,
      taskVars
  <1>4. CASE Die
    BY <1>4, DeathType
  <1>5. CASE UNCHANGED vars
    BY <1>5 DEF vars, dirVars, prefVars, opVars, taskVars, TypeInv, TypeOK,
      SourceInv
  <1> QED BY <1>1, <1>2, <1>3, <1>4, <1>5 DEF Next

\* The model keeps its types, whatever the constants are.
THEOREM TypeCorrect == Spec => []TypeOK
  <1>1. TypeInv /\ [Next]_vars => TypeInv'
    BY TypeNext
  <1>2. TypeInv => TypeOK
    BY DEF TypeInv
  <1> QED BY TypeInit, <1>1, <1>2, PTL DEF Spec

(***************************************************************************)
(* What steps leave alone.                                                 *)
(***************************************************************************)

Operating == Starting \/ Storing \/ Calling \/ Changing

\* Every step is one of an operation, of a thread of the executor or of the
\* compiler, or the death of the process.
LEMMA Steps ==
    ASSUME [Next]_vars
    PROVE  \/ Operating
           \/ \E w \in Workers : Preloading(w)
           \/ \E e \in Dirs : Compiling(e)
           \/ Die
           \/ UNCHANGED vars
BY DEF Next, Operating

\* A step of an operation.
LEMMA OperatingStep ==
    ASSUME TypeInv, Operating
    PROVE  /\ job' = job
           /\ queue' = queue \/ PostPreload
           /\ jar' = jar \/ DeleteNext \/ AddCopy \/ FailAdd
           /\ dex' = dex \/ DeleteNext
           /\ merged' = merged \/ DeleteNext
           /\ odex' = odex \/ DeleteNext \/ PostPreload
           /\ next' = next \/ CleanPrefs \/ AddCommit
           /\ stamp' = stamp \/ CleanPrefs
           /\ system' = system \/ (UpdateSystem /\ odex' = odex)
  <1> DEFINE Goal ==
        /\ job' = job
        /\ queue' = queue \/ PostPreload
        /\ jar' = jar \/ DeleteNext \/ AddCopy \/ FailAdd
        /\ dex' = dex \/ DeleteNext
        /\ merged' = merged \/ DeleteNext
        /\ odex' = odex \/ DeleteNext \/ PostPreload
        /\ next' = next \/ CleanPrefs \/ AddCommit
        /\ stamp' = stamp \/ CleanPrefs
        /\ system' = system \/ (UpdateSystem /\ odex' = odex)
  <1> USE DEF dirVars, prefVars, opVars, taskVars
  <1>s. ASSUME UNCHANGED <<dirVars, next, stamp, system, taskVars>> PROVE Goal
    BY <1>s
  <1>1. CASE StartProcess
    BY <1>1, <1>s DEF StartProcess
  <1>2. CASE StandbyCleared
    BY <1>2, <1>s DEF StandbyCleared
  <1>3. CASE CheckDue
    BY <1>3, <1>s DEF CheckDue, CallClean
  <1>4. CASE CheckSystem
    BY <1>4, <1>s DEF CheckSystem
  <1>5. CASE OdexCleared
    BY <1>5, <1>s DEF OdexCleared
  <1>6. CASE DeleteNext
    <2>1. UNCHANGED <<prefVars, system, taskVars>>
      BY <1>6 DEF DeleteNext
    <2> QED BY <1>6, <2>1
  <1>7. CASE CleanListed
    BY <1>7, <1>s DEF CleanListed
  <1>8. CASE CleanPrefs
    <2>1. UNCHANGED <<dirVars, system, taskVars>>
      BY <1>8 DEF CleanPrefs
    <2> QED BY <1>8, <2>1
  <1>9. CASE AddCleared
    BY <1>9, <1>s DEF AddCleared
  <1>10. CASE AddCopy
    <2>1. UNCHANGED <<dex, merged, odex, prefVars, system, taskVars>>
      BY <1>10 DEF AddCopy
    <2> QED BY <1>10, <2>1
  <1>11. CASE AddCommit
    <2>1. UNCHANGED <<dirVars, stamp, system, taskVars>>
      BY <1>11 DEF AddCommit
    <2> QED BY <1>11, <2>1
  <1>12. CASE FailAdd
    <2>1. UNCHANGED <<dex, merged, odex, prefVars, system, taskVars>>
      BY <1>12 DEF FailAdd
    <2> QED BY <1>12, <2>1
  <1>13. CASE LoadNone
    BY <1>13, <1>s DEF LoadNone
  <1>14. CASE Inject
    BY <1>14, <1>s DEF Inject
  <1>15. CASE PostPreload
    <2>1. UNCHANGED <<jar, dex, merged, prefVars, system, job>>
      BY <1>15 DEF PostPreload
    <2> QED BY <1>15, <2>1
  <1>16. CASE CleanPatches
    BY <1>16, <1>s DEF CleanPatches, CallClean
  <1>17. ASSUME NEW p \in Patches, AddPatch(p) PROVE Goal
    BY <1>17, <1>s DEF AddPatch
  <1>18. CASE BecomeDue
    BY <1>18, <1>s DEF BecomeDue
  <1>19. CASE UpdateSystem
    <2>1. UNCHANGED <<dirVars, prefVars, taskVars>>
      BY <1>19 DEF UpdateSystem
    <2> QED BY <1>19, <2>1
  <1> QED BY <1>1, <1>2, <1>3, <1>4, <1>5, <1>6, <1>7, <1>8, <1>9, <1>10,
    <1>11, <1>12, <1>13, <1>14, <1>15, <1>16, <1>17, <1>18, <1>19
    DEF Operating, Starting, Storing, Calling, Changing

\* A step of a preload: it works in its own directory alone.
LEMMA PreloadingStep ==
    ASSUME TypeInv, NEW w \in Workers, Preloading(w)
    PROVE  /\ UNCHANGED <<jar, next, due, system, opVars, injected>>
           /\ \A v \in Workers : v # w => job'[v] = job[v]
           /\ \/ TakeTask(w)
              \/ /\ job[w].at # "none" /\ queue' = queue /\ mixed' = mixed
                 /\ job'[w].at = "none" \/ job'[w].dir = job[w].dir
           /\ \A d \in Dirs : dex'[d] = dex[d] \/ PreloadIn(w, d)
           /\ \A d \in Dirs : merged'[d] = merged[d]
                                 \/ (Rename(w) /\ PreloadIn(w, d))
           /\ \A d \in Dirs : odex'[d] = odex[d]
                 \/ /\ StartCompile(w) /\ PreloadIn(w, d)
                    /\ odex'[d] = NewOdex(d)
           /\ stamp' = stamp \/ Stamp(w)
           /\ job'[w].at \in {"extract", "merge"} =>
                 \/ OpenJar(w) \/ MergePatch(w) \/ MergeBase(w)
                 \/ \E i \in Dexes : Extract(w, i)
  <1> DEFINE Far == /\ \A d \in Dirs : dex'[d] = dex[d] \/ PreloadIn(w, d)
                    /\ \A d \in Dirs : merged'[d] = merged[d]
                                 \/ (Rename(w) /\ PreloadIn(w, d))
                    /\ \A d \in Dirs : odex'[d] = odex[d]
                          \/ /\ StartCompile(w) /\ PreloadIn(w, d)
                             /\ odex'[d] = NewOdex(d)
             Goal == /\ UNCHANGED <<jar, next, due, system, opVars, injected>>
                     /\ \A v \in Workers : v # w => job'[v] = job[v]
                     /\ \/ TakeTask(w)
                        \/ /\ job[w].at # "none" /\ queue' = queue
                           /\ mixed' = mixed
                           /\ \/ job'[w].at = "none"
                              \/ job'[w].dir = job[w].dir
                     /\ Far
                     /\ stamp' = stamp \/ Stamp(w)
                     /\ job'[w].at \in {"extract", "merge"} =>
                           \/ OpenJar(w) \/ MergePatch(w) \/ MergeBase(w)
                           \/ \E i \in Dexes : Extract(w, i)
  <1>0. /\ job \in [Workers -> Jobs] /\ job[w] \in Jobs /\ job[w].dir \in Dirs
        /\ dex \in [Dirs -> SUBSET Dexes]
        /\ merged \in [Dirs -> Merged] /\ odex \in [Dirs -> Odex]
        /\ NoJob \in Jobs /\ NoJob.at = "none"
    BY NoJobType DEF TypeInv, TypeOK, Jobs, NoJob
  <1>s. ASSUME dex' = dex, merged' = merged, odex' = odex PROVE Far
    BY <1>s
  <1> USE DEF dirVars, prefVars, taskVars
  <1>1. CASE TakeTask(w)
    <2>1. job'[w].at = "open"
      BY <1>1, <1>0 DEF TakeTask, Jobs
    <2> QED BY <1>1, <1>0, <1>s, <2>1 DEF TakeTask
  <1>2. CASE OpenJar(w)
    <2>1. job'[w].dir = job[w].dir
      BY <1>2, <1>0 DEF OpenJar, Jobs
    <2> QED BY <1>2, <1>0, <1>s, <2>1 DEF OpenJar
  <1>3. ASSUME NEW i \in Dexes, Extract(w, i) PROVE Goal
    <2>1. job'[w].dir = job[w].dir
      BY <1>3, <1>0 DEF Extract, Jobs
    <2>2. Far
      BY <1>3, <1>0 DEF Extract, PreloadIn
    <2> QED BY <1>3, <1>0, <2>1, <2>2 DEF Extract
  <1>4. CASE MergePatch(w)
    <2>1. job'[w].dir = job[w].dir
      BY <1>4, <1>0 DEF MergePatch, Jobs
    <2>2. Far
      BY <1>4, <1>0 DEF MergePatch, PreloadIn
    <2>3. \A v \in Workers : v # w => job'[v] = job[v]
      BY <1>4, <1>0 DEF MergePatch
    <2>4. job[w].at # "none" /\ UNCHANGED <<jar, prefVars, system, opVars,
                                           injected, queue, mixed>>
      BY <1>4 DEF MergePatch
    <2> QED BY <1>4, <2>1, <2>2, <2>3, <2>4
  <1>5. CASE MergeBase(w)
    <2>1. job'[w].dir = job[w].dir
      BY <1>5, <1>0 DEF MergeBase, Jobs
    <2>2. Far
      BY <1>5, <1>0 DEF MergeBase, PreloadIn
    <2>3. \A v \in Workers : v # w => job'[v] = job[v]
      BY <1>5, <1>0 DEF MergeBase
    <2>4. job[w].at # "none" /\ UNCHANGED <<jar, prefVars, system, opVars,
                                           injected, queue, mixed>>
      BY <1>5 DEF MergeBase
    <2> QED BY <1>5, <2>1, <2>2, <2>3, <2>4
  <1>6. CASE Rename(w)
    <2>1. job'[w].dir = job[w].dir /\ job'[w].at = "compile"
      BY <1>6, <1>0 DEF Rename, Jobs
    <2>2. Far
      BY <1>6, <1>0 DEF Rename, PreloadIn
    <2>3. \A v \in Workers : v # w => job'[v] = job[v]
      BY <1>6, <1>0 DEF Rename
    <2>4. job[w].at # "none" /\ UNCHANGED <<jar, prefVars, system, opVars,
                                           injected, queue, mixed>>
      BY <1>6 DEF Rename
    <2> QED BY <1>6, <2>1, <2>2, <2>3, <2>4
  <1>7. CASE StartCompile(w)
    <2>1. job'[w].dir = job[w].dir /\ job'[w].at = "wait"
      BY <1>7, <1>0 DEF StartCompile, Jobs
    <2>2. Far
      BY <1>7, <1>0 DEF StartCompile, PreloadIn
    <2>3. \A v \in Workers : v # w => job'[v] = job[v]
      BY <1>7, <1>0 DEF StartCompile
    <2>4. job[w].at # "none" /\ UNCHANGED <<jar, prefVars, system, opVars,
                                           injected, queue, mixed>>
      BY <1>7 DEF StartCompile
    <2> QED BY <1>7, <2>1, <2>2, <2>3, <2>4
  <1>8. CASE ReadMd5(w)
    <2>1. job'[w].dir = job[w].dir /\ job'[w].at = "compare"
      BY <1>8, <1>0 DEF ReadMd5, Jobs
    <2> QED BY <1>8, <1>0, <1>s, <2>1 DEF ReadMd5
  <1>9. CASE CompareMd5(w)
    <2>1. job'[w].dir = job[w].dir /\ job'[w].at \in {"compare", "record"}
      BY <1>9, <1>0 DEF CompareMd5, Jobs
    <2> QED BY <1>9, <1>0, <1>s, <2>1 DEF CompareMd5
  <1>10. CASE Record(w)
    <2>1. job'[w].dir = job[w].dir /\ job'[w].at = "stamp"
      BY <1>10, <1>0 DEF Record, Jobs
    <2> QED BY <1>10, <1>0, <1>s, <2>1 DEF Record
  <1>11. CASE Stamp(w)
    BY <1>11, <1>0, <1>s DEF Stamp
  <1>12. CASE FailTask(w)
    BY <1>12, <1>0, <1>s DEF FailTask
  <1> QED BY <1>1, <1>2, <1>3, <1>4, <1>5, <1>6, <1>7, <1>8, <1>9, <1>10,
    <1>11, <1>12 DEF Preloading

\* The death of the process.
LEMMA DeathStep ==
    ASSUME TypeInv, Die
    PROVE  /\ UNCHANGED <<dirVars, prefVars, system, mixed>>
           /\ queue' = <<>> /\ pc' = "down"
           /\ \A w \in Workers : job'[w].at = "none"
BY DeathType DEF Die, NoJob

(***************************************************************************)
(* Where the operation is.                                                 *)
(***************************************************************************)

\* While the start works alone, no thread of the executor takes a step.
LEMMA AloneStep ==
    ASSUME TypeInv, PlaceInv, NEW w \in Workers, Preloading(w)
    PROVE  ~Alone
BY PreloadingStep DEF PlaceInv, TakeTask

\* Every step keeps the places of the start and its directories.
LEMMA PlaceNext ==
    ASSUME TypeInv, PlaceInv, [Next]_vars
    PROVE  PlaceInv'
  <1>0. /\ cur \in Dirs /\ back \in {"checkSystem", "load", "idle"}
        /\ next \in Dirs /\ \A d \in Dirs : Other(d) # d
    BY Constants DEF TypeInv, TypeOK
  <1>w. ASSUME NEW w \in Workers, Preloading(w) PROVE PlaceInv'
    <2>1. ~Alone /\ UNCHANGED opVars
      BY <1>w, AloneStep, PreloadingStep
    <2> QED BY <2>1 DEF PlaceInv, Alone, opVars
  <1>c. ASSUME NEW e \in Dirs, Compiling(e) PROVE PlaceInv'
    BY <1>c, CompilerStep DEF PlaceInv, Alone, opVars, taskVars
  <1>d. CASE Die
    BY <1>d, DeathStep DEF PlaceInv, StartPcs, CleanPcs
  <1> USE <1>0 DEF PlaceInv, Alone, StartPcs, CleanPcs, AddPcs, opVars, taskVars
  <1>u. CASE UNCHANGED vars
    BY <1>u DEF vars
  <1>1. CASE StartProcess
    BY <1>1 DEF StartProcess, List
  <1>2. CASE StandbyCleared
    BY <1>2 DEF StandbyCleared
  <1>3. CASE CheckDue
    BY <1>3 DEF CheckDue, CallClean, List
  <1>4. CASE CheckSystem
    BY <1>4 DEF CheckSystem, List, Updated
  <1>5. CASE OdexCleared
    BY <1>5 DEF OdexCleared
  <1>6. CASE DeleteNext
    BY <1>6 DEF DeleteNext, Delete
  <1>7. CASE CleanListed
    BY <1>7 DEF CleanListed
  <1>8. CASE CleanPrefs
    BY <1>8 DEF CleanPrefs
  <1>9. CASE AddCleared
    BY <1>9 DEF AddCleared
  <1>10. CASE AddCopy
    BY <1>10 DEF AddCopy
  <1>11. CASE AddCommit
    BY <1>11 DEF AddCommit
  <1>12. CASE FailAdd
    BY <1>12 DEF FailAdd, Return
  <1>13. CASE LoadNone
    BY <1>13 DEF LoadNone, Return
  <1>14. CASE Inject
    BY <1>14 DEF Inject, Return
  <1>15. CASE PostPreload
    BY <1>15 DEF PostPreload, Return
  <1>16. CASE CleanPatches
    BY <1>16 DEF CleanPatches, CallClean, List
  <1>17. ASSUME NEW p \in Patches, AddPatch(p) PROVE PlaceInv'
    BY <1>17 DEF AddPatch, List
  <1>18. CASE BecomeDue
    BY <1>18 DEF BecomeDue
  <1>19. CASE UpdateSystem
    BY <1>19 DEF UpdateSystem
  <1> QED BY Steps, <1>w, <1>c, <1>d, <1>u, <1>1, <1>2, <1>3, <1>4, <1>5,
    <1>6, <1>7, <1>8, <1>9, <1>10, <1>11, <1>12, <1>13, <1>14, <1>15, <1>16,
    <1>17, <1>18, <1>19 DEF Operating, Starting, Storing, Calling, Changing

(***************************************************************************)
(* Odexes and the systems that compiled them.                              *)
(***************************************************************************)

\* What the proofs about odexes use of the types.
LEMMA OdexTypes ==
    ASSUME TypeInv, [Next]_vars
    PROVE  /\ odex \in [Dirs -> Odex] /\ odex' \in [Dirs -> Odex]
           /\ system \in Nat /\ system' \in Nat
           /\ stamp \in Nat \cup {NoStamp} /\ stamp' \in Nat \cup {NoStamp}
           /\ NoStamp = -1 /\ NoOdex.sys = 0
           /\ \A d \in Dirs : odex[d].sys \in Nat /\ odex'[d].sys \in Nat
           /\ next \in Dirs /\ next' \in Dirs /\ cur \in Dirs /\ cur' \in Dirs
           /\ where \in Dirs /\ where' \in Dirs
           /\ \A d \in Dirs : Other(d) \in Dirs /\ Other(d) # d
           /\ \A d, e, f \in Dirs : d = e \/ e = f \/ d = f
  <1>1. TypeInv'
    BY TypeNext
  <1>2. Systems \subseteq Nat
    BY DEF Systems
  <1>3. \A d \in Dirs : odex[d] \in Odex /\ odex'[d] \in Odex
    BY <1>1 DEF TypeInv, TypeOK
  <1>4. \A d \in Dirs : odex[d].sys \in Nat /\ odex'[d].sys \in Nat
    BY <1>2, <1>3, Records
  <1>5. \A d, e, f \in Dirs : d = e \/ e = f \/ d = f
    BY DEF Dirs
  <1> QED BY <1>1, <1>2, <1>4, <1>5, Records, Constants DEF TypeInv, TypeOK,
    NoStamp

\* What a step does to an odex: nothing, to delete it, to write on, or to
\* compile it anew; and only a process that is down sees another system.
LEMMA OdexStep ==
    ASSUME TypeInv, [Next]_vars, NEW d \in Dirs
    PROVE  /\ \/ odex'[d] = NoOdex
              \/ odex'[d].sys = system
              \/ odex[d] # NoOdex /\ odex'[d].sys = odex[d].sys
           /\ \/ system' = system
              \/ pc = "down" /\ system' = system + 1 /\ odex' = odex
  <1>0. odex \in [Dirs -> Odex] /\ where \in Dirs
    BY DEF TypeInv, TypeOK
  <1>1. CASE Operating
    <2>1. ASSUME DeleteNext PROVE odex'[d] \in {odex[d], NoOdex}
      BY <1>0, <2>1 DEF DeleteNext, Delete
    <2>2. ASSUME PostPreload PROVE odex'[d] \in {odex[d], NoOdex}
      BY <1>0, <2>2 DEF PostPreload
    <2>3. odex'[d] \in {odex[d], NoOdex}
      BY <1>1, <2>1, <2>2, OperatingStep
    <2> QED BY <1>1, <2>3, OperatingStep DEF UpdateSystem
  <1>2. ASSUME NEW w \in Workers, Preloading(w)
        PROVE  /\ odex'[d] = odex[d] \/ odex'[d].sys = system
               /\ system' = system
    <2>1. odex'[d] = odex[d] \/ odex'[d] = NewOdex(d)
      BY <1>2, PreloadingStep
    <2>2. NewOdex(d).sys = system
      BY DEF NewOdex
    <2> QED BY <1>2, <2>1, <2>2, PreloadingStep
  <1>3. ASSUME NEW e \in Dirs, Compiling(e)
        PROVE  /\ \/ odex'[d] = NoOdex
                  \/ odex[d] # NoOdex /\ odex'[d].sys = odex[d].sys
               /\ system' = system
    BY <1>3, CompilerStep
  <1>4. CASE Die \/ UNCHANGED vars
    BY <1>4, DeathStep DEF vars, dirVars
  <1> QED BY Steps, <1>1, <1>2, <1>3, <1>4

\* An odex grows old only when the process is down and the system is updated.
LEMMA OldStep ==
    ASSUME TypeInv, [Next]_vars, system' = system, NEW d \in Dirs, Old(d)'
    PROVE  Old(d)
  <1>1. odex \in [Dirs -> Odex] /\ system \in Nat
    BY Constants DEF TypeInv, TypeOK, Systems
  <1> QED BY <1>1, OdexStep DEF Old

\* A preload is posted by hotfix alone.
LEMMA PostedStep ==
    ASSUME TypeInv, [Next]_vars, NEW d \in Dirs, Posted(d)'
    PROVE  Posted(d) \/ (PostPreload /\ where = d)
  <1> SUFFICES ASSUME ~Posted(d) PROVE PostPreload /\ where = d
    OBVIOUS
  <1>0. queue \in Seq(Dirs) /\ where \in Dirs /\ job \in [Workers -> Jobs]
    BY DEF TypeInv, TypeOK
  <1>s. ASSUME queue' = queue, job' = job PROVE FALSE
    BY <1>s DEF Posted, PreloadIn
  <1>1. CASE PostPreload
    <2>1. queue' = Append(queue, where) /\ job' = job
      BY <1>1 DEF PostPreload
    <2>2. PICK i \in 1..Len(queue') : queue'[i] = d
      BY <2>1 DEF Posted, PreloadIn
    <2>3. CASE i = Len(queue) + 1
      BY <1>1, <1>0, <2>1, <2>2, <2>3, AppendProperties
    <2>4. CASE i \in 1..Len(queue)
      BY <1>0, <2>1, <2>2, <2>4, AppendProperties DEF Posted
    <2> QED BY <1>0, <2>1, <2>3, <2>4, AppendProperties, LenProperties
  <1>2. CASE Operating /\ ~PostPreload
    BY <1>2, <1>s, OperatingStep
  <1>3. ASSUME NEW w \in Workers, Preloading(w) PROVE FALSE
    <2>0. \A v \in Workers : v # w => job'[v] = job[v]
      BY <1>3, PreloadingStep
    <2>1. CASE TakeTask(w)
      <3>1. /\ queue # <<>> /\ queue' = Tail(queue)
            /\ job'[w].dir = Head(queue)
        BY <1>0, <2>1 DEF TakeTask, Jobs
      <3>2. CASE \E i \in 1..Len(queue') : queue'[i] = d
        <4>1. PICK i \in 1..Len(queue') : queue'[i] = d
          BY <3>2
        <4>2. i + 1 \in 1..Len(queue) /\ queue[i + 1] = d
          BY <1>0, <3>1, <4>1, HeadTailProperties, LenProperties
        <4> QED BY <4>2 DEF Posted
      <3>3. CASE \E v \in Workers : PreloadIn(v, d)'
        <4>1. PICK v \in Workers : PreloadIn(v, d)'
          BY <3>3
        <4>2. v = w
          BY <2>0, <4>1 DEF Posted, PreloadIn
        <4>3. 1 \in 1..Len(queue) /\ queue[1] = d
          BY <1>0, <3>1, <4>1, <4>2, HeadTailProperties, LenProperties, EmptySeq
          DEF PreloadIn
        <4> QED BY <4>3 DEF Posted
      <3> QED BY <3>2, <3>3 DEF Posted
    <2>2. CASE ~TakeTask(w)
      <3>1. /\ job[w].at # "none" /\ queue' = queue
            /\ job'[w].at = "none" \/ job'[w].dir = job[w].dir
        BY <1>3, <2>2, PreloadingStep
      <3> QED BY <2>0, <3>1 DEF Posted, PreloadIn
    <2> QED BY <2>1, <2>2
  <1>4. ASSUME NEW e \in Dirs, Compiling(e) PROVE FALSE
    BY <1>4, <1>s, CompilerStep DEF taskVars
  <1>5. CASE Die
    BY <1>5, DeathStep, EmptySeq DEF Posted, PreloadIn
  <1>6. CASE UNCHANGED vars
    BY <1>6, <1>s DEF vars, taskVars
  <1> QED BY Steps, <1>1, <1>2, <1>3, <1>4, <1>5, <1>6

\* The steps that write the next directory or the stamp.
LEMMA PrefStep ==
    ASSUME TypeInv, [Next]_vars
    PROVE  \/ next' = next /\ stamp' = stamp
           \/ CleanPrefs \/ AddCommit
           \/ \E w \in Workers : Preloading(w) /\ Stamp(w)
  <1>1. CASE Operating
    BY <1>1, OperatingStep
  <1>2. ASSUME NEW w \in Workers, Preloading(w)
        PROVE  next' = next /\ (stamp' = stamp \/ Stamp(w))
    BY <1>2, PreloadingStep
  <1>3. ASSUME NEW e \in Dirs, Compiling(e)
        PROVE  next' = next /\ stamp' = stamp
    BY <1>3, CompilerStep DEF prefVars
  <1>4. CASE Die \/ UNCHANGED vars
    BY <1>4, DeathStep DEF vars, prefVars
  <1> QED BY Steps, <1>1, <1>2, <1>3, <1>4

\* A directory that clearDir lists is listed with its odex.
LEMMA Listed ==
    ASSUME NEW d \in Dirs, odex[d] # NoOdex
    PROVE  OdexFile \in FilesIn(d) /\ OdexFile \in FilesIn(d) \ {JarFile}
BY DEF FilesIn, OdexFile, JarFile

\* The stamp is never newer than the odex of the next start.
LEMMA StampNext ==
    ASSUME TypeInv, PlaceInv, SystemInv, [Next]_vars
    PROVE  StampInv'
  <1>0. StampInv /\ ClearedInv /\ FreshInv
    BY DEF SystemInv
  <1>1. stamp' <= system'
    <2>1. stamp' \in {stamp, system, NoStamp}
      BY PrefStep DEF CleanPrefs, AddCommit, Stamp
    <2>2. system' >= system
      <3>1. 0 \in Dirs
        BY DEF Dirs
      <3> QED BY <3>1, OdexTypes, OdexStep
    <2> QED BY <1>0, <2>1, <2>2, OdexTypes DEF StampInv
  <1>2. \A d \in Dirs : odex'[d].sys <= system'
    BY <1>0, OdexTypes, OdexStep DEF StampInv
  <1>3. ASSUME odex'[next'] # NoOdex PROVE odex'[next'].sys >= stamp'
    <2>1. CASE next' = next /\ stamp' = stamp
      BY <1>0, <1>3, <2>1, OdexTypes, OdexStep DEF StampInv
    <2>2. CASE CleanPrefs
      BY <1>3, <2>2, OdexTypes DEF CleanPrefs
    <2>3. CASE AddCommit
      <3>1. PICK d \in Dirs : d = next'
        BY OdexTypes
      <3>2. odex' = odex /\ system' = system /\ stamp' = stamp
        BY <2>3 DEF AddCommit, dirVars
      <3>3. CASE d = where
        <4>1. ~Old(d)
          BY <2>3, <3>3 , <1>0 DEF AddCommit, ClearedInv
        <4> QED BY <1>0, <1>1, <1>3, <3>1, <3>2, <4>1 DEF Old
      <3>4. CASE d = next
        BY <1>0, <1>3, <3>1, <3>2, <3>4 DEF StampInv
      <3> QED BY <2>3, <3>1, <3>3, <3>4 DEF AddCommit
    <2>4. ASSUME NEW w \in Workers, Preloading(w), Stamp(w)
          PROVE  odex'[next'].sys >= stamp'
      <3>1. PICK d \in Dirs : d = next
        BY OdexTypes
      <3>2. /\ job[w].at # "none" /\ next' = next /\ odex' = odex
            /\ system' = system /\ stamp' = system
        BY <2>4 DEF Stamp, dirVars
      <3>3. pc \notin {"down", "clearStandby"}
        BY <2>4, AloneStep DEF Alone, StartPcs
      <3>4. PICK e \in Dirs : e = job[w].dir /\ Posted(e)
        BY <3>2 DEF Posted, PreloadIn, TypeInv, TypeOK, Jobs
      <3>5. ~Old(d)
        <4>1. CASE d = e
          BY <1>0, <3>4, <4>1 DEF FreshInv
        <4>2. CASE d # cur
          BY <1>0, <3>3, <4>2 DEF FreshInv
        <4>3. CASE d # e /\ d = cur
          BY <1>0, <3>1, <3>4, <4>3 DEF FreshInv
        <4> QED BY <4>1, <4>2, <4>3
      <3> QED BY <1>3, <3>1, <3>2, <3>5, OdexTypes DEF Old
    <2> QED BY <2>1, <2>2, <2>3, <2>4, PrefStep
  <1> QED BY <1>1, <1>2, <1>3 DEF StampInv

\* Neither the executor nor the compiler touches what an operation is at.
LEMMA BesideStep ==
    ASSUME TypeInv
    PROVE  /\ \A w \in Workers : Preloading(w) =>
                 UNCHANGED <<jar, next, system, opVars>>
           /\ \A e \in Dirs : Compiling(e) =>
                 UNCHANGED <<jar, next, stamp, system, opVars>>
           /\ UNCHANGED vars =>
                 UNCHANGED <<jar, next, stamp, system, opVars>>
BY PreloadingStep, CompilerStep DEF prefVars, vars, dirVars

\* clearDir goes on until an old odex is gone.
LEMMA ClearedNext ==
    ASSUME TypeInv, PlaceInv, SystemInv, [Next]_vars
    PROVE  ClearedInv'
  <1>0. ClearedInv /\ CheckedInv /\ FreshInv
    BY DEF SystemInv
  <1> SUFFICES ASSUME NEW d \in Dirs, where' = d, Old(d)'
               PROVE  /\ pc' \in ClearPcs => OdexFile \in left'
                      /\ pc' \notin {"cleanPrefs", "addCopy", "addCommit",
                                     "addLoad"}
    BY DEF ClearedInv
  <1> DEFINE Goal == /\ pc' \in ClearPcs => OdexFile \in left'
                     /\ pc' \notin {"cleanPrefs", "addCopy", "addCommit",
                                    "addLoad"}
  <1>a. system' = system => Old(d) /\ odex[d] # NoOdex
    BY OldStep DEF Old
  <1>b. OdexFile # JarFile
    BY DEF OdexFile, JarFile
  <1>f. ASSUME where = d, Old(d)
        PROVE  /\ pc \in ClearPcs => OdexFile \in left
               /\ pc \notin {"cleanPrefs", "addCopy", "addCommit", "addLoad"}
    BY <1>0, <1>f DEF ClearedInv
  <1>s. ASSUME UNCHANGED <<system, opVars>> PROVE Goal
    BY <1>a, <1>f, <1>s DEF opVars
  <1>w. ASSUME NEW w \in Workers, Preloading(w) PROVE Goal
    BY <1>s, <1>w, BesideStep
  <1>c. ASSUME NEW e \in Dirs, Compiling(e) PROVE Goal
    BY <1>s, <1>c, BesideStep
  <1>u. CASE UNCHANGED vars
    BY <1>s, <1>u, BesideStep
  <1>d. CASE Die
    BY <1>d DEF Die, ClearPcs
  <1> USE DEF ClearPcs, StartPcs, CleanPcs, AddPcs, dirVars, prefVars, opVars,
    taskVars
  <1>1. CASE StartProcess
    BY <1>1, <1>a, <1>b, Listed DEF StartProcess, List, Other
  <1>2. CASE StandbyCleared
    BY <1>2, <1>a, <1>f DEF StandbyCleared
  <1>3. CASE CheckDue
    BY <1>3, <1>a, <1>b, Listed DEF CheckDue, CallClean, List
  <1>4. CASE CheckSystem
    BY <1>4, <1>a, <1>b, Listed DEF CheckSystem, List, Updated
  <1>5. CASE OdexCleared
    BY <1>5, <1>a, <1>f DEF OdexCleared
  <1>6. CASE DeleteNext
    <2>1. PICK f \in left : Delete(where, f) /\ left' = left \ {f}
      BY <1>6 DEF DeleteNext
    <2>2. where = d /\ system' = system /\ pc' = pc
      BY <1>6 DEF DeleteNext
    <2>3. f # OdexFile
      <3>1. ASSUME f = OdexFile PROVE odex'[d] = NoOdex
        BY <2>1, <2>2, <3>1, OdexTypes DEF Delete
      <3> QED BY <3>1 DEF Old
    <2> QED BY <1>6, <1>a, <1>f, <2>1, <2>2, <2>3 DEF DeleteNext
  <1>7. CASE CleanListed
    BY <1>7, <1>a, <1>f DEF CleanListed
  <1>8. CASE CleanPrefs
    <2>1. back \in {"checkSystem", "load", "idle"}
      BY DEF TypeInv, TypeOK
    <2> QED BY <1>8, <2>1 DEF CleanPrefs
  <1>9. CASE AddCleared
    BY <1>9, <1>a, <1>f DEF AddCleared
  <1>10. CASE AddCopy
    BY <1>10, <1>a, <1>f DEF AddCopy
  <1>11. CASE AddCommit
    BY <1>11, <1>a, <1>f DEF AddCommit
  <1>12. CASE FailAdd
    BY <1>12 DEF FailAdd, Return
  <1>13. CASE LoadNone
    BY <1>13 DEF LoadNone, Return
  <1>14. CASE Inject
    BY <1>14 DEF Inject, Return
  <1>15. CASE PostPreload
    BY <1>15 DEF PostPreload, Return
  <1>16. CASE CleanPatches
    BY <1>16, <1>a, <1>b, Listed DEF CleanPatches, CallClean, List
  <1>17. ASSUME NEW p \in Patches, AddPatch(p) PROVE Goal
    BY <1>17, <1>a, <1>b, Listed DEF AddPatch, List
  <1>18. CASE BecomeDue
    BY <1>18, <1>s DEF BecomeDue
  <1>19. CASE UpdateSystem
    BY <1>19 DEF UpdateSystem
  <1> QED BY Steps, <1>w, <1>c, <1>d, <1>u, <1>1, <1>2, <1>3, <1>4, <1>5,
    <1>6, <1>7, <1>8, <1>9, <1>10, <1>11, <1>12, <1>13, <1>14, <1>15, <1>16,
    <1>17, <1>18, <1>19 DEF Operating, Starting, Storing, Calling, Changing

\* The check of the system lets no old odex of a stamped patch through.
LEMMA CheckedNext ==
    ASSUME TypeInv, PlaceInv, SystemInv, [Next]_vars
    PROVE  CheckedInv'
  <1>0. StampInv /\ ClearedInv /\ CheckedInv
    BY DEF SystemInv
  <1> SUFFICES ASSUME NEW d \in Dirs, cur' = d, odex'[d] # NoOdex
               PROVE  /\ \/ pc' \in StartPcs
                         \/ pc' \in CleanPcs /\ back' # "idle"
                         => odex'[d].sys >= stamp'
                      /\ pc' \in {"checkDue", "load"} /\ Old(d)' =>
                            stamp' = NoStamp
    BY DEF CheckedInv, Old
  <1> DEFINE Start == pc \in StartPcs \/ (pc \in CleanPcs /\ back # "idle")
             Goal == /\ Start' => odex'[d].sys >= stamp'
                     /\ pc' \in {"checkDue", "load"} /\ Old(d)' =>
                           stamp' = NoStamp
  <1> SUFFICES Goal
    OBVIOUS
  <1>a. system' = system => (Old(d)' => Old(d))
    BY OldStep
  <1>b. cur = d /\ Start /\ odex[d] # NoOdex => odex[d].sys >= stamp
    BY <1>0 DEF CheckedInv
  <1>c. cur = d /\ pc \in {"checkDue", "load"} /\ Old(d) => stamp = NoStamp
    BY <1>0 DEF CheckedInv
  <1>n. ASSUME ~Start' PROVE Goal
    BY <1>n DEF StartPcs
  <1>s. ASSUME cur' = cur, stamp' = stamp, system' = system, Start' => Start,
               pc' \in {"checkDue", "load"} => pc \in {"checkDue", "load"}
        PROVE  Goal
    <2>1. Start' => odex'[d].sys >= stamp'
      BY <1>0, <1>b, <1>s, OdexTypes, OdexStep DEF StampInv
    <2> QED BY <1>a, <1>c, <1>s, <2>1
  <1>w. ASSUME NEW w \in Workers, Preloading(w) PROVE Goal
    <2>1. ~Start' /\ ~Start
      BY <1>w, AloneStep, BesideStep DEF Alone, opVars
    <2> QED BY <1>n, <2>1
  <1>e. ASSUME NEW e \in Dirs, Compiling(e) PROVE Goal
    BY <1>s, <1>e, BesideStep DEF opVars
  <1>u. CASE UNCHANGED vars
    BY <1>s, <1>u, BesideStep DEF opVars
  <1>d. CASE Die
    BY <1>d, <1>n DEF Die, StartPcs, CleanPcs
  <1> HIDE DEF Goal
  <1> USE DEF ClearPcs, StartPcs, CleanPcs, AddPcs, dirVars, prefVars, opVars,
    taskVars
  <1>1. CASE StartProcess
    <2>1. /\ odex' = odex /\ next = d /\ stamp' = stamp
          /\ pc' = "clearStandby"
      BY <1>1 DEF StartProcess, List
    <2> QED BY <1>0, <2>1 DEF Goal, StampInv
  <1>2. CASE StandbyCleared
    BY <1>2, <1>s DEF StandbyCleared
  <1>3. CASE CheckDue
    BY <1>3, <1>s DEF CheckDue, CallClean, List
  <1>4. CASE CheckSystem
    <2>1. /\ odex' = odex /\ cur = d /\ stamp' = stamp /\ system' = system
          /\ Start /\ pc' \in {"clearOdex", "checkDue"}
      BY <1>4 DEF CheckSystem, List
    <2>2. CASE stamp \in {NoStamp, system}
      <3>1. ~Old(d) \/ stamp = NoStamp
        BY <1>0, <1>b, <2>1, <2>2, OdexTypes DEF StampInv, Old
      <3> QED BY <1>a, <1>b, <2>1, <3>1 DEF Goal
    <2>3. CASE Updated
      <3>1. pc' = "clearOdex"
        BY <1>4, <2>3 DEF CheckSystem, List
      <3> QED BY <1>b, <2>1, <3>1 DEF Goal
    <2> QED BY <2>2, <2>3 DEF Updated
  <1>5. CASE OdexCleared
    <2>1. /\ odex' = odex /\ cur = d /\ stamp' = stamp /\ system' = system
          /\ Start /\ pc = "clearOdex" /\ left = {}
      BY <1>5 DEF OdexCleared
    <2>2. ~Old(d)
      BY <1>0, <2>1 DEF PlaceInv, ClearedInv
    <2> QED BY <1>a, <1>b, <2>1, <2>2 DEF Goal
  <1>6. CASE DeleteNext
    <2>1. UNCHANGED <<prefVars, system, pc, back, cur>>
      BY <1>6 DEF DeleteNext
    <2> QED BY <1>s, <2>1
  <1>7. CASE CleanListed
    BY <1>7, <1>s DEF CleanListed
  <1>8. CASE CleanPrefs
    <2>1. stamp' = NoStamp
      BY <1>8 DEF CleanPrefs
    <2> QED BY <2>1, OdexTypes DEF Goal
  <1>9. CASE AddCleared
    BY <1>9, <1>n DEF AddCleared
  <1>10. CASE AddCopy
    BY <1>10, <1>n DEF AddCopy
  <1>11. CASE AddCommit
    BY <1>11, <1>n DEF AddCommit
  <1>12. CASE FailAdd
    BY <1>12, <1>n DEF FailAdd, Return
  <1>13. CASE LoadNone
    BY <1>13, <1>n DEF LoadNone, Return
  <1>14. CASE Inject
    BY <1>14, <1>n DEF Inject, Return
  <1>15. CASE PostPreload
    BY <1>15, <1>n DEF PostPreload, Return
  <1>16. CASE CleanPatches
    BY <1>16, <1>n DEF CleanPatches, CallClean, List
  <1>17. ASSUME NEW p \in Patches, AddPatch(p) PROVE Goal
    BY <1>17, <1>n DEF AddPatch, List
  <1>18. CASE BecomeDue
    BY <1>18, <1>s DEF BecomeDue
  <1>19. CASE UpdateSystem
    BY <1>19, <1>n DEF UpdateSystem
  <1> QED BY Steps, <1>w, <1>e, <1>d, <1>u, <1>1, <1>2, <1>3, <1>4, <1>5,
    <1>6, <1>7, <1>8, <1>9, <1>10, <1>11, <1>12, <1>13, <1>14, <1>15, <1>16,
    <1>17, <1>18, <1>19 DEF Operating, Starting, Storing, Calling, Changing

\* Where a step of a process leads.
LEMMA UpStep ==
    ASSUME TypeInv, [Next]_vars
    PROVE  /\ pc = "down" => pc' \in {"down", "clearStandby"}
           /\ pc # "down" /\ pc' # "down" => cur' = cur /\ system' = system
           /\ pc = "clearStandby" =>
                 pc' \in {"down", "clearStandby"} \/ StandbyCleared
           /\ pc' = "addLoad" => (pc = "addLoad" /\ where' = where) \/ AddCommit
  <1>0. back \in {"checkSystem", "load", "idle"}
    BY DEF TypeInv, TypeOK
  <1> DEFINE Goal ==
        /\ pc = "down" => pc' \in {"down", "clearStandby"}
        /\ pc # "down" /\ pc' # "down" => cur' = cur /\ system' = system
        /\ pc = "clearStandby" =>
              pc' \in {"down", "clearStandby"} \/ StandbyCleared
        /\ pc' = "addLoad" => (pc = "addLoad" /\ where' = where) \/ AddCommit
  <1>w. ASSUME NEW w \in Workers, Preloading(w) PROVE Goal
    BY <1>w, BesideStep DEF opVars
  <1>c. ASSUME NEW e \in Dirs, Compiling(e) PROVE Goal
    BY <1>c, BesideStep DEF opVars
  <1>u. CASE UNCHANGED vars
    BY <1>u, BesideStep DEF opVars
  <1>d. CASE Die
    BY <1>d DEF Die
  <1> USE <1>0 DEF opVars
  <1>1. CASE StartProcess
    BY <1>1 DEF StartProcess, List
  <1>2. CASE StandbyCleared
    BY <1>2 DEF StandbyCleared
  <1>3. CASE CheckDue
    BY <1>3 DEF CheckDue, CallClean, List
  <1>4. CASE CheckSystem
    BY <1>4 DEF CheckSystem, List
  <1>5. CASE OdexCleared
    BY <1>5 DEF OdexCleared
  <1>6. CASE DeleteNext
    BY <1>6 DEF DeleteNext
  <1>7. CASE CleanListed
    BY <1>7 DEF CleanListed
  <1>8. CASE CleanPrefs
    BY <1>8 DEF CleanPrefs
  <1>9. CASE AddCleared
    BY <1>9 DEF AddCleared
  <1>10. CASE AddCopy
    BY <1>10 DEF AddCopy
  <1>11. CASE AddCommit
    BY <1>11 DEF AddCommit
  <1>12. CASE FailAdd
    BY <1>12 DEF FailAdd, Return
  <1>13. CASE LoadNone
    BY <1>13 DEF LoadNone, Loading, Return
  <1>14. CASE Inject
    BY <1>14 DEF Inject, Loading, Return
  <1>15. CASE PostPreload
    BY <1>15 DEF PostPreload, Loading, Return
  <1>16. CASE CleanPatches
    BY <1>16 DEF CleanPatches, CallClean, List
  <1>17. ASSUME NEW p \in Patches, AddPatch(p) PROVE Goal
    BY <1>17 DEF AddPatch, List
  <1>18. CASE BecomeDue
    BY <1>18 DEF BecomeDue
  <1>19. CASE UpdateSystem
    BY <1>19 DEF UpdateSystem
  <1> QED BY Steps, <1>w, <1>c, <1>d, <1>u, <1>1, <1>2, <1>3, <1>4, <1>5,
    <1>6, <1>7, <1>8, <1>9, <1>10, <1>11, <1>12, <1>13, <1>14, <1>15, <1>16,
    <1>17, <1>18, <1>19 DEF Operating, Starting, Storing, Calling, Changing

\* In a process only the start, a clean and an install leave doubts about an
\* odex, and a preload that will stamp the system finds none left.
LEMMA FreshNext ==
    ASSUME TypeInv, PlaceInv, SystemInv, [Next]_vars
    PROVE  FreshInv'
  <1>0. ClearedInv /\ FreshInv
    BY DEF SystemInv
  <1>1. CASE pc = "down" \/ pc' = "down"
    <2>1. pc' \in {"down", "clearStandby"}
      BY <1>1, UpStep
    <2>2. queue' = <<>> /\ \A w \in Workers : job'[w].at = "none"
      BY <2>1, PlaceNext DEF PlaceInv, Alone, StartPcs
    <2>3. \A d \in Dirs : ~Posted(d)'
      BY <2>2, EmptySeq DEF Posted, PreloadIn
    <2> QED BY <2>1, <2>3 DEF FreshInv
  <1> SUFFICES ASSUME pc # "down", pc' # "down" PROVE FreshInv'
    BY <1>1
  <1>2. cur' = cur /\ system' = system
    BY UpStep
  <1>3. \A d \in Dirs : Old(d)' => Old(d)
    BY <1>2, OldStep
  <1> SUFFICES ASSUME NEW d \in Dirs
               PROVE  /\ pc' \notin {"down", "clearStandby"} /\ d # cur' =>
                            ~Old(d)'
                      /\ Posted(d)' => ~Old(d)'
                      /\ /\ d # cur'
                         /\ Posted(d)' \/ (pc' = "addLoad" /\ where' = d)
                         => next' = d \/ \A e \in Dirs \ {d} : ~Old(e)'
    BY DEF FreshInv
  <1>4. ASSUME pc' # "clearStandby", d # cur PROVE ~Old(d)'
    <2>1. CASE pc # "clearStandby"
      BY <1>0, <1>3, <1>4, <2>1 DEF FreshInv
    <2>2. CASE pc = "clearStandby"
      <3>1. pc = "clearStandby" /\ left = {}
        BY <1>4, <2>2, UpStep DEF StandbyCleared
      <3>2. where = d
        BY <1>4, <3>1, OdexTypes DEF PlaceInv
      <3> QED BY <1>0, <1>3, <3>1, <3>2 DEF ClearedInv, ClearPcs
    <2> QED BY <2>1, <2>2
  <1>5. ASSUME Posted(d)' PROVE ~Old(d)'
    <2>1. CASE Posted(d)
      BY <1>0, <1>3, <2>1 DEF FreshInv
    <2>2. CASE PostPreload /\ where = d
      <3>1. odex'[d] = NoOdex
        BY <2>2, OdexTypes DEF PostPreload
      <3> QED BY <3>1 DEF Old
    <2> QED BY <1>5, <2>1, <2>2, PostedStep
  <1>6. ASSUME d # cur, Posted(d)' \/ (pc' = "addLoad" /\ where' = d)
        PROVE  next' = d \/ \A e \in Dirs \ {d} : ~Old(e)'
    <2>1. CASE AddCommit /\ where = d
      BY <1>6, <2>1 DEF AddCommit
    <2>2. CASE Posted(d) \/ (pc = "addLoad" /\ where = d)
      <3>1. CASE \A e \in Dirs \ {d} : ~Old(e)
        BY <1>3, <3>1
      <3>2. CASE next = d
        <4>1. CASE CleanPrefs
          <5>1. where = cur /\ pc = "cleanPrefs"
            BY <4>1 DEF CleanPrefs, PlaceInv, CleanPcs
          <5>2. \A e \in Dirs \ {d} : e = where
            BY <1>6, <5>1, OdexTypes
          <5> QED BY <1>0, <1>3, <5>1, <5>2 DEF ClearedInv
        <4>2. CASE AddCommit
          BY <1>6, <3>2, <4>2, OdexTypes DEF AddCommit
        <4> QED BY <3>2, <4>1, <4>2, PrefStep DEF Stamp
      <3> QED BY <1>0, <1>6, <2>2, <3>1, <3>2 DEF FreshInv
    <2>3. \/ AddCommit /\ where = d
          \/ Posted(d) \/ (pc = "addLoad" /\ where = d)
      <3>1. CASE Posted(d)'
        <4>1. ASSUME PostPreload, where = d PROVE pc = "addLoad"
          BY <1>6, <4>1 DEF PostPreload, Loading, PlaceInv
        <4> QED BY <3>1, <4>1, PostedStep
      <3>2. CASE pc' = "addLoad" /\ where' = d
        BY <3>2, UpStep DEF AddCommit
      <3> QED BY <1>6, <3>1, <3>2
    <2> QED BY <2>1, <2>2, <2>3
  <1> QED BY <1>2, <1>4, <1>5, <1>6

\* The invariant in the first state.
LEMMA SystemInit == Init => PlaceInv /\ SystemInv
  <1> SUFFICES ASSUME Init PROVE PlaceInv /\ SystemInv
    OBVIOUS
  <1>0. queue = <<>> /\ \A w \in Workers : job[w].at = "none"
    BY DEF Init, NoJob
  <1>1. \A d \in Dirs : odex[d] = NoOdex
    BY DEF Init
  <1>2. \A d \in Dirs : ~Posted(d)
    BY <1>0, EmptySeq DEF Posted, PreloadIn
  <1>3. next \in Dirs /\ system = 0 /\ stamp = -1 /\ NoOdex.sys = 0
    BY Records DEF Init, NoStamp, Dirs
  <1>4. PlaceInv
    BY <1>0 DEF Init, PlaceInv, CleanPcs
  <1>5. StampInv
    BY <1>1, <1>3 DEF StampInv
  <1>6. ClearedInv /\ CheckedInv
    BY <1>1 DEF Init, ClearedInv, CheckedInv, Old
  <1>7. FreshInv
    BY <1>1, <1>2 DEF Init, FreshInv, Old
  <1> QED BY <1>4, <1>5, <1>6, <1>7 DEF SystemInv

SysInv == TypeInv /\ PlaceInv /\ SystemInv

\* It holds in every state.
LEMMA SystemAlways == Spec => []SysInv
  <1>1. SysInv /\ [Next]_vars => SysInv'
    BY TypeNext, PlaceNext, StampNext, ClearedNext, CheckedNext, FreshNext
    DEF SysInv, SystemInv
  <1> QED BY TypeInit, SystemInit, <1>1, PTL DEF Spec, SysInv

\* Once a preload has recorded its system, no odex of an older system is
\* injected, whatever the constants are, with any number of preloads at once
\* and a death at any step.
THEOREM NoOldOdexSafe == Spec => NoOdexOfOldSystem
  <1>1. ASSUME SysInv, Injects
        PROVE  odex[where].sys = system \/ stamp = NoStamp
    <2>1. pc \in {"load", "addLoad"} /\ odex[where] # NoOdex
      BY <1>1 DEF Injects, Inject, Loading
    <2>2. PICK d \in Dirs : d = where
      BY <1>1 DEF SysInv, TypeInv, TypeOK
    <2>3. ~Old(d) \/ stamp = NoStamp
      <3>1. CASE pc = "load"
        BY <1>1, <2>2, <3>1 DEF SysInv, SystemInv, PlaceInv, CheckedInv
      <3>2. CASE pc = "addLoad"
        BY <1>1, <2>2, <3>2 DEF SysInv, SystemInv, ClearedInv
      <3> QED BY <2>1, <3>1, <3>2
    <2> QED BY <2>1, <2>2, <2>3 DEF Old
  <1>2. SysInv => [Injects => odex[where].sys = system \/ stamp = NoStamp]_vars
    BY <1>1
  <1> QED BY <1>2, SystemAlways, PTL DEF NoOdexOfOldSystem

(***************************************************************************)
(* The files of a directory.                                               *)
(***************************************************************************)

\* What the proofs about files use of the types.
LEMMA FileTypes ==
    ASSUME TypeInv
    PROVE  /\ jar \in [Dirs -> Patches \cup {NoPatch}]
           /\ dex \in [Dirs -> SUBSET Dexes]
           /\ merged \in [Dirs -> Merged] /\ odex \in [Dirs -> Odex]
           /\ mixed \in [Dirs -> BOOLEAN]
           /\ where \in Dirs /\ cur \in Dirs /\ TargetDir \in Dirs
           /\ job \in [Workers -> Jobs]
           /\ \A w \in Workers : /\ job[w] \in Jobs /\ job[w].dir \in Dirs
                                 /\ job[w].done \subseteq Dexes
                                 /\ job[w].out \in Merged
                                 /\ job[w].out.upto \in Dexes
           /\ back \in {"checkSystem", "load", "idle"}
           /\ BaseDexes \in Nat /\ Dexes = 0..BaseDexes
  <1>1. \A w \in Workers : /\ job[w] \in Jobs /\ job[w].dir \in Dirs
                           /\ job[w].done \subseteq Dexes
                           /\ job[w].out \in Merged
    BY DEF TypeInv, TypeOK, Jobs
  <1> QED BY <1>1, Records, Constants DEF TypeInv, TypeOK, Dexes, TargetDir

\* `mixed` is taken back when the directory is empty and no preload is in it.
LEMMA MixedStep ==
    ASSUME TypeInv, [Next]_vars, NEW d \in Dirs, ~mixed'[d]
    PROVE  \/ ~mixed[d]
           \/ /\ FilesIn(d) = {} /\ \A w \in Workers : ~PreloadIn(w, d)
              /\ UNCHANGED <<dirVars, job>>
  <1> DEFINE Reset == /\ FilesIn(d) = {}
                      /\ \A w \in Workers : ~PreloadIn(w, d)
                      /\ UNCHANGED <<dirVars, job>>
  <1> SUFFICES ASSUME mixed[d] PROVE Reset
    OBVIOUS
  <1>0. mixed \in [Dirs -> BOOLEAN] /\ where \in Dirs
    BY FileTypes
  <1>s. ASSUME mixed' = mixed PROVE FALSE
    BY <1>s
  <1>m. ASSUME NEW f, Enter(f) PROVE FALSE
    BY <1>0, <1>m DEF Enter
  <1>r. ASSUME Emptied(where), UNCHANGED <<dirVars, job>> PROVE Reset
    <2>1. where = d
      BY <1>0, <1>r DEF Emptied
    <2> QED BY <1>0, <1>r, <2>1 DEF Emptied
  <1>w. ASSUME NEW w \in Workers, Preloading(w) PROVE FALSE
    BY <1>w, <1>s, <1>m, PreloadingStep DEF TakeTask
  <1>c. ASSUME NEW e \in Dirs, Compiling(e) PROVE FALSE
    BY <1>c, <1>s, CompilerStep
  <1>d. CASE Die
    BY <1>d, <1>s, DeathStep
  <1>u. CASE UNCHANGED vars
    BY <1>u, <1>s DEF vars
  <1> HIDE DEF Reset
  <1> USE DEF dirVars, prefVars, opVars, taskVars
  <1>1. CASE StartProcess
    BY <1>1, <1>s DEF StartProcess
  <1>2. CASE StandbyCleared
    BY <1>2, <1>r DEF StandbyCleared
  <1>3. CASE CheckDue
    BY <1>3, <1>s, <1>m DEF CheckDue, CallClean
  <1>4. CASE CheckSystem
    BY <1>4, <1>s DEF CheckSystem
  <1>5. CASE OdexCleared
    BY <1>5, <1>s DEF OdexCleared
  <1>6. CASE DeleteNext
    BY <1>6, <1>s DEF DeleteNext
  <1>7. CASE CleanListed
    BY <1>7, <1>r DEF CleanListed
  <1>8. CASE CleanPrefs
    BY <1>8, <1>s DEF CleanPrefs
  <1>9. CASE AddCleared
    BY <1>9, <1>r DEF AddCleared
  <1>10. CASE AddCopy
    BY <1>10, <1>s DEF AddCopy
  <1>11. CASE AddCommit
    BY <1>11, <1>s DEF AddCommit
  <1>12. CASE FailAdd
    BY <1>12, <1>s DEF FailAdd
  <1>13. CASE LoadNone
    BY <1>13, <1>s DEF LoadNone
  <1>14. CASE Inject
    BY <1>14, <1>s DEF Inject
  <1>15. CASE PostPreload
    BY <1>15, <1>s DEF PostPreload
  <1>16. CASE CleanPatches
    BY <1>16, <1>m DEF CleanPatches, CallClean
  <1>17. ASSUME NEW p \in Patches, AddPatch(p) PROVE Reset
    BY <1>17, <1>m DEF AddPatch
  <1>18. CASE BecomeDue
    BY <1>18, <1>s DEF BecomeDue
  <1>19. CASE UpdateSystem
    BY <1>19, <1>s DEF UpdateSystem
  <1> QED BY Steps, <1>w, <1>c, <1>d, <1>u, <1>1, <1>2, <1>3, <1>4, <1>5,
    <1>6, <1>7, <1>8, <1>9, <1>10, <1>11, <1>12, <1>13, <1>14, <1>15, <1>16,
    <1>17, <1>18, <1>19 DEF Operating, Starting, Storing, Calling, Changing

\* One begins to empty a directory by entering it.
LEMMA EmptyingStep ==
    ASSUME TypeInv, Operating, NEW d \in Dirs, Emptying(d)'
    PROVE  Emptying(d) \/ (~mixed'[d] => \A w \in Workers : ~PreloadIn(w, d))
  <1> DEFINE Goal == Emptying(d) \/ (~mixed'[d] =>
                                        \A w \in Workers : ~PreloadIn(w, d))
  <1> SUFFICES Goal
    OBVIOUS
  <1>0. mixed \in [Dirs -> BOOLEAN] /\ back \in {"checkSystem", "load", "idle"}
    BY FileTypes
  <1>m. ASSUME Enter(d) PROVE Goal
    BY <1>0, <1>m DEF Enter, Busy
  <1>n. ASSUME pc' \notin {"clean", "addClear", "addCopy"} PROVE FALSE
    BY <1>n DEF Emptying
  <1>s. ASSUME pc \in {"clean", "addClear", "addCopy"}, where' = where
        PROVE  Goal
    BY <1>s DEF Emptying
  <1>w. where' = d
    BY DEF Emptying
  <1> HIDE DEF Goal
  <1> USE <1>0 DEF dirVars, prefVars, opVars, taskVars, Loading, Return
  <1>1. CASE StartProcess
    BY <1>1, <1>n DEF StartProcess, List
  <1>2. CASE StandbyCleared
    BY <1>2, <1>n DEF StandbyCleared
  <1>3. CASE CheckDue
    BY <1>3, <1>n, <1>m, <1>w DEF CheckDue, CallClean, List
  <1>4. CASE CheckSystem
    BY <1>4, <1>n DEF CheckSystem, List
  <1>5. CASE OdexCleared
    BY <1>5, <1>n DEF OdexCleared
  <1>6. CASE DeleteNext
    BY <1>6, <1>s, <1>n DEF DeleteNext
  <1>7. CASE CleanListed
    BY <1>7, <1>n DEF CleanListed
  <1>8. CASE CleanPrefs
    BY <1>8, <1>n DEF CleanPrefs
  <1>9. CASE AddCleared
    BY <1>9, <1>s DEF AddCleared
  <1>10. CASE AddCopy
    BY <1>10, <1>n DEF AddCopy
  <1>11. CASE AddCommit
    BY <1>11, <1>n DEF AddCommit
  <1>12. CASE FailAdd
    BY <1>12, <1>n DEF FailAdd
  <1>13. CASE LoadNone
    BY <1>13, <1>n DEF LoadNone
  <1>14. CASE Inject
    BY <1>14, <1>n DEF Inject
  <1>15. CASE PostPreload
    BY <1>15, <1>n DEF PostPreload
  <1>16. CASE CleanPatches
    BY <1>16, <1>m, <1>w DEF CleanPatches, CallClean, List
  <1>17. ASSUME NEW p \in Patches, AddPatch(p) PROVE Goal
    BY <1>17, <1>m, <1>w DEF AddPatch, List
  <1>18. CASE BecomeDue
    BY <1>18, <1>n DEF BecomeDue
  <1>19. CASE UpdateSystem
    BY <1>19, <1>n DEF UpdateSystem
  <1> QED BY <1>1, <1>2, <1>3, <1>4, <1>5, <1>6, <1>7, <1>8, <1>9, <1>10,
    <1>11, <1>12, <1>13, <1>14, <1>15, <1>16, <1>17, <1>18, <1>19
    DEF Operating, Starting, Storing, Calling, Changing

\* Where `mixed` is FALSE each preload and each operation works alone.
LEMMA SoleNext ==
    ASSUME TypeInv, SoleInv, [Next]_vars
    PROVE  SoleInv'
  <1> SUFFICES ASSUME NEW d \in Dirs, ~mixed'[d]
               PROVE  /\ \A v, w \in Workers :
                            PreloadIn(v, d)' /\ PreloadIn(w, d)' => v = w
                      /\ Emptying(d)' => \A w \in Workers : ~PreloadIn(w, d)'
    BY DEF SoleInv
  <1> DEFINE Goal == /\ \A v, w \in Workers :
                            PreloadIn(v, d)' /\ PreloadIn(w, d)' => v = w
                     /\ Emptying(d)' => \A w \in Workers : ~PreloadIn(w, d)'
  <1>0. /\ \A v, w \in Workers : PreloadIn(v, d) /\ PreloadIn(w, d) => v = w
        /\ Emptying(d) => \/ \A w \in Workers : ~PreloadIn(w, d)
                          \/ mixed[d]
    BY MixedStep DEF SoleInv
  <1>s. ASSUME job' = job,
               Emptying(d)' =>
                  Emptying(d) \/ \A w \in Workers : ~PreloadIn(w, d)
        PROVE  Goal
    BY <1>0, <1>s, MixedStep DEF PreloadIn
  <1>1. CASE Operating
    BY <1>1, <1>s, OperatingStep, EmptyingStep
  <1>2. ASSUME NEW w \in Workers, Preloading(w) PROVE Goal
    <2>0. /\ UNCHANGED opVars
          /\ \A v \in Workers : v # w => job'[v] = job[v]
      BY <1>2, PreloadingStep
    <2>1. CASE TakeTask(w)
      <3>1. CASE Head(queue) = d
        <4>1. \A v \in Workers : ~PreloadIn(v, d)
          BY <2>1, <3>1, FileTypes DEF TakeTask, Enter, Busy
        <4>2. ~Emptying(d)
          BY <2>1, <3>1, FileTypes DEF TakeTask, Enter, Busy
        <4> QED BY <2>0, <4>1, <4>2 DEF PreloadIn, Emptying, opVars
      <3>2. CASE Head(queue) # d
        <4>1. ~PreloadIn(w, d)'
          BY <2>1, <3>2, FileTypes DEF TakeTask, PreloadIn, Jobs
        <4>2. mixed'[d] = mixed[d]
          BY <2>1, <3>2, FileTypes DEF TakeTask, Enter
        <4> QED BY <1>0, <2>0, <4>1, <4>2 DEF PreloadIn, Emptying, opVars
      <3> QED BY <3>1, <3>2
    <2>2. CASE ~TakeTask(w)
      <3>1. /\ job[w].at # "none" /\ mixed' = mixed
            /\ job'[w].at = "none" \/ job'[w].dir = job[w].dir
        BY <1>2, <2>2, PreloadingStep
      <3> QED BY <1>0, <2>0, <3>1 DEF PreloadIn, Emptying, opVars
    <2> QED BY <2>1, <2>2
  <1>3. ASSUME NEW e \in Dirs, Compiling(e) PROVE Goal
    BY <1>3, <1>s, CompilerStep DEF Emptying, opVars, taskVars
  <1>4. CASE Die
    BY <1>4, DeathStep DEF PreloadIn
  <1>5. CASE UNCHANGED vars
    BY <1>5, <1>s DEF vars, opVars, taskVars, Emptying
  <1> QED BY Steps, <1>1, <1>2, <1>3, <1>4, <1>5

\* An empty directory has none of the files.
LEMMA NoFiles ==
    ASSUME NEW d \in Dirs, FilesIn(d) = {}
    PROVE  jar[d] = NoPatch /\ merged[d] = NoMerged /\ odex[d] = NoOdex
BY DEF FilesIn

\* clearDir empties the directory of an install.
LEMMA EmptiedNext ==
    ASSUME TypeInv, SoleInv, EmptiedInv, [Next]_vars
    PROVE  EmptiedInv'
  <1> SUFFICES ASSUME NEW d \in Dirs, where' = d, ~mixed'[d]
               PROVE  /\ pc' = "addClear" =>
                            /\ merged'[d] # NoMerged => MergedFile \in left'
                            /\ odex'[d] # NoOdex => OdexFile \in left'
                      /\ pc' = "addCopy" =>
                            merged'[d] = NoMerged /\ odex'[d] = NoOdex
    BY DEF EmptiedInv
  <1> DEFINE Goal == /\ pc' = "addClear" =>
                           /\ merged'[d] # NoMerged => MergedFile \in left'
                           /\ odex'[d] # NoOdex => OdexFile \in left'
                     /\ pc' = "addCopy" =>
                           merged'[d] = NoMerged /\ odex'[d] = NoOdex
  <1>e. CASE mixed[d]
    BY <1>e, MixedStep, NoFiles DEF dirVars
  <1> SUFFICES ASSUME ~mixed[d] PROVE Goal
    BY <1>e
  <1>0. /\ merged \in [Dirs -> Merged] /\ odex \in [Dirs -> Odex]
        /\ where \in Dirs /\ back \in {"checkSystem", "load", "idle"}
    BY FileTypes
  <1>a. where = d =>
          /\ pc = "addClear" => /\ merged[d] # NoMerged => MergedFile \in left
                                /\ odex[d] # NoOdex => OdexFile \in left
          /\ pc = "addCopy" => merged[d] = NoMerged /\ odex[d] = NoOdex
    BY DEF EmptiedInv
  <1>l. /\ merged[d] # NoMerged => MergedFile \in FilesIn(d) \ {}
        /\ odex[d] # NoOdex => OdexFile \in FilesIn(d) \ {}
    BY DEF FilesIn
  <1>n. ASSUME pc' \notin {"addClear", "addCopy"} PROVE Goal
    BY <1>n
  <1>s. ASSUME UNCHANGED <<merged, pc, where, left>>,
               odex'[d] \in {odex[d], NoOdex} \/ odex[d] # NoOdex
        PROVE  Goal
    BY <1>a, <1>s
  <1>w. ASSUME NEW w \in Workers, Preloading(w) PROVE Goal
    <2>1. UNCHANGED opVars
      BY <1>w, PreloadingStep
    <2>2. CASE pc' \in {"addClear", "addCopy"}
      <3>1. Emptying(d) /\ ~PreloadIn(w, d)
        BY <2>1, <2>2 DEF Emptying, opVars, SoleInv
      <3>2. merged'[d] = merged[d] /\ odex'[d] = odex[d]
        BY <1>w, <3>1, PreloadingStep
      <3> QED BY <1>a, <2>1, <3>2 DEF opVars
    <2> QED BY <1>n, <2>2
  <1>c. ASSUME NEW e \in Dirs, Compiling(e) PROVE Goal
    BY <1>c, <1>s, CompilerStep DEF opVars
  <1>d. CASE Die
    BY <1>d, <1>n, DeathStep
  <1>u. CASE UNCHANGED vars
    BY <1>u, <1>s DEF vars, dirVars, opVars
  <1> USE DEF dirVars, prefVars, opVars, taskVars
  <1>6. CASE DeleteNext
    <2>1. PICK f \in left : Delete(where, f) /\ left' = left \ {f}
      BY <1>6 DEF DeleteNext
    <2>2. where = d /\ pc' = pc
      BY <1>6 DEF DeleteNext
    <2>3. MergedFile # OdexFile
      BY DEF MergedFile, OdexFile
    <2>4. /\ merged'[d] # NoMerged => merged[d] # NoMerged /\ f # MergedFile
          /\ odex'[d] # NoOdex => odex[d] # NoOdex /\ f # OdexFile
      BY <1>0, <2>1, <2>2, <2>3 DEF Delete
    <2>5. pc # "addCopy"
      BY <1>6 DEF DeleteNext
    <2> QED BY <1>a, <2>1, <2>2, <2>4, <2>5
  <1>17. ASSUME NEW p \in Patches, AddPatch(p) PROVE Goal
    <2>1. /\ pc' = "addClear" /\ left' = FilesIn(d) \ {}
          /\ merged' = merged /\ odex' = odex
      BY <1>17 DEF AddPatch, List
    <2> QED BY <1>l, <2>1
  <1>9. CASE AddCleared
    <2>1. /\ pc = "addClear" /\ left = {} /\ where = d
          /\ merged' = merged /\ odex' = odex /\ pc' = "addCopy"
      BY <1>9 DEF AddCleared
    <2> QED BY <1>a, <2>1
  <1>15. CASE PostPreload
    BY <1>15, <1>n DEF PostPreload, Return
  <1> HIDE DEF Goal
  <1>1. CASE StartProcess
    BY <1>1, <1>n DEF StartProcess, List
  <1>2. CASE StandbyCleared
    BY <1>2, <1>n DEF StandbyCleared
  <1>3. CASE CheckDue
    BY <1>3, <1>n DEF CheckDue, CallClean, List
  <1>4. CASE CheckSystem
    BY <1>4, <1>n DEF CheckSystem, List
  <1>5. CASE OdexCleared
    BY <1>5, <1>n DEF OdexCleared
  <1>7. CASE CleanListed
    BY <1>7, <1>n DEF CleanListed
  <1>8. CASE CleanPrefs
    BY <1>8, <1>0, <1>n DEF CleanPrefs
  <1>10. CASE AddCopy
    BY <1>10, <1>n DEF AddCopy
  <1>11. CASE AddCommit
    BY <1>11, <1>n DEF AddCommit
  <1>12. CASE FailAdd
    BY <1>12, <1>n DEF FailAdd, Return
  <1>13. CASE LoadNone
    BY <1>13, <1>n DEF LoadNone, Return
  <1>14. CASE Inject
    BY <1>14, <1>n DEF Inject, Return
  <1>16. CASE CleanPatches
    BY <1>16, <1>n DEF CleanPatches, CallClean, List
  <1>18. CASE BecomeDue
    BY <1>18, <1>s DEF BecomeDue
  <1>19. CASE UpdateSystem
    BY <1>19, <1>s DEF UpdateSystem
  <1> QED BY Steps, <1>w, <1>c, <1>d, <1>u, <1>1, <1>2, <1>3, <1>4, <1>5,
    <1>6, <1>7, <1>8, <1>9, <1>10, <1>11, <1>12, <1>13, <1>14, <1>15, <1>16,
    <1>17, <1>18, <1>19
    DEF Operating, Starting, Storing, Calling, Changing, Goal

\* Beside a preload that has its directory to itself the jar goes at most, and
\* the class files stay.
LEMMA BesidePreload ==
    ASSUME TypeInv, PlaceInv, SoleInv, [Next]_vars, NEW w \in Workers,
           NEW d \in Dirs, PreloadIn(w, d), ~mixed[d]
    PROVE  \/ Preloading(w)
           \/ /\ jar'[d] \in {jar[d], NoPatch} /\ dex'[d] = dex[d]
              /\ job'[w] = job[w] \/ job'[w].at = "none"
  <1>0. /\ jar \in [Dirs -> Patches \cup {NoPatch}]
        /\ dex \in [Dirs -> SUBSET Dexes] /\ where \in Dirs
    BY FileTypes
  <1>1. CASE Operating
    <2>1. ~Emptying(d) /\ ~Alone
      BY DEF SoleInv, PlaceInv, PreloadIn
    <2>2. ASSUME DeleteNext PROVE jar'[d] = jar[d] /\ dex'[d] = dex[d]
      <3>1. where # d
        BY <2>1, <2>2 DEF DeleteNext, Emptying, Alone, StartPcs
      <3> QED BY <1>0, <2>2, <3>1 DEF DeleteNext, Delete
    <2>3. ASSUME AddCopy PROVE jar'[d] = jar[d]
      <3>1. where # d
        BY <2>1, <2>3 DEF AddCopy, Emptying
      <3> QED BY <1>0, <2>3, <3>1 DEF AddCopy
    <2>4. ASSUME FailAdd PROVE jar'[d] \in {jar[d], NoPatch}
      BY <1>0, <2>4 DEF FailAdd
    <2> QED BY <1>1, <2>2, <2>3, <2>4, OperatingStep
  <1>2. ASSUME NEW v \in Workers, Preloading(v), v # w
        PROVE  jar' = jar /\ dex'[d] = dex[d] /\ job'[w] = job[w]
    <2>1. ~PreloadIn(v, d)
      BY <1>2 DEF SoleInv
    <2> QED BY <1>2, <2>1, PreloadingStep
  <1>3. ASSUME NEW e \in Dirs, Compiling(e)
        PROVE  jar' = jar /\ dex' = dex /\ job' = job
    BY <1>3, CompilerStep DEF taskVars
  <1>4. CASE Die \/ UNCHANGED vars
    BY <1>4, DeathStep DEF vars, dirVars, taskVars
  <1> QED BY Steps, <1>1, <1>2, <1>3, <1>4

\* A preload keeps what it has extracted.
LEMMA PreloadNext ==
    ASSUME TypeInv, PlaceInv, SoleInv, PreloadInv, [Next]_vars
    PROVE  PreloadInv'
  <1> SUFFICES ASSUME NEW w \in Workers, NEW d \in Dirs, PreloadIn(w, d)',
                      ~mixed'[d], job'[w].at \in {"extract", "merge"}
               PROVE  /\ jar'[d] \in {job'[w].src, NoPatch}
                      /\ job'[w].at = "extract" =>
                            job'[w].done \subseteq dex'[d]
                      /\ job'[w].at = "merge" =>
                            \A i \in Dexes :
                               i > job'[w].out.upto => i \in dex'[d]
    BY DEF PreloadInv
  <1> DEFINE Goal == /\ jar'[d] \in {job'[w].src, NoPatch}
                     /\ job'[w].at = "extract" =>
                           job'[w].done \subseteq dex'[d]
                     /\ job'[w].at = "merge" =>
                           \A i \in Dexes :
                              i > job'[w].out.upto => i \in dex'[d]
  <1>0. /\ jar \in [Dirs -> Patches \cup {NoPatch}]
        /\ dex \in [Dirs -> SUBSET Dexes]
        /\ job \in [Workers -> Jobs] /\ job[w] \in Jobs /\ job[w].dir \in Dirs
        /\ job[w].out \in Merged /\ job[w].out.upto \in Dexes
        /\ BaseDexes \in Nat /\ Dexes = 0..BaseDexes
    BY FileTypes
  <1>1. CASE Preloading(w)
    <2>1. /\ jar' = jar /\ job[w].dir = d /\ job[w].at # "none" /\ ~mixed[d]
          /\ \/ OpenJar(w) \/ MergePatch(w) \/ MergeBase(w)
             \/ \E i \in Dexes : Extract(w, i)
      BY <1>1, PreloadingStep DEF PreloadIn, TakeTask, OpenJar, MergePatch,
        MergeBase, Extract
    <2>2. /\ job[w].at \in {"extract", "merge"} =>
                jar[d] \in {job[w].src, NoPatch}
          /\ job[w].at = "extract" => job[w].done \subseteq dex[d]
          /\ job[w].at = "merge" =>
                \A i \in Dexes : i > job[w].out.upto => i \in dex[d]
      BY <2>1 DEF PreloadInv, PreloadIn
    <2>3. CASE OpenJar(w)
      <3>1. /\ job'[w].at = "extract" /\ job'[w].src = jar[d]
            /\ job'[w].done = job[w].done /\ job[w].at = "open"
        BY <1>0, <2>1, <2>3 DEF OpenJar, Jobs
      <3>2. job[w].done = {}
        BY <3>1 DEF TypeInv, SourceInv
      <3> QED BY <2>1, <3>1, <3>2
    <2>4. ASSUME NEW i \in Dexes, Extract(w, i) PROVE Goal
      <3>1. /\ job'[w].at = "extract" /\ job'[w].src = job[w].src
            /\ job'[w].done = job[w].done \cup {i} /\ dex'[d] = dex[d] \cup {i}
            /\ job[w].at = "extract"
        BY <1>0, <2>1, <2>4 DEF Extract, Jobs
      <3> QED BY <2>1, <2>2, <3>1
    <2>5. CASE MergePatch(w)
      <3>1. /\ job'[w].at = "merge" /\ job'[w].src = job[w].src
            /\ job'[w].out.upto = 0 /\ job[w].done = Dexes
            /\ dex'[d] = dex[d] \ {0} /\ job[w].at = "extract"
        BY <1>0, <2>1, <2>5 DEF MergePatch, Jobs
      <3> QED BY <1>0, <2>1, <2>2, <3>1
    <2>6. CASE MergeBase(w)
      <3>1. /\ job'[w].at = "merge" /\ job'[w].src = job[w].src
            /\ dex'[d] = dex[d] \ {job[w].out.upto + 1} /\ job[w].at = "merge"
        BY <1>0, <2>1, <2>6 DEF MergeBase, Jobs
      <3>2. job'[w].out.upto = job[w].out.upto + 1
        BY <1>0, <2>6 DEF MergeBase, Jobs, Merged, NoMerged
      <3> QED BY <1>0, <2>1, <2>2, <3>1, <3>2
    <2> QED BY <2>1, <2>3, <2>4, <2>5, <2>6
  <1>2. CASE ~Preloading(w)
    <2>1. job'[w] = job[w]
      <3>1. CASE Operating
        BY <3>1, OperatingStep
      <3>2. ASSUME NEW v \in Workers, Preloading(v) PROVE job'[w] = job[w]
        BY <1>2, <3>2, PreloadingStep
      <3>3. ASSUME NEW e \in Dirs, Compiling(e) PROVE job' = job
        BY <3>3, CompilerStep DEF taskVars
      <3>4. CASE Die
        BY <3>4, DeathStep
      <3>5. CASE UNCHANGED vars
        BY <3>5 DEF vars, taskVars
      <3> QED BY Steps, <3>1, <3>2, <3>3, <3>4, <3>5
    <2>2. PreloadIn(w, d) /\ ~mixed[d]
      BY <2>1, MixedStep DEF PreloadIn
    <2>3. jar'[d] \in {jar[d], NoPatch} /\ dex'[d] = dex[d]
      BY <1>2, <2>2, BesidePreload
    <2> QED BY <2>1, <2>2, <2>3 DEF PreloadInv
  <1> QED BY <1>1, <1>2

\* What lies beside a jar is made of it and the whole apk.
LEMMA MadeNext ==
    ASSUME TypeInv, FilesInv, [Next]_vars
    PROVE  MadeInv'
  <1>1. SoleInv /\ EmptiedInv /\ PreloadInv /\ MadeInv
    BY DEF FilesInv
  <1> SUFFICES ASSUME NEW d \in Dirs, jar'[d] # NoPatch, ~mixed'[d]
               PROVE  /\ merged'[d] # NoMerged => merged'[d] = Full(jar'[d])
                      /\ odex'[d] # NoOdex => odex'[d].of = Full(jar'[d])
    BY DEF MadeInv
  <1> DEFINE Goal == /\ merged'[d] # NoMerged => merged'[d] = Full(jar'[d])
                     /\ odex'[d] # NoOdex => odex'[d].of = Full(jar'[d])
  <1>0. /\ jar \in [Dirs -> Patches \cup {NoPatch}]
        /\ merged \in [Dirs -> Merged] /\ odex \in [Dirs -> Odex]
        /\ where \in Dirs
    BY FileTypes
  <1>2. ~mixed[d]
    BY MixedStep, NoFiles DEF dirVars
  <1>3. jar[d] # NoPatch =>
          /\ merged[d] # NoMerged => merged[d] = Full(jar[d])
          /\ odex[d] # NoOdex => odex[d].of = Full(jar[d])
    BY <1>1, <1>2 DEF MadeInv
  <1>s. ASSUME jar'[d] = jar[d], merged'[d] \in {merged[d], NoMerged},
               \/ odex'[d] = NoOdex
               \/ odex[d] # NoOdex /\ odex'[d].of = odex[d].of
        PROVE  Goal
    BY <1>3, <1>s
  <1>4. CASE Operating
    <2>1. CASE AddCopy /\ where = d
      BY <1>1, <1>2, <2>1 DEF AddCopy, EmptiedInv
    <2>2. CASE ~(AddCopy /\ where = d)
      <3>1. jar'[d] = jar[d]
        <4>1. ASSUME DeleteNext PROVE jar'[d] = jar[d]
          BY <1>0, <4>1 DEF DeleteNext, Delete
        <4>2. ASSUME AddCopy PROVE jar'[d] = jar[d]
          BY <1>0, <2>2, <4>2 DEF AddCopy
        <4>3. ASSUME FailAdd PROVE jar'[d] = jar[d]
          BY <1>0, <4>3 DEF FailAdd
        <4> QED BY <1>4, <4>1, <4>2, <4>3, OperatingStep
      <3>2. merged'[d] \in {merged[d], NoMerged}
        <4>1. ASSUME DeleteNext PROVE merged'[d] \in {merged[d], NoMerged}
          BY <1>0, <4>1 DEF DeleteNext, Delete
        <4> QED BY <1>4, <4>1, OperatingStep
      <3>3. odex'[d] \in {odex[d], NoOdex}
        <4>1. ASSUME DeleteNext PROVE odex'[d] \in {odex[d], NoOdex}
          BY <1>0, <4>1 DEF DeleteNext, Delete
        <4>2. ASSUME PostPreload PROVE odex'[d] \in {odex[d], NoOdex}
          BY <1>0, <4>2 DEF PostPreload
        <4> QED BY <1>4, <4>1, <4>2, OperatingStep
      <3> QED BY <1>s, <3>1, <3>2, <3>3
    <2> QED BY <2>1, <2>2
  <1>5. ASSUME NEW w \in Workers, Preloading(w) PROVE Goal
    <2>1. jar' = jar
      BY <1>5, PreloadingStep
    <2>2. ASSUME Rename(w), PreloadIn(w, d)
          PROVE  merged'[d] = Full(jar[d]) /\ odex' = odex
      <3>1. /\ merged'[d] = job[w].out /\ job[w].out.patch = job[w].src
            /\ job[w].out.upto + 1 \notin dex[d] /\ job[w].at = "merge"
            /\ odex' = odex
        BY <1>0, <2>2 DEF Rename, TypeInv, SourceInv, PreloadIn
      <3>2. /\ jar[d] = job[w].src
            /\ \A i \in Dexes : i > job[w].out.upto => i \in dex[d]
        BY <1>1, <1>2, <2>1, <2>2, <3>1 DEF PreloadInv
      <3>3. job[w].out.upto = BaseDexes
        BY <3>1, <3>2, FileTypes
      <3>4. job[w].out = [patch |-> job[w].out.patch, upto |-> job[w].out.upto]
        BY FileTypes DEF Merged, NoMerged
      <3> QED BY <3>1, <3>2, <3>3, <3>4 DEF Full
    <2>3. ASSUME StartCompile(w), PreloadIn(w, d), odex'[d] = NewOdex(d)
          PROVE  merged' = merged /\ odex'[d].of = Full(jar[d])
      <3>1. merged' = merged /\ merged[d] # NoMerged
        BY <2>3 DEF StartCompile, PreloadIn
      <3>2. odex'[d].of = merged[d]
        BY <2>3 DEF NewOdex
      <3> QED BY <1>3, <2>1, <3>1, <3>2
    <2>4. \/ merged'[d] = merged[d]
          \/ Rename(w) /\ PreloadIn(w, d)
      BY <1>5, PreloadingStep
    <2>5. \/ odex'[d] = odex[d]
          \/ StartCompile(w) /\ PreloadIn(w, d) /\ odex'[d] = NewOdex(d)
      BY <1>5, PreloadingStep
    <2> QED BY <1>3, <2>1, <2>2, <2>3, <2>4, <2>5
  <1>6. ASSUME NEW e \in Dirs, Compiling(e) PROVE Goal
    BY <1>6, <1>s, CompilerStep
  <1>7. CASE Die \/ UNCHANGED vars
    BY <1>7, <1>s, DeathStep DEF vars, dirVars
  <1> QED BY Steps, <1>4, <1>5, <1>6, <1>7

\* The invariant in the first state.
LEMMA FilesInit == Init => FilesInv
  <1> SUFFICES ASSUME Init PROVE FilesInv
    OBVIOUS
  <1>1. \A w \in Workers : job[w].at = "none"
    BY DEF Init, NoJob
  <1> QED BY <1>1 DEF Init, FilesInv, SoleInv, EmptiedInv, PreloadInv, MadeInv,
    PreloadIn

\* The merged file that a load injects is the patch of the jar with all classes
\* of the apk, and its odex was compiled from that file: whatever the constants
\* are, the process may die at any step, the compiler outlive it and any number
\* of threads preload, as long as no two were at work in this one directory
\* since it was last empty.
THEOREM InjectedSafe == Spec => InjectedIsWhole
  <1>1. SysInv /\ FilesInv /\ [Next]_vars => FilesInv'
    BY SoleNext, EmptiedNext, PreloadNext, MadeNext DEF SysInv, FilesInv
  <1>2. ASSUME SysInv, FilesInv, Injects, ~mixed[where]
        PROVE  /\ merged[where] = Full(jar[where])
               /\ odex[where].of = merged[where]
    <2>1. /\ jar[where] # NoPatch /\ odex[where] # NoOdex
          /\ merged[where] # NoMerged /\ where \in Dirs
      BY <1>2, FileTypes DEF Injects, Inject, SysInv
    <2> QED BY <1>2, <2>1 DEF FilesInv, MadeInv
  <1>3. SysInv /\ FilesInv =>
          [Injects /\ ~mixed[where] =>
              /\ merged[where] = Full(jar[where])
              /\ odex[where].of = merged[where]]_vars
    BY <1>2
  <1> QED BY FilesInit, SystemAlways, <1>1, <1>3, PTL DEF Spec, InjectedIsWhole
=============================================================================
