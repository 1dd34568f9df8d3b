------------------------------ MODULE ColdDex ------------------------------
(***************************************************************************)
(* Cold patches: ColdDexManager in the main process, on ART (SDK > 20, not *)
(* an enhanced app), with as much of the patch store as it meets.          *)
(*                                                                         *)
(* A cold patch is preloaded on an executor thread: its classes and those  *)
(* of the apk are extracted next to the jar, merged into sophix-merged.zip *)
(* and compiled to an odex file, whose md5 is then kept in a preference    *)
(* that is named after the file alone and so shared by the two patch       *)
(* directories.  A later load injects the merged file if the md5 of the    *)
(* odex is the recorded one, and starts a preload otherwise.               *)
(*                                                                         *)
(* The executor (class e.k, external) may have any number of threads, and  *)
(* patches are added on its threads or on others.  A load makes a          *)
(* ColdDexManager of its own, so its synchronized doOptPatch keeps no two  *)
(* preloads apart.  Every file that clearDir deletes is a step, and the    *)
(* process may die between any two.                                        *)
(***************************************************************************)
EXTENDS Integers, Sequences, FiniteSets

CONSTANTS
    Patches,        \* cold patches
    NoPatch,        \* none
    BaseDexes,      \* number of dex files in the apk
    Workers,        \* threads of the executor
    MaxAdds,        \* bound: addPatch calls in the life of one process
    MaxSystem       \* bound: system updates

ASSUME ColdAssumption ==
    /\ NoPatch \notin Patches
    /\ BaseDexes \in Nat \ {0}
    /\ MaxAdds \in Nat /\ MaxSystem \in Nat

VARIABLES
    \* on disk, per patch directory
    jar,        \* the patch in the jar
    dex,        \* which of classes.dex (0), classes1.dex, ... are there
    merged,     \* sophix-merged.zip
    odex,       \* its odex
    \* preferences
    next,       \* the directory that SP_SOPHIX_DIR_STATE makes current
    record,     \* sophix-merged.odex-md5
    stamp,      \* sophix_system_fingerprint
    due,        \* a start will clean: other app version, crashes or order
    system,     \* Build.FINGERPRINT
    \* the operation that holds the monitor of PatchManager
    pc, back,   \* where it is, and where a clean returns to
    cur,        \* the current directory of this process
    where,      \* the directory the operation works on
    cand,       \* the patch being added
    left,       \* files that clearDir has listed and not yet deleted
    adds,       \* addPatch calls so far
    injected,   \* the patch that the class loader of this process got
    \* the executor
    queue,      \* directories whose preload is waiting
    job,        \* what each of its threads is at
    \* observation only
    mixed       \* two have been at work at once in this directory, and it
                \* has not been empty since

dirVars  == <<jar, dex, merged, odex>>
prefVars == <<next, record, stamp, due>>
opVars   == <<pc, back, cur, where, cand, left, adds>>
taskVars == <<queue, job>>
vars == <<dirVars, prefVars, system, opVars, injected, taskVars, mixed>>

Dirs == {0, 1}
Other(d) == 1 - d
Dexes == 0..BaseDexes

\* The classes of a patch, followed by those of the first dex files of the apk.
NoMerged == [patch |-> NoPatch, upto |-> 0]
Merged == [patch : Patches, upto : Dexes] \cup {NoMerged}
Full(p) == [patch |-> p, upto |-> BaseDexes]

\* An odex: the file it was compiled from, the system that compiled it, and
\* how far the compiler got.
Systems == 0..MaxSystem
NoOdex == [of |-> NoMerged, sys |-> 0, state |-> "absent"]
Odex == [of : Merged, sys : Systems,
         state : {"absent", "empty", "torn", "whole"}]

\* MD5Utils.md5: the empty string for a file that is missing or empty.
Blank == NoOdex
Md5(o) == IF o.state \in {"absent", "empty"} THEN Blank ELSE o
NoRecord == [of |-> NoMerged, sys |-> 0, state |-> "none"]
NoStamp == -1

\* SecurityUtils.b, for a file that exists.
Legal(d) == Md5(odex[d]) = record

\* Names of the files of a patch directory; dex i is called i.
JarFile == -1
MergedFile == -2
OdexFile == -3
FilesIn(d) == {f \in {JarFile} : jar[d] # NoPatch} \cup dex[d]
                \cup {f \in {MergedFile} : merged[d] # NoMerged}
                \cup {f \in {OdexFile} : odex[d] # NoOdex}

\* Deletion of file f of directory d.
Delete(d, f) ==
    /\ jar' = IF f = JarFile THEN [jar EXCEPT ![d] = NoPatch] ELSE jar
    /\ dex' = [dex EXCEPT ![d] = @ \ {f}]
    /\ merged' = IF f = MergedFile THEN [merged EXCEPT ![d] = NoMerged]
                                   ELSE merged
    /\ odex' = IF f = OdexFile THEN [odex EXCEPT ![d] = NoOdex] ELSE odex

StartPcs == {"clearStandby", "checkApp", "checkSystem", "clearOdex",
             "checkDue", "load"}
CleanPcs == {"clean", "cleanPrefs"}
AddPcs == {"addClear", "addCopy", "addCommit", "addLoad"}

\* A preload: where it is, its directory, the patch whose jar it has open, the
\* dex files it has extracted, the merged file it writes, the md5 it has read.
Tasks == {"none", "open", "extract", "merge", "compile", "wait", "compare",
          "record", "stamp"}
Jobs == [at : Tasks, dir : Dirs, src : Patches \cup {NoPatch},
         done : SUBSET Dexes, out : Merged, md5 : Odex]
NoJob == [at |-> "none", dir |-> 0, src |-> NoPatch, done |-> {},
          out |-> NoMerged, md5 |-> Blank]
PreloadIn(w, d) == job[w].at # "none" /\ job[w].dir = d

\* Someone empties, fills or preloads directory d.
Emptying(d) == pc \in {"clean", "addClear", "addCopy"} /\ where = d
Busy(d) == Emptying(d) \/ \E w \in Workers : PreloadIn(w, d)
\* One more begins to work in directory d; clearDir has been through it.
Enter(d) == mixed' = [mixed EXCEPT ![d] = @ \/ Busy(d)]
Emptied(d) ==
    mixed' = [mixed EXCEPT ![d] = /\ @
                                  /\ \/ FilesIn(d) # {}
                                     \/ \E w \in Workers : PreloadIn(w, d)]

TypeOK ==
    /\ jar \in [Dirs -> Patches \cup {NoPatch}]
    /\ dex \in [Dirs -> SUBSET Dexes]
    /\ merged \in [Dirs -> Merged] /\ odex \in [Dirs -> Odex]
    /\ next \in Dirs /\ record \in Odex \cup {NoRecord}
    /\ stamp \in Systems \cup {NoStamp} /\ due \in BOOLEAN
    /\ system \in Systems
    /\ pc \in {"down", "idle"} \cup StartPcs \cup CleanPcs \cup AddPcs
    /\ back \in {"checkSystem", "load", "idle"}
    /\ cur \in Dirs /\ where \in Dirs
    /\ cand \in Patches \cup {NoPatch}
    /\ left \subseteq {JarFile, MergedFile, OdexFile} \cup Dexes
    /\ adds \in Nat
    /\ injected \in Patches \cup {NoPatch}
    /\ queue \in Seq(Dirs) /\ job \in [Workers -> Jobs]
    /\ mixed \in [Dirs -> BOOLEAN]
-----------------------------------------------------------------------------
Init ==
    /\ jar = [d \in Dirs |-> NoPatch] /\ dex = [d \in Dirs |-> {}]
    /\ merged = [d \in Dirs |-> NoMerged] /\ odex = [d \in Dirs |-> NoOdex]
    /\ next = 0 /\ record = NoRecord /\ stamp = NoStamp /\ due = FALSE
    /\ system = 0
    /\ pc = "down" /\ back = "idle" /\ cur = 0 /\ where = 0 /\ cand = NoPatch
    /\ left = {} /\ adds = 0 /\ injected = NoPatch
    /\ queue = <<>> /\ job = [w \in Workers |-> NoJob]
    /\ mixed = [d \in Dirs |-> FALSE]

\* clearDir lists the directory once and deletes what it listed.
List(d, at, keep) ==
    /\ pc' = at /\ where' = d
    /\ left' = FilesIn(d) \ keep

DeleteNext ==
    /\ pc \in {"clearStandby", "clearOdex", "clean", "addClear"}
    /\ \E f \in left : Delete(where, f) /\ left' = left \ {f}
    /\ UNCHANGED <<prefVars, system, pc, back, cur, where, cand, adds,
                   injected, taskVars, mixed>>
-----------------------------------------------------------------------------
(***************************************************************************)
(* Start of the main process.                                              *)
(***************************************************************************)

\* initPatchDirs: the exchange, then the standby directory is cleared.
StartProcess ==
    /\ pc = "down"
    /\ cur' = next /\ List(Other(next), "clearStandby", {})
    /\ UNCHANGED <<dirVars, prefVars, system, back, cand, adds, injected,
                   taskVars, mixed>>

StandbyCleared ==
    /\ pc = "clearStandby" /\ left = {}
    /\ pc' = "checkApp" /\ Emptied(where)
    /\ UNCHANGED <<dirVars, prefVars, system, back, cur, where, cand, left,
                   adds, injected, taskVars>>

CallClean(return) ==
    /\ List(cur, "clean", {}) /\ back' = return /\ Enter(cur)
    /\ UNCHANGED <<dirVars, prefVars, system, cur, cand, adds, injected,
                   taskVars>>

\* h() and handleLocalPatch: a clean is due, before or after the system check.
CheckDue ==
    /\ pc \in {"checkApp", "checkDue"}
    /\ \/ due /\ CallClean(IF pc = "checkApp" THEN "checkSystem" ELSE "load")
       \/ /\ pc = "checkApp" \/ ~due
          /\ pc' = IF pc = "checkApp" THEN "checkSystem" ELSE "load"
          /\ where' = cur
          /\ UNCHANGED <<dirVars, prefVars, system, back, cur, cand, left,
                         adds, injected, taskVars, mixed>>

\* Mutant: the updated system is noticed only without a stamp.
UpdatedUnknown == stamp = NoStamp

\* i(): the system was updated since the last preload, so everything but the
\* jar goes.
Updated == stamp \notin {NoStamp, system}
CheckSystem ==
    /\ pc = "checkSystem"
    /\ \/ Updated /\ List(cur, "clearOdex", {JarFile})
       \/ ~Updated /\ pc' = "checkDue" /\ UNCHANGED <<where, left>>
    /\ UNCHANGED <<dirVars, prefVars, system, back, cur, cand, adds, injected,
                   taskVars, mixed>>

OdexCleared ==
    /\ pc = "clearOdex" /\ left = {}
    /\ pc' = "checkDue"
    /\ UNCHANGED <<dirVars, prefVars, system, back, cur, where, cand, left,
                   adds, injected, taskVars, mixed>>
-----------------------------------------------------------------------------
(***************************************************************************)
(* cleanPatches and addPatch, as far as they touch these files.            *)
(***************************************************************************)

\* An operation returns: its variables are gone.
Return == pc' = "idle" /\ where' = cur /\ cand' = NoPatch

CleanPatches == pc = "idle" /\ CallClean("idle")

CleanListed ==
    /\ pc = "clean" /\ left = {}
    /\ pc' = "cleanPrefs" /\ Emptied(where)
    /\ UNCHANGED <<dirVars, prefVars, system, back, cur, where, cand, left,
                   adds, injected, taskVars>>

CleanPrefs ==
    /\ pc = "cleanPrefs"
    /\ next' = 0 /\ record' = NoRecord /\ stamp' = NoStamp /\ due' = FALSE
    /\ pc' = back /\ back' = "idle" /\ where' = cur
    /\ UNCHANGED <<dirVars, system, cur, cand, left, adds, injected,
                   taskVars, mixed>>

\* Into the standby directory if the current one has a jar.
TargetDir == IF jar[cur] # NoPatch THEN Other(cur) ELSE cur

\* A query adds its patch on a thread of the executor; in debug mode any
\* thread may add a local one.
AddPatch(p) ==
    /\ pc = "idle" /\ adds < MaxAdds
    /\ cand' = p /\ adds' = adds + 1
    /\ List(TargetDir, "addClear", {}) /\ Enter(TargetDir)
    /\ UNCHANGED <<dirVars, prefVars, system, back, cur, injected, taskVars>>

AddCleared ==
    /\ pc = "addClear" /\ left = {}
    /\ pc' = "addCopy" /\ Emptied(where)
    /\ UNCHANGED <<dirVars, prefVars, system, back, cur, where, cand, left,
                   adds, injected, taskVars>>

\* The jar appears.  Until it is whole and verified nothing here can use it.
AddCopy ==
    /\ pc = "addCopy"
    /\ jar' = [jar EXCEPT ![where] = cand]
    /\ pc' = "addCommit" /\ cand' = NoPatch
    /\ UNCHANGED <<dex, merged, odex, prefVars, system, back, cur, where, left,
                   adds, injected, taskVars, mixed>>

\* g().
AddCommit ==
    /\ pc = "addCommit"
    /\ next' = IF where # cur THEN where ELSE next
    /\ pc' = "addLoad"
    /\ UNCHANGED <<dirVars, record, stamp, due, system, back, cur, where, cand,
                   left, adds, injected, taskVars, mixed>>

\* The catch clauses of addPatch.
FailAdd ==
    /\ pc \in {"addCopy", "addCommit", "addLoad"}
    /\ jar' = [jar EXCEPT ![where] = NoPatch]
    /\ Return
    /\ UNCHANGED <<dex, merged, odex, prefVars, system, back, cur, left, adds,
                   injected, taskVars, mixed>>
-----------------------------------------------------------------------------
(***************************************************************************)
(* ColdDexManager.hotfix, called by loadPatch.                             *)
(***************************************************************************)

Loading == pc \in {"load", "addLoad"}

\* There is no jar: handleLocalPatch has nothing to do.
LoadNone ==
    /\ Loading /\ jar[where] = NoPatch
    /\ Return
    /\ UNCHANGED <<dirVars, prefVars, system, back, cur, left, adds, injected,
                   taskVars, mixed>>

\* isOptFileValid holds: inject.  Without the merged file loadDex throws.
Inject ==
    /\ Loading /\ jar[where] # NoPatch
    /\ odex[where] # NoOdex /\ Legal(where)
    /\ injected' = IF merged[where] = NoMerged THEN injected ELSE jar[where]
    /\ Return
    /\ UNCHANGED <<dirVars, prefVars, system, back, cur, left, adds, taskVars,
                   mixed>>

\* It does not: an illegal odex is deleted, and a preload posted.
PostPreload ==
    /\ Loading /\ jar[where] # NoPatch
    /\ odex[where] = NoOdex \/ ~Legal(where)
    /\ odex' = [odex EXCEPT ![where] = NoOdex]
    /\ queue' = Append(queue, where)
    /\ Return
    /\ UNCHANGED <<jar, dex, merged, prefVars, system, back, cur, left, adds,
                   injected, job, mixed>>
-----------------------------------------------------------------------------
(***************************************************************************)
(* The preload, on a thread w of the executor: doOptPatch.                 *)
(***************************************************************************)

TakeTask(w) ==
    /\ job[w].at = "none" /\ queue # <<>> /\ pc # "down"
    /\ job' = [job EXCEPT ![w].at = "open", ![w].dir = Head(queue)]
    /\ queue' = Tail(queue) /\ Enter(Head(queue))
    /\ UNCHANGED <<dirVars, prefVars, system, opVars, injected>>

\* extractAllBaseDexFiles.  The jar stays readable once it is open.
OpenJar(w) ==
    /\ job[w].at = "open" /\ jar[job[w].dir] # NoPatch
    /\ job' = [job EXCEPT ![w].at = "extract", ![w].src = jar[job[w].dir]]
    /\ UNCHANGED <<dirVars, prefVars, system, opVars, injected, queue, mixed>>

\* The classes of the patch first, those of the apk in any order.
Extract(w, i) ==
    /\ job[w].at = "extract"
    /\ i \notin job[w].done /\ (i # 0 => 0 \in job[w].done)
    /\ dex' = [dex EXCEPT ![job[w].dir] = @ \cup {i}]
    /\ job' = [job EXCEPT ![w].done = @ \cup {i}]
    /\ UNCHANGED <<jar, merged, odex, prefVars, system, opVars, injected,
                   queue, mixed>>

\* optMergedAllDexFilesAbove20: a temporary file takes classes.dex, ...
MergePatch(w) ==
    /\ job[w].at = "extract" /\ job[w].done = Dexes
    /\ 0 \in dex[job[w].dir]
    /\ dex' = [dex EXCEPT ![job[w].dir] = @ \ {0}]
    /\ job' = [job EXCEPT ![w].at = "merge", ![w].done = {},
                          ![w].out = [patch |-> job[w].src, upto |-> 0]]
    /\ UNCHANGED <<jar, merged, odex, prefVars, system, opVars, injected,
                   queue, mixed>>

\* Mutant: it goes on past the last class file.
MergePast(w) ==
    /\ job[w].at = "merge" /\ job[w].out.upto <= BaseDexes
    /\ dex' = [dex EXCEPT ![job[w].dir] = @ \ {job[w].out.upto + 1}]
    /\ job' = [job EXCEPT ![w].out.upto = @ + 1]
    /\ UNCHANGED <<jar, merged, odex, prefVars, system, opVars, injected,
                   queue, mixed>>

\* ... then classes1.dex and so on, as long as they exist, ...
MergeBase(w) ==
    /\ job[w].at = "merge" /\ job[w].out.upto + 1 \in dex[job[w].dir]
    /\ dex' = [dex EXCEPT ![job[w].dir] = @ \ {job[w].out.upto + 1}]
    /\ job' = [job EXCEPT ![w].out.upto = @ + 1]
    /\ UNCHANGED <<jar, merged, odex, prefVars, system, opVars, injected,
                   queue, mixed>>

\* Mutant: the merged file is renamed before all classes are in it.
RenameEarly(w) ==
    /\ job[w].at = "merge"
    /\ merged' = [merged EXCEPT ![job[w].dir] = job[w].out]
    /\ job' = [job EXCEPT ![w].at = "compile", ![w].src = NoPatch,
                          ![w].out = NoMerged]
    /\ UNCHANGED <<jar, dex, odex, prefVars, system, opVars, injected, queue,
                   mixed>>

\* ... and is renamed.
Rename(w) ==
    /\ job[w].at = "merge" /\ job[w].out.upto + 1 \notin dex[job[w].dir]
    /\ merged' = [merged EXCEPT ![job[w].dir] = job[w].out]
    /\ job' = [job EXCEPT ![w].at = "compile", ![w].src = NoPatch,
                          ![w].out = NoMerged]
    /\ UNCHANGED <<jar, dex, odex, prefVars, system, opVars, injected, queue,
                   mixed>>

\* preloadDex: dex2oat or loadDex compiles, unless the odex is up to date.
\* The call may return at any time.
UpToDate(d) == odex[d] = [of |-> merged[d], sys |-> system, state |-> "whole"]
NewOdex(d) == [of |-> merged[d], sys |-> system, state |-> "empty"]

StartCompile(w) ==
    /\ job[w].at = "compile" /\ merged[job[w].dir] # NoMerged
    /\ odex' = IF UpToDate(job[w].dir) THEN odex
               ELSE [odex EXCEPT ![job[w].dir] = NewOdex(job[w].dir)]
    /\ job' = [job EXCEPT ![w].at = "wait"]
    /\ UNCHANGED <<jar, dex, merged, prefVars, system, opVars, injected, queue,
                   mixed>>

\* The md5 is read twice ...
ReadMd5(w) ==
    /\ job[w].at = "wait"
    /\ job' = [job EXCEPT ![w].at = "compare", ![w].md5 = Md5(odex[job[w].dir])]
    /\ UNCHANGED <<dirVars, prefVars, system, opVars, injected, queue, mixed>>

\* ... and if it has not come to rest, again, after a while; of a file that
\* never comes, or stays empty, the empty md5 is taken at last.
AtRest(w) == job[w].md5 # Blank /\ job[w].md5 = Md5(odex[job[w].dir])
CompareMd5(w) ==
    /\ job[w].at = "compare"
    /\ \/ AtRest(w) /\ job' = [job EXCEPT ![w].at = "record"]
       \/ /\ ~AtRest(w)
          /\ job' = [job EXCEPT ![w].md5 = Md5(odex[job[w].dir])]
       \/ /\ ~AtRest(w) /\ Md5(odex[job[w].dir]) = Blank
          /\ job' = [job EXCEPT ![w].at = "record", ![w].md5 = Blank]
    /\ UNCHANGED <<dirVars, prefVars, system, opVars, injected, queue, mixed>>

Record(w) ==
    /\ job[w].at = "record"
    /\ record' = job[w].md5
    /\ job' = [job EXCEPT ![w].at = "stamp", ![w].md5 = Blank]
    /\ UNCHANGED <<dirVars, next, stamp, due, system, opVars, injected, queue,
                   mixed>>

\* The fingerprint of the system.
Stamp(w) ==
    /\ job[w].at = "stamp"
    /\ stamp' = system
    /\ job' = [job EXCEPT ![w] = NoJob]
    /\ UNCHANGED <<dirVars, next, record, due, system, opVars, injected, queue,
                   mixed>>

\* A PatchException or another exception ends the task.
FailTask(w) ==
    /\ job[w].at \in {"open", "extract", "merge", "compile"}
    /\ job' = [job EXCEPT ![w] = NoJob]
    /\ UNCHANGED <<dirVars, prefVars, system, opVars, injected, queue, mixed>>
-----------------------------------------------------------------------------
(***************************************************************************)
(* The compiler (external): in the process or one of its own, which may    *)
(* still write when the call has returned, or the process has died.  One   *)
(* that has died with the process is one that takes no further step.       *)
(***************************************************************************)

Compile(d, before, after) ==
    /\ odex[d].state \in before
    /\ odex' = [odex EXCEPT ![d] = after]
    /\ UNCHANGED <<jar, dex, merged, prefVars, system, opVars, injected,
                   taskVars, mixed>>

WriteOdex(d) == Compile(d, {"empty"}, [odex[d] EXCEPT !.state = "torn"])
EndCompile(d) == Compile(d, {"torn"}, [odex[d] EXCEPT !.state = "whole"])
FailCompile(d) == Compile(d, {"empty", "torn"}, NoOdex)
-----------------------------------------------------------------------------
(***************************************************************************)
(* Environment.                                                            *)
(***************************************************************************)

Die ==
    /\ pc # "down"
    /\ pc' = "down" /\ back' = "idle" /\ cur' = 0 /\ where' = 0
    /\ cand' = NoPatch /\ left' = {} /\ adds' = 0 /\ injected' = NoPatch
    /\ queue' = <<>> /\ job' = [w \in Workers |-> NoJob]
    /\ UNCHANGED <<dirVars, prefVars, system, mixed>>

\* The app or its patch is such that the next start cleans.  Whatever decides
\* that while a process runs, only the next one reads it.
BecomeDue ==
    /\ ~due /\ pc = "down"
    /\ due' = TRUE
    /\ UNCHANGED <<dirVars, next, record, stamp, system, opVars, injected,
                   taskVars, mixed>>

UpdateSystem ==
    /\ pc = "down" /\ system < MaxSystem
    /\ system' = system + 1
    /\ UNCHANGED <<dirVars, prefVars, opVars, injected, taskVars, mixed>>

Starting == StartProcess \/ StandbyCleared \/ CheckDue \/ CheckSystem
                \/ OdexCleared
Storing == DeleteNext \/ CleanListed \/ CleanPrefs \/ AddCleared \/ AddCopy
                \/ AddCommit \/ FailAdd \/ LoadNone \/ Inject \/ PostPreload
Preloading(w) == TakeTask(w) \/ OpenJar(w) \/ (\E i \in Dexes : Extract(w, i))
                    \/ MergePatch(w) \/ MergeBase(w) \/ Rename(w)
                    \/ StartCompile(w) \/ ReadMd5(w) \/ CompareMd5(w)
                    \/ Record(w) \/ Stamp(w) \/ FailTask(w)
Compiling(d) == WriteOdex(d) \/ EndCompile(d) \/ FailCompile(d)
Calling == CleanPatches \/ \E p \in Patches : AddPatch(p)
Changing == BecomeDue \/ UpdateSystem

Next == \/ Starting \/ Storing \/ Calling \/ Die \/ Changing
        \/ \E w \in Workers : Preloading(w)
        \/ \E d \in Dirs : Compiling(d)

Spec == Init /\ [][Next]_vars
-----------------------------------------------------------------------------
(***************************************************************************)
(* Properties.                                                             *)
(***************************************************************************)

\* The merged file that a load injects is the patch of the jar followed by
\* all classes of the apk, and its odex was compiled from that very file: the
\* preload's files against deaths at any point, the exchange, installs over
\* earlier ones, and an md5 record that both directories share.  Excepted is a
\* directory in which a preload has met a clean, an install or another preload,
\* until it is next emptied.
Injects == Inject /\ merged[where] # NoMerged
InjectedIsWhole ==
    [][Injects /\ ~mixed[where] =>
          /\ merged[where] = Full(jar[where])
          /\ odex[where].of = merged[where]]_vars

\* No odex that an older system compiled is injected, once any preload has
\* recorded its system: the check comes before the load at every start.
NoOdexOfOldSystem ==
    [][Injects => odex[where].sys = system \/ stamp = NoStamp]_vars
=============================================================================
