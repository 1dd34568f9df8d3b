---------------------------- MODULE PatchManager ----------------------------
(***************************************************************************)
(* The patch store of the hot-fix SDK in the main process of an app:       *)
(* PatchManager with SophixManagerImpl, GlobalProperty, FileUtils and the  *)
(* preferences file sp_sophix.                                             *)
(*                                                                         *)
(* On disk there are two slots.  Slot 0 is the pair of directories patch   *)
(* and libs, slot 1 the pair patch_ and libs_.  The preference             *)
(* SP_SOPHIX_DIR_STATE says which is current (bit 0) and whether the main  *)
(* process must exchange them at its next start (bit 1).  An install over  *)
(* an existing patch goes to the other slot and sets bit 1.                *)
(*                                                                         *)
(* Every write to the disk is a step, and the process may die between any  *)
(* two.  The public operations hold the monitor of PatchManager, so one    *)
(* program counter is enough for them; the 3 s timer, the uncaught         *)
(* exception handler and the server's answers interleave freely.           *)
(***************************************************************************)
EXTENDS CrashHandler, FiniteSets

CONSTANTS
    Patches,        \* patch versions the server or the developer can supply
    Libs,           \* names of native libraries
    SoOf,           \* SoOf[p]: libraries named by Modified-So of patch p
    DexPatches,     \* patches that contain classes.dex
    ResPatches,     \* patches that carry resources
    HotPatches,     \* patches for which Support-Hot holds on this device
    Signed,         \* patches whose signature matches the apk
    DebugMode,      \* setEnableDebug: local patches allowed, signature skipped
    AesKey,         \* setAesKey: patch files arrive encrypted
    CrashLimit,     \* the 5 of handleLocalPatch
    MaxAdds,        \* bound: addPatch calls in the life of one process
    MidOpKills      \* bound: may the process die inside an operation?

NoPatch == 0

ASSUME PatchesAssumption ==
    /\ Patches \subseteq Nat \ {NoPatch}
    /\ SoOf \in [Patches -> SUBSET Libs]
    /\ DexPatches \subseteq Patches
    /\ ResPatches \subseteq Patches
    /\ HotPatches \subseteq Patches
    /\ Signed \subseteq Patches

ASSUME SettingsAssumption ==
    /\ DebugMode \in BOOLEAN
    /\ AesKey \in BOOLEAN
    /\ MidOpKills \in BOOLEAN
    /\ CrashLimit \in Nat \ {0}
    /\ MaxAdds \in Nat

VARIABLES
    \* on disk
    jar,        \* jar[d]: the .jar of slot d
    lib,        \* lib[d][l]: library l in the libs directory of slot d
    dirState,   \* preference SP_SOPHIX_DIR_STATE
    version,    \* preference hpatch_version
    appOK,      \* preference happ_version equals the version of the app
    clearFlag,  \* preference hpatch_clear
    \* in the main process
    memState,   \* PatchManager.a
    memVersion, \* GlobalProperty.a
    inited,     \* PatchManager.l
    timer,      \* the delayed call of k: none, posted, or how far it got
    running,    \* patch whose code or resources this process runs
    soFrom,     \* libraries injected into the class loader
    \* the operation that holds the monitor
    pc, ret,    \* where it is, and where its caller continues
    cand,       \* the patch it handles
    newVersion, \* the version recorded for that patch
    where,      \* the slot it works on
    got,        \* parts loaded so far (var12, var14, var13 of loadPatch)
    todo,       \* libraries addPatch has still to unpack
    told,       \* last thing the listener was told
    adds,       \* addPatch calls so far, for MaxAdds
    \* observation only
    stored,     \* patch of this process's last addPatch that kept its file
    watch,      \* the start loaded a patch; neither k() nor a clean came since
    streak,     \* processes in a row that crashed or died on watch
    order       \* the server's order to clear: given, due at this start, none

clearVars == <<clearFlag, order>>
diskVars == <<jar, lib, dirState, version, appOK, clearVars>>
procVars == <<memState, memVersion, inited, timer, running, soFrom, adds>>
opVars   == <<ret, cand, newVersion, where, got, todo, told>>
obsVars  == <<stored, watch, streak>>
vars == <<diskVars, procVars, opVars, pc, crashVars, obsVars>>

Dirs == {0, 1}
Other(d) == 1 - d
PatchOrNone == Patches \cup {NoPatch}

\* A file: whose content it holds, and whether all of it is there, in clear.
NoFile == [patch |-> NoPatch, whole |-> FALSE]
File == [patch : Patches, whole : BOOLEAN] \cup {NoFile}
Whole(p) == [patch |-> p, whole |-> TRUE]
Torn(p) == [patch |-> p, whole |-> FALSE]
NoLibs == [l \in Libs |-> NoFile]

\* The bits of the directory state.
SwapPending(s) == s >= 2
CurrentBit(s) == s % 2
\* Mutant: the request is added, not or-ed.
AddPending(s) == s + 2
SetPending(s) == IF SwapPending(s) THEN s ELSE s + 2
\* Mutant: the slots stay as they are.
Unswapped(s) == CurrentBit(s)
\* 3 & ~s for s in 0..3: exchange the slots and drop the request.
Swapped(s) == 3 - s

\* The slot the fields b and c name in this process.
Cur == CurrentBit(memState)
\* The slot the next start of the main process will make current.
NextDir == IF SwapPending(dirState) THEN Other(CurrentBit(dirState))
                                    ELSE CurrentBit(dirState)
\* The patch a start would find there; a torn jar can never be loaded.
Loadable == IF jar[NextDir].whole THEN jar[NextDir].patch ELSE NoPatch

InitPcs == {"initPatchDir", "initLibDir", "checkApp", "checkCrash",
            "checkClear", "handleLocal", "endInit"}
CleanPcs == {"cleanPatch", "cleanLibs", "cleanPrefs", "cleanVersion",
             "cleanApp"}
AddPcs == {"addClear", "addCopy", "addCopying", "addRecord", "addVerify",
           "addUnzip", "addCommit", "addDecide"}
LoadPcs == {"loadVerify", "loadPrepare", "loadArm", "loadDex", "loadDisarm",
            "loadForget", "loadRes", "loadSo", "loadDone"}
Pcs == {"down", "idle", "dying"} \cup InitPcs \cup CleanPcs \cup AddPcs
           \cup LoadPcs

DiskTypeOK ==
    /\ jar \in [Dirs -> File]
    /\ lib \in [Dirs -> [Libs -> File]]
    /\ dirState \in 0..3
    /\ version \in PatchOrNone \cup {-1}
    /\ appOK \in BOOLEAN /\ clearFlag \in BOOLEAN

ProcTypeOK ==
    /\ memState \in 0..3
    /\ memVersion \in PatchOrNone \cup {-1}
    /\ inited \in BOOLEAN
    /\ timer \in {"none", "posted", "firing", "removing"}
    /\ running \in PatchOrNone
    /\ soFrom \in [Libs -> File]
    /\ adds \in Nat

OpTypeOK ==
    /\ pc \in Pcs
    /\ ret \in {"idle", "checkCrash", "checkClear", "handleLocal", "endInit"}
    /\ cand \in PatchOrNone
    /\ pc \in AddPcs \cup LoadPcs => cand \in Patches
    /\ newVersion \in PatchOrNone \cup {-1}
    /\ where \in Dirs
    /\ got \in SUBSET {"dex", "res", "so"}
    /\ todo \in SUBSET Libs
    /\ told \in {"none", "loaded", "relaunch", "failed"}

ObsTypeOK ==
    /\ stored \in PatchOrNone /\ watch \in BOOLEAN /\ streak \in Nat
    /\ order \in {"none", "given", "due"}

TypeOK == CrashTypeOK /\ DiskTypeOK /\ ProcTypeOK /\ OpTypeOK /\ ObsTypeOK

Init ==
    /\ CrashInit
    /\ jar = [d \in Dirs |-> NoFile]
    /\ lib = [d \in Dirs |-> NoLibs]
    /\ dirState = 0 /\ version = 0
    /\ appOK = FALSE /\ clearFlag = FALSE
    /\ memState = 0 /\ memVersion = 0
    /\ inited = FALSE /\ timer = "none"
    /\ running = NoPatch /\ soFrom = NoLibs
    /\ pc = "down" /\ ret = "idle"
    /\ cand = NoPatch /\ newVersion = 0 /\ where = 0 /\ got = {}
    /\ todo = {}
    /\ told = "none" /\ adds = 0
    /\ stored = NoPatch /\ watch = FALSE /\ streak = 0 /\ order = "none"
-----------------------------------------------------------------------------
(***************************************************************************)
(* Start of the main process: SophixManagerImpl.initialize.                *)
(***************************************************************************)

\* initPatchDirs up to the choice of directories: a pending exchange is
\* carried out and written back.
StartProcess ==
    /\ pc = "down"
    /\ memState' = IF SwapPending(dirState) THEN Swapped(dirState)
                                            ELSE dirState
    /\ dirState' = memState'
    /\ order' = IF order = "none" THEN "none" ELSE "due"
    /\ pc' = "initPatchDir"
    /\ UNCHANGED <<jar, lib, version, appOK, clearFlag, memVersion, inited,
                   timer, running, soFrom, adds, opVars, crashVars, obsVars>>

\* clearDir(d): the patch directory that is not current.
ClearStandbyPatch ==
    /\ pc = "initPatchDir"
    /\ jar' = [jar EXCEPT ![Other(Cur)] = NoFile]
    /\ pc' = "initLibDir"
    /\ UNCHANGED <<lib, dirState, version, appOK, clearVars, procVars, opVars,
                   crashVars, obsVars>>

\* clearDir(e), then initializeInner reads the stored patch version.
ClearStandbyLibs ==
    /\ pc = "initLibDir"
    /\ lib' = [lib EXCEPT ![Other(Cur)] = NoLibs]
    /\ memVersion' = version
    /\ pc' = "checkApp"
    /\ UNCHANGED <<jar, dirState, version, appOK, clearVars, memState, inited,
                   timer, running, soFrom, adds, opVars, crashVars,
                   obsVars>>

\* The operation that holds the monitor returns: its variables are gone.
Return == /\ ret' = "idle" /\ cand' = NoPatch /\ newVersion' = 0
          /\ where' = 0 /\ got' = {} /\ todo' = {}

\* Call of cleanPatches from the operation that holds the monitor.
CallClean(back) ==
    /\ pc' = "cleanPatch"
    /\ ret' = back
    /\ UNCHANGED <<cand, newVersion, where, got, todo, told>>

\* h(): another app version was recorded, so clean.  i() only removes odex
\* files, which this module does not keep.
CheckApp ==
    /\ pc = "checkApp"
    /\ \/ ~appOK /\ CallClean("checkCrash")
       \/ appOK /\ pc' = "checkCrash" /\ UNCHANGED opVars
    /\ UNCHANGED <<diskVars, procVars, crashVars, obsVars>>

\* Mutant: one crash more is tolerated.
MoreThanLimit == crashNum > CrashLimit
TooManyCrashes == crashNum >= CrashLimit

\* handleLocalPatch: too many crashes in a row, so clean by force.
CheckCrash ==
    /\ pc = "checkCrash"
    /\ \/ TooManyCrashes /\ CallClean("checkClear")
       \/ ~TooManyCrashes /\ pc' = "checkClear" /\ UNCHANGED opVars
    /\ UNCHANGED <<diskVars, procVars, crashVars, obsVars>>

ClearWanted == clearFlag

\* handleLocalPatch: the server asked for a clean.
CheckClear ==
    /\ pc = "checkClear"
    /\ \/ ClearWanted /\ CallClean("handleLocal")
       \/ ~ClearWanted /\ pc' = "handleLocal" /\ UNCHANGED opVars
    /\ UNCHANGED <<diskVars, procVars, crashVars, obsVars>>

\* handleLocalPatch: load the jar of the current slot, if there is one.
HandleLocal ==
    /\ pc = "handleLocal"
    /\ \/ /\ jar[Cur] # NoFile
          /\ pc' = "loadVerify" /\ ret' = "endInit"
          /\ cand' = jar[Cur].patch /\ where' = Cur /\ got' = {}
          /\ UNCHANGED <<newVersion, todo, told>>
       \/ jar[Cur] = NoFile /\ pc' = "endInit" /\ UNCHANGED opVars
    /\ UNCHANGED <<diskVars, procVars, crashVars, obsVars>>

\* handleLocalPatch posts k, and init ends: the stub application, if any, is
\* attached without trouble.
EndInit ==
    /\ pc = "endInit"
    /\ timer' = "posted"
    /\ inited' = TRUE
    /\ pc' = "idle"
    /\ UNCHANGED <<diskVars, memState, memVersion, running, soFrom, adds,
                   opVars, crashVars, obsVars>>

\* A process on watch counts once, however many of its threads throw.
StreakAfterCrash == IF watch /\ ~crashed THEN streak + 1 ELSE streak

\* callRealAppAttach threw.  initialize() lets the exception go when the crash
\* handler is armed, which then counts it; otherwise it cleans.
FailInit ==
    /\ pc = "endInit"
    /\ timer' = "posted"
    /\ \/ /\ CountCrash
          /\ pc' = "dying" /\ streak' = StreakAfterCrash
          /\ UNCHANGED opVars
       \/ /\ ~armed
          /\ count' = CountAfterUse(crashNum)
          /\ CallClean("idle")
          /\ UNCHANGED <<crashNum, armed, crashed, streak>>
    /\ UNCHANGED <<diskVars, memState, memVersion, inited, running,
                   soFrom, adds, stored, watch>>
-----------------------------------------------------------------------------
(***************************************************************************)
(* cleanPatches: the two directories of the current slot, then the whole   *)
(* preferences file, then the keys that must survive, one commit each.     *)
(* The device id and happ_ishotfix, which it also saves and puts back, are *)
(* read by no step of this module.                                         *)
(***************************************************************************)

\* SophixManager.cleanPatches, from any thread of the app.
CallCleanPatches ==
    /\ pc = "idle"
    /\ CallClean("idle")
    /\ UNCHANGED <<diskVars, procVars, crashVars, obsVars>>

\* Mutant: the order is taken for done as soon as the clean begins.
CleanAndForget ==
    /\ pc = "cleanPatch"
    /\ jar' = [jar EXCEPT ![Cur] = NoFile]
    /\ clearFlag' = FALSE
    /\ stored' = NoPatch /\ watch' = FALSE /\ streak' = 0
    /\ pc' = "cleanLibs"
    /\ UNCHANGED <<lib, dirState, version, appOK, order, procVars, opVars,
                   crashVars>>

CleanPatchDir ==
    /\ pc = "cleanPatch"
    /\ jar' = [jar EXCEPT ![Cur] = NoFile]
    /\ stored' = NoPatch /\ watch' = FALSE /\ streak' = 0
    /\ pc' = "cleanLibs"
    /\ UNCHANGED <<lib, dirState, version, appOK, clearVars, procVars, opVars,
                   crashVars>>

CleanLibDir ==
    /\ pc = "cleanLibs"
    /\ lib' = [lib EXCEPT ![Cur] = NoLibs]
    /\ pc' = "cleanPrefs"
    /\ UNCHANGED <<jar, dirState, version, appOK, clearVars, procVars, opVars,
                   crashVars, obsVars>>

\* A clean that has emptied its slot carries out an order.
SlotEmpty(d) == jar[d] = NoFile /\ lib[d] = NoLibs
OrderCarriedOut == order' = IF SlotEmpty(Cur) THEN "none" ELSE order

\* Mutant: the directory state survives the clean.
CleanOtherPrefs ==
    /\ pc = "cleanPrefs"
    /\ version' = 0 /\ appOK' = FALSE /\ clearFlag' = FALSE /\ crashNum' = 0
    /\ OrderCarriedOut
    /\ pc' = "cleanVersion"
    /\ UNCHANGED <<jar, lib, dirState, procVars, opVars, armed, crashed, count,
                   obsVars>>

\* Every key goes, the directory state and the crash count included; the
\* fields of the process stay.
CleanPrefs ==
    /\ pc = "cleanPrefs"
    /\ dirState' = 0 /\ version' = 0
    /\ appOK' = FALSE /\ clearFlag' = FALSE /\ OrderCarriedOut
    /\ crashNum' = 0
    /\ pc' = "cleanVersion"
    /\ UNCHANGED <<jar, lib, procVars, opVars, armed, crashed, count, obsVars>>

CleanVersion ==
    /\ pc = "cleanVersion"
    /\ version' = memVersion
    /\ pc' = "cleanApp"
    /\ UNCHANGED <<jar, lib, dirState, appOK, clearVars, procVars, opVars,
                   crashVars, obsVars>>

CleanApp ==
    /\ pc = "cleanApp"
    /\ appOK' = TRUE
    /\ pc' = ret
    /\ UNCHANGED <<jar, lib, dirState, version, clearVars, procVars, opVars,
                   crashVars, obsVars>>
-----------------------------------------------------------------------------
(***************************************************************************)
(* addPatch.                                                               *)
(***************************************************************************)

\* The standby slot is taken when the current one has a jar.
\* Mutant: the new patch always goes to the current slot.
AlwaysCurrent == Cur
TargetDir == IF jar[Cur] # NoFile THEN Other(Cur) ELSE Cur

\* Entry of addPatch.  A file or device that is refused here changes nothing
\* and is left out.
CallAddPatch(p, v) ==
    /\ pc = "idle" /\ inited /\ adds < MaxAdds
    /\ pc' = "addClear" /\ ret' = "idle"
    /\ cand' = p /\ newVersion' = v /\ got' = {}
    /\ where' = TargetDir
    /\ adds' = adds + 1
    /\ UNCHANGED <<jar, lib, dirState, version, appOK, memState, memVersion,
                   inited, timer, running, soFrom, todo, told, crashVars,
                   obsVars>>

\* The server's order to clear is withdrawn by the last write of a query that
\* has downloaded a patch.
Withdraw == clearFlag' = FALSE /\ order' = "none"

\* A query that found a patch, and the addPatch that follows it.  A query
\* carries the version of the time it was asked for, which may be before
\* initialize has read one, so any patch can be newer.
QueryAndAdd(p) == CallAddPatch(p, p) /\ Withdraw

\* The debug entry point for a patch file on the device, version -1.
AddLocal(p) ==
    /\ DebugMode
    /\ CallAddPatch(p, -1)
    /\ UNCHANGED clearVars

AddClear ==
    /\ pc = "addClear"
    /\ jar' = [jar EXCEPT ![where] = NoFile]
    /\ pc' = "addCopy"
    /\ UNCHANGED <<lib, dirState, version, appOK, clearVars, procVars, opVars,
                   crashVars, obsVars>>

\* The catch clauses of addPatch: the new file goes, nothing else is undone.
FailAdd ==
    /\ pc \in {"addCopy", "addCopying", "addVerify", "addUnzip", "addDecide"}
    /\ jar' = [jar EXCEPT ![where] = NoFile]
    /\ told' = "failed" /\ stored' = NoPatch
    /\ pc' = "idle" /\ Return
    /\ UNCHANGED <<lib, dirState, version, appOK, clearVars, procVars,
                   crashVars, watch, streak>>

\* FileUtils.copy: the file exists before its content is complete.
AddCopy ==
    /\ pc = "addCopy"
    /\ jar' = [jar EXCEPT ![where] = Torn(cand)]
    /\ pc' = "addCopying"
    /\ UNCHANGED <<lib, dirState, version, appOK, clearVars, procVars, opVars,
                   crashVars, obsVars>>

\* An encrypted copy is of no use to anyone yet.
AddCopied ==
    /\ pc = "addCopying"
    /\ jar' = [jar EXCEPT ![where] = IF AesKey THEN Torn(cand)
                                               ELSE Whole(cand)]
    /\ pc' = "addRecord"
    /\ UNCHANGED <<lib, dirState, version, appOK, clearVars, procVars, opVars,
                   crashVars, obsVars>>

\* GlobalProperty.a: the version is recorded before the patch is verified.
AddRecord ==
    /\ pc = "addRecord"
    /\ memVersion' = newVersion /\ version' = newVersion
    /\ pc' = "addVerify"
    /\ UNCHANGED <<jar, lib, dirState, appOK, clearVars, memState, inited,
                   timer, running, soFrom, adds, opVars, crashVars,
                   obsVars>>

\* Decryption in place, then the manifest; FailAdd is their failure.
AddVerify ==
    /\ pc = "addVerify"
    /\ jar' = [jar EXCEPT ![where] = Whole(cand)]
    /\ todo' = SoOf[cand]
    /\ pc' = "addUnzip"
    /\ UNCHANGED <<lib, dirState, version, appOK, clearVars, procVars, ret,
                   cand, newVersion, where, got, told, crashVars, obsVars>>

\* The libraries of this patch that have been opened are complete.
OpenedAreWhole ==
    \A l \in SoOf[cand] \ todo : lib[where][l] = Whole(cand)

\* NativeLibManager.a: each library named by the patch is created (or
\* truncated) and then filled.  Files of other names stay.
AddOpenLib(l) ==
    /\ pc = "addUnzip" /\ l \in todo /\ OpenedAreWhole
    /\ lib' = [lib EXCEPT ![where][l] = Torn(cand)]
    /\ todo' = todo \ {l}
    /\ UNCHANGED <<jar, dirState, version, appOK, clearVars, procVars, ret,
                   cand, newVersion, where, got, told, pc, crashVars, obsVars>>

AddFillLib(l) ==
    /\ pc = "addUnzip" /\ l \in SoOf[cand] \ todo
    /\ lib[where][l] = Torn(cand)
    /\ lib' = [lib EXCEPT ![where][l] = Whole(cand)]
    /\ UNCHANGED <<jar, dirState, version, appOK, clearVars, procVars, opVars,
                   pc, crashVars, obsVars>>

AddUnzipped ==
    /\ pc = "addUnzip" /\ todo = {} /\ OpenedAreWhole
    /\ pc' = "addCommit"
    /\ UNCHANGED <<diskVars, procVars, opVars, crashVars, obsVars>>

\* Mutant: the request for the exchange stays in memory.
CommitInMemory ==
    /\ pc = "addCommit"
    /\ memState' = IF where # Cur THEN SetPending(memState) ELSE memState
    /\ pc' = "addDecide"
    /\ UNCHANGED <<diskVars, memVersion, inited, timer, running,
                   soFrom, adds, opVars, crashVars, obsVars>>

\* g(): only an install over an existing patch asks for the exchange.
AddCommit ==
    /\ pc = "addCommit"
    /\ \/ /\ where # Cur
          /\ memState' = SetPending(memState)
          /\ dirState' = memState'
       \/ where = Cur /\ UNCHANGED <<memState, dirState>>
    /\ pc' = "addDecide"
    /\ UNCHANGED <<jar, lib, version, appOK, clearVars, memVersion, inited,
                   timer, running, soFrom, adds, opVars, crashVars, obsVars>>

\* A hot patch over an old one, or one with libraries or resources only,
\* waits for a restart; any other patch is loaded at once.
NeedsRelaunch(p, over) ==
    \/ over /\ p \in HotPatches
    \/ p \notin DexPatches /\ (SoOf[p] # {} \/ (p \in ResPatches /\ over))

AddDecide ==
    /\ pc = "addDecide"
    /\ \/ /\ NeedsRelaunch(cand, where # Cur)
          /\ told' = "relaunch" /\ stored' = cand /\ pc' = "idle" /\ Return
       \/ /\ ~NeedsRelaunch(cand, where # Cur)
          /\ pc' = "loadVerify" /\ UNCHANGED <<opVars, stored>>
    /\ UNCHANGED <<diskVars, procVars, crashVars, watch, streak>>
-----------------------------------------------------------------------------
(***************************************************************************)
(* loadPatch, called by handleLocalPatch and by addPatch.                  *)
(***************************************************************************)

\* End of loadPatch.  Whatever it told the listener, the file stays.
EndLoad(outcome) ==
    /\ told' = outcome
    /\ pc' = ret
    /\ stored' = IF ret = "idle" THEN cand ELSE stored
    /\ Return

\* The signature (unless in debug mode), the zip directory and the manifest.
Verified == jar[where].whole /\ (DebugMode \/ cand \in Signed)

LoadVerify ==
    /\ pc = "loadVerify"
    /\ \/ Verified /\ pc' = "loadPrepare" /\ UNCHANGED <<opVars, stored>>
       \/ ~Verified /\ EndLoad("failed")
    /\ UNCHANGED <<diskVars, procVars, crashVars, watch, streak>>

\* j() comes before any part of the patch is loaded: it counts, then arms.
LoadPrepare ==
    /\ pc = "loadPrepare"
    /\ CountLoad /\ watch' = (watch \/ ret = "endInit")
    /\ pc' = "loadArm"
    /\ UNCHANGED <<diskVars, procVars, opVars, stored, streak>>

LoadArm ==
    /\ pc = "loadArm"
    /\ ArmHandler
    /\ pc' = "loadDex"
    /\ UNCHANGED <<diskVars, procVars, opVars, obsVars>>

\* A start may find a valid odex.  An install has just emptied its directory
\* and finds one only if a preload was still at work there (see ColdDex): it
\* is on another thread, and this process has used the directory before.
OdexPossible ==
    \/ ret = "endInit"
    \/ DebugMode /\ (where = Cur \/ adds > 1)

\* DexManager: a hot patch is loaded now, and so is a cold one with a valid
\* odex.
LoadDex ==
    /\ pc = "loadDex"
    /\ \/ /\ cand \in DexPatches /\ (cand \in HotPatches \/ OdexPossible)
          /\ running' = cand /\ got' = {"dex"}
       \/ cand \notin DexPatches /\ UNCHANGED <<running, got>>
    /\ pc' = "loadRes"
    /\ UNCHANGED <<diskVars, memState, memVersion, inited, timer,
                   soFrom, adds, ret, cand, newVersion, where, todo, told,
                   crashVars, obsVars>>

\* A cold patch without a valid odex is only preloaded: nothing was loaded, so
\* k() is called at once.
LoadPreload ==
    /\ pc = "loadDex" /\ cand \in DexPatches \ HotPatches
    /\ pc' = IF MayDisarm THEN "loadDisarm" ELSE "loadDone"
    /\ UNCHANGED <<diskVars, procVars, opVars, crashVars, obsVars>>

\* k() ends the watch, whatever the age of the patch the start loaded.
LoadDisarm ==
    /\ pc = "loadDisarm"
    /\ DisarmHandler /\ watch' = FALSE /\ streak' = 0
    /\ pc' = "loadForget"
    /\ UNCHANGED <<diskVars, procVars, opVars, stored>>

LoadForget ==
    /\ pc = "loadForget"
    /\ RemoveCount
    /\ pc' = "loadDone"
    /\ UNCHANGED <<diskVars, procVars, opVars, obsVars>>

\* The catch clauses of loadPatch.  What was loaded before stays loaded; a hot
\* patch may have replaced some methods.
FailLoad ==
    /\ \/ /\ pc = "loadDex" /\ cand \in DexPatches
          /\ running' \in {running} \cup {p \in HotPatches : p = cand}
       \/ pc = "loadRes" /\ cand \in ResPatches /\ UNCHANGED running
       \/ pc = "loadSo" /\ "dex" \in got /\ UNCHANGED running
    /\ EndLoad("failed")
    /\ UNCHANGED <<diskVars, memState, memVersion, inited, timer,
                   soFrom, adds, crashVars, watch, streak>>

LoadRes ==
    /\ pc = "loadRes"
    /\ \/ /\ cand \in ResPatches
          /\ running' = cand /\ got' = got \cup {"res"}
       \/ cand \notin ResPatches /\ UNCHANGED <<running, got>>
    /\ pc' = "loadSo"
    /\ UNCHANGED <<diskVars, memState, memVersion, inited, timer,
                   soFrom, adds, ret, cand, newVersion, where, todo, told,
                   crashVars, obsVars>>

\* injectSoPatchFile compares names only, and always in the libs directory
\* of the current slot, whichever slot the jar is in.
\* Mutant: further libraries are tolerated.
LibNamesCover == SoOf[cand] \subseteq {l \in Libs : lib[Cur][l] # NoFile}
LibNamesMatch == {l \in Libs : lib[Cur][l] # NoFile} = SoOf[cand]

LoadSo ==
    /\ pc = "loadSo"
    /\ \/ /\ "dex" \in got /\ SoOf[cand] # {} /\ LibNamesMatch
          /\ soFrom' = lib[Cur] /\ got' = got \cup {"so"}
          /\ pc' = "loadDone" /\ UNCHANGED <<told, stored, ret>>
       \/ /\ ~("dex" \in got /\ SoOf[cand] # {})
          /\ pc' = "loadDone" /\ UNCHANGED <<soFrom, got, told, stored, ret>>
    /\ UNCHANGED <<diskVars, memState, memVersion, inited, timer,
                   running, adds, cand, newVersion, where, todo, crashVars,
                   watch, streak>>

\* The report to the listener: success, nothing to load (code 20), or none
\* while a preload is under way.
LoadDone ==
    /\ pc = "loadDone"
    /\ EndLoad(CASE got # {} -> "loaded"
                 [] got = {} /\ cand \in DexPatches -> "none"
                 [] OTHER -> "failed")
    /\ UNCHANGED <<diskVars, procVars, crashVars, watch, streak>>
-----------------------------------------------------------------------------
(***************************************************************************)
(* What happens beside the operations.                                     *)
(***************************************************************************)

\* k() on the main thread, 3 s after handleLocalPatch, without the monitor:
\* the test, the handler, and then the preference.
TimerFires ==
    /\ timer = "posted" /\ (inited \/ pc = "idle")
    /\ timer' = IF MayDisarm THEN "firing" ELSE "none"
    /\ count' = CountAfterUse(crashNum)
    /\ UNCHANGED <<diskVars, memState, memVersion, inited, running,
                   soFrom, adds, opVars, pc, crashNum, armed, crashed,
                   obsVars>>

TimerDisarms ==
    /\ timer = "firing"
    /\ timer' = "removing"
    /\ DisarmHandler /\ watch' = FALSE /\ streak' = 0
    /\ UNCHANGED <<diskVars, memState, memVersion, inited, running,
                   soFrom, adds, opVars, pc, stored>>

TimerForgets ==
    /\ timer = "removing"
    /\ timer' = "none"
    /\ RemoveCount
    /\ UNCHANGED <<diskVars, memState, memVersion, inited, running,
                   soFrom, adds, opVars, pc, obsVars>>

MayDie == pc \in {"idle", "dying"} \/ (MidOpKills /\ pc # "down")

\* Any thread throws while the handler is installed.
UncaughtException ==
    /\ MayDie /\ pc # "dying"
    /\ CountCrash /\ streak' = StreakAfterCrash
    /\ UNCHANGED <<diskVars, procVars, opVars, pc, stored, watch>>

\* The process dies: killProcessSafely, the system, an OutOfMemoryError, the
\* end of an uncaught exception.
Die ==
    /\ MayDie
    /\ pc' = "down" /\ ret' = "idle"
    /\ streak' = StreakAfterCrash /\ watch' = FALSE
    /\ ForgetHandler
    /\ memState' = 0 /\ memVersion' = 0
    /\ inited' = FALSE /\ timer' = "none"
    /\ running' = NoPatch /\ soFrom' = NoLibs /\ adds' = 0
    /\ cand' = NoPatch /\ newVersion' = 0 /\ where' = 0 /\ got' = {}
    /\ todo' = {} /\ stored' = NoPatch
    /\ told' = "none"
    /\ UNCHANGED diskVars

\* Queries are answered from initializeInner's call of NetworkManager on,
\* however the rest of the initialization ends.
QueriesOpen == pc \notin {"down", "initPatchDir", "initLibDir"}

\* The server answers a query with code 18.
ServerClear ==
    /\ QueriesOpen
    /\ clearFlag' = TRUE
    /\ order' = IF order = "none" THEN "given" ELSE order
    /\ UNCHANGED <<jar, lib, dirState, version, appOK, procVars, opVars, pc,
                   crashVars, obsVars>>

\* A query has downloaded a patch; addPatch may never follow.
PatchDownloaded ==
    /\ QueriesOpen
    /\ Withdraw
    /\ UNCHANGED <<jar, lib, dirState, version, appOK, procVars, opVars, pc,
                   crashVars, obsVars>>

\* The user installs another version of the app.
UpgradeApp ==
    /\ pc = "down"
    /\ appOK' = FALSE
    /\ UNCHANGED <<jar, lib, dirState, version, clearVars, procVars, opVars,
                   pc, crashVars, obsVars>>

Starting == \/ StartProcess \/ ClearStandbyPatch \/ ClearStandbyLibs
            \/ CheckApp \/ CheckCrash \/ CheckClear
            \/ HandleLocal \/ EndInit \/ FailInit
Cleaning == \/ CallCleanPatches \/ CleanPatchDir \/ CleanLibDir \/ CleanPrefs
            \/ CleanVersion \/ CleanApp
Adding == \/ \E p \in Patches : QueryAndAdd(p) \/ AddLocal(p)
          \/ \E l \in Libs : AddOpenLib(l) \/ AddFillLib(l)
          \/ AddClear \/ FailAdd \/ AddCopy \/ AddCopied \/ AddRecord
          \/ AddVerify \/ AddUnzipped \/ AddCommit \/ AddDecide
Loading == \/ LoadVerify \/ LoadPrepare \/ LoadArm \/ LoadDex
           \/ LoadPreload \/ LoadDisarm \/ LoadForget \/ FailLoad
           \/ LoadRes \/ LoadSo \/ LoadDone
Environment == \/ TimerFires \/ TimerDisarms \/ TimerForgets
               \/ UncaughtException \/ Die \/ ServerClear \/ PatchDownloaded
               \/ UpgradeApp

Next == Starting \/ Cleaning \/ Adding \/ Loading \/ Environment

Spec == Init /\ [][Next]_vars
-----------------------------------------------------------------------------
(***************************************************************************)
(* Properties.                                                             *)
(***************************************************************************)

\* The memory of the process and the disk name the same current slot.
SlotsAgree == CurrentBit(dirState) = CurrentBit(memState)

\* The next start of the main process makes patch p current, jar and
\* libraries complete.
NextStartHas(p) ==
    /\ jar[NextDir] = Whole(p)
    /\ \A l \in SoOf[p] : lib[NextDir][l] = Whole(p)

\* A patch that addPatch kept is the one the next start will find, complete,
\* as long as the process and the disk agree on the current slot: the order
\* of addPatch's copy, unpack and g() against initPatchDirs' exchange.
StoredIsNext ==
    pc = "idle" /\ stored # NoPatch /\ SlotsAgree => NextStartHas(stored)

\* While addPatch installs a patch and the current slot holds another one,
\* no file of the current slot changes: a process that runs them, or the next
\* start after a crash, still finds the old patch and its libraries.
HoldsAnother == pc \in AddPcs /\ jar[Cur].patch \notin {NoPatch, cand}
CurrentKept ==
    [][HoldsAnother => (jar'[Cur] = jar[Cur] /\ lib'[Cur] = lib[Cur])]_vars

\* No more than CrashLimit processes in a row can die within the first
\* seconds of a patch: the counter that j() writes ahead of the load, the
\* crash handler, the timer and the clean at start, across restarts.
CrashLoopBounded == streak <= CrashLimit

\* cleanPatches leaves nothing for the next start, unless the process still
\* owes an exchange that would bring slot 0 back.
CleanEmptiesStore ==
    pc = "cleanApp" /\ memState # 3 => Loadable = NoPatch

\* The libraries that loadPatch injects are exactly those of the patch it
\* loads, all complete, if no process dies inside an operation and, in debug
\* mode, adds at most one patch.  Injection only compares names, so this rests
\* on what every earlier install, failed install and clean left in the
\* directory.  A second local patch, over an old one, may find an odex at
\* install, and then the names are compared with the libraries of the old one.
LibsOf(p) == [l \in Libs |-> IF l \in SoOf[p] THEN Whole(p) ELSE NoFile]
InjectedLibsMatch ==
    [][soFrom' \notin {soFrom, NoLibs} => soFrom' = LibsOf(cand)]_vars

\* What the next start loads is replaced as a whole, and only by an install
\* or a clean in progress; crashes, restarts and the exchange of the slots
\* leave it alone (module PatchSlot).
Slot == INSTANCE PatchSlot WITH
            slot <- Loadable,
            settled <- pc = "down" \/ (/\ ~SwapPending(dirState)
                                      /\ SlotsAgree
                                      /\ ~(pc \in AddPcs /\ where = Cur)),
            work <- IF pc \in CleanPcs THEN -1
                    ELSE IF pc \in AddPcs THEN cand ELSE 0
AtomicReplacement == Slot!Spec

\* The server's order to clear is carried out by the next start before it
\* looks for a patch: a clean that dies half-way is begun again, and the order
\* is never forgotten with files of the slot left, unless the server itself
\* withdraws it.
PastClear == {"handleLocal", "endInit", "idle"} \cup AddPcs \cup LoadPcs
ClearOrderObeyed == order = "due" => pc \notin PastClear

(***************************************************************************)
(* What the documentation promises and the code does not keep.             *)
(***************************************************************************)

\* SophixManager.java:15 says initialize loads the local patch if there is
\* one; so a patch whose install was reported as done (loaded, or to be loaded
\* after a relaunch) is the one the next start finds.
InstalledIsLoadedNext ==
    pc = "idle" /\ stored # NoPatch /\ told \in {"loaded", "relaunch"}
        => Loadable = stored
=============================================================================
