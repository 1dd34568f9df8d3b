------------------------- MODULE PatchManagerProofs -------------------------
(***************************************************************************)
(* Theorems about PatchManager, for any set of patches, any libraries and  *)
(* any crash limit.                                                        *)
(***************************************************************************)
EXTENDS PatchManager, TLAPS

(***************************************************************************)
(* The operators the state is built from.                                  *)
(***************************************************************************)

\* The file contents the actions write are files; a file that is there holds a
\* patch.
LEMMA FileTypes ==
    /\ NoFile \in File
    /\ NoLibs \in [Libs -> File]
    /\ \A p \in Patches : Whole(p) \in File /\ Torn(p) \in File
    /\ \A f \in File \ {NoFile} : f.patch \in Patches
    /\ \A p \in Patches : p # NoPatch /\ p \in Nat /\ SoOf[p] \subseteq Libs
BY PatchesAssumption
   DEF NoFile, NoLibs, File, PatchOrNone, Whole, Torn, NoPatch

\* What g() and initPatchDirs do to the bits of the directory state.
LEMMA SlotBits ==
    ASSUME NEW s \in 0..3
    PROVE  /\ CurrentBit(s) \in Dirs
           /\ SetPending(s) \in 0..3
           /\ CurrentBit(SetPending(s)) = CurrentBit(s)
           /\ SwapPending(SetPending(s))
           /\ SwapPending(s) => /\ Swapped(s) \in 0..3
                                /\ ~SwapPending(Swapped(s))
                                /\ CurrentBit(Swapped(s)) = Other(CurrentBit(s))
           /\ ~SwapPending(s) => CurrentBit(s) = s
           /\ CurrentBit(0) = 0
<1>1. s = 0 \/ s = 1 \/ s = 2 \/ s = 3
  OBVIOUS
<1>2. CASE s = 0
  BY <1>2 DEF CurrentBit, Dirs, SetPending, SwapPending, Swapped, Other
<1>3. CASE s = 1
  BY <1>3 DEF CurrentBit, Dirs, SetPending, SwapPending, Swapped, Other
<1>4. CASE s = 2
  BY <1>4 DEF CurrentBit, Dirs, SetPending, SwapPending, Swapped, Other
<1>5. CASE s = 3
  BY <1>5 DEF CurrentBit, Dirs, SetPending, SwapPending, Swapped, Other
<1> QED
  BY <1>1, <1>2, <1>3, <1>4, <1>5

(***************************************************************************)
(* Type correctness.                                                       *)
(***************************************************************************)

\* The Boolean variables.
FlagsOK ==
    /\ armed \in BOOLEAN /\ crashed \in BOOLEAN
    /\ appOK \in BOOLEAN /\ clearFlag \in BOOLEAN
    /\ inited \in BOOLEAN /\ watch \in BOOLEAN

\* The flags stay flags (a first-order matter, so apart from the rest).
LEMMA FlagsStep == FlagsOK /\ [Next]_vars => FlagsOK'
<1> SUFFICES ASSUME FlagsOK, [Next]_vars PROVE FlagsOK'
  OBVIOUS
<1> USE DEF FlagsOK, diskVars, clearVars, procVars, obsVars, crashVars
<1>1. CASE Starting
  BY <1>1, Zenon DEF Starting, StartProcess, ClearStandbyPatch, ClearStandbyLibs,
     CheckApp, CheckCrash, CheckClear, HandleLocal, EndInit, FailInit, CountCrash
<1>2. CASE Cleaning
  BY <1>2, Zenon DEF Cleaning, CallCleanPatches, CleanPatchDir, CleanLibDir,
     CleanPrefs, OrderCarriedOut, CleanVersion, CleanApp
<1>3. CASE Adding
  BY <1>3, Zenon DEF Adding, QueryAndAdd, Withdraw, AddLocal, CallAddPatch, AddOpenLib, AddFillLib,
     AddClear, FailAdd, Return, AddCopy, AddCopied, AddRecord, AddVerify, AddUnzipped,
     AddCommit, AddDecide
<1>4. CASE Loading
  BY <1>4, Zenon DEF Loading, LoadVerify, LoadPrepare, LoadArm, LoadDex, LoadPreload,
     LoadDisarm, LoadForget, FailLoad, LoadRes, LoadSo, LoadDone, CountLoad,
     ArmHandler, DisarmHandler, RemoveCount
<1>5. CASE Environment
  BY <1>5, Zenon DEF Environment, TimerFires, TimerDisarms, TimerForgets,
     UncaughtException, Die, ServerClear, UpgradeApp,
     PatchDownloaded, Withdraw, DisarmHandler,
     RemoveCount, CountCrash, ForgetHandler
<1>6. CASE UNCHANGED vars
  BY <1>6, Zenon DEF vars
<1> QED
  BY <1>1, <1>2, <1>3, <1>4, <1>5, <1>6 DEF Next

\* No step of the store, of its callers or of the environment breaks a type.
LEMMA TypeStep == TypeOK /\ [Next]_vars => TypeOK'
<1> SUFFICES ASSUME TypeOK, [Next]_vars PROVE TypeOK'
  OBVIOUS
<1> USE FileTypes DEF TypeOK, CrashTypeOK, DiskTypeOK, ProcTypeOK, OpTypeOK,
                      ObsTypeOK, diskVars, clearVars, procVars, opVars, obsVars,
                      crashVars, PatchOrNone
<1> USE DEF Pcs, InitPcs, CleanPcs, AddPcs, LoadPcs
<1>f. FlagsOK /\ FlagsOK'
  BY FlagsStep DEF FlagsOK
<1> USE <1>f DEF FlagsOK
<1>d. Cur \in Dirs /\ Other(Cur) \in Dirs
  BY SlotBits DEF Cur, Dirs, Other
<1>1. CASE Starting
  <2>1. CASE StartProcess
    BY <2>1, <1>d, SlotBits DEF StartProcess
  <2>2. CASE ClearStandbyPatch
    BY <2>2, <1>d DEF ClearStandbyPatch
  <2>3. CASE ClearStandbyLibs
    BY <2>3, <1>d DEF ClearStandbyLibs, NoPatch
  <2>4. CASE CheckApp
    <3>1. CrashTypeOK'
      BY <2>4, <1>d DEF CheckApp, CallClean
    <3>2. DiskTypeOK'
      BY <2>4, <1>d DEF CheckApp, CallClean
    <3>3. ProcTypeOK'
      BY <2>4, <1>d DEF CheckApp, CallClean
    <3>4. OpTypeOK'
      BY <2>4, <1>d DEF CheckApp, CallClean
    <3>5. ObsTypeOK'
      BY <2>4, <1>d DEF CheckApp, CallClean
    <3> HIDE DEF CrashTypeOK, DiskTypeOK, ProcTypeOK, OpTypeOK, ObsTypeOK
    <3> QED
      BY <3>1, <3>2, <3>3, <3>4, <3>5
  <2>5. CASE CheckCrash
    <3>1. CrashTypeOK'
      BY <2>5, <1>d DEF CheckCrash, CallClean
    <3>2. DiskTypeOK'
      BY <2>5, <1>d DEF CheckCrash, CallClean
    <3>3. ProcTypeOK'
      BY <2>5, <1>d DEF CheckCrash, CallClean
    <3>4. OpTypeOK'
      BY <2>5, <1>d DEF CheckCrash, CallClean
    <3>5. ObsTypeOK'
      BY <2>5, <1>d DEF CheckCrash, CallClean
    <3> HIDE DEF CrashTypeOK, DiskTypeOK, ProcTypeOK, OpTypeOK, ObsTypeOK
    <3> QED
      BY <3>1, <3>2, <3>3, <3>4, <3>5
  <2>6. CASE CheckClear
    <3>1. CrashTypeOK'
      BY <2>6, <1>d DEF CheckClear, CallClean
    <3>2. DiskTypeOK'
      BY <2>6, <1>d DEF CheckClear, CallClean
    <3>3. ProcTypeOK'
      BY <2>6, <1>d DEF CheckClear, CallClean
    <3>4. OpTypeOK'
      BY <2>6, <1>d DEF CheckClear, CallClean
    <3>5. ObsTypeOK'
      BY <2>6, <1>d DEF CheckClear, CallClean
    <3> HIDE DEF CrashTypeOK, DiskTypeOK, ProcTypeOK, OpTypeOK, ObsTypeOK
    <3> QED
      BY <3>1, <3>2, <3>3, <3>4, <3>5
  <2>7. CASE HandleLocal
    <3>0. jar[Cur] # NoFile => jar[Cur].patch \in Patches
      BY <1>d, FileTypes
    <3>1. CrashTypeOK'
      BY <2>7, <3>0, <1>d, FileTypes DEF HandleLocal
    <3>2. DiskTypeOK'
      BY <2>7, <3>0, <1>d, FileTypes DEF HandleLocal
    <3>3. ProcTypeOK'
      BY <2>7, <3>0, <1>d, FileTypes DEF HandleLocal
    <3>4. OpTypeOK'
      BY <2>7, <3>0, <1>d, FileTypes DEF HandleLocal
    <3>5. ObsTypeOK'
      BY <2>7, <3>0, <1>d, FileTypes DEF HandleLocal
    <3> HIDE DEF CrashTypeOK, DiskTypeOK, ProcTypeOK, OpTypeOK, ObsTypeOK
    <3> QED
      BY <3>1, <3>2, <3>3, <3>4, <3>5
  <2>8. CASE EndInit
    BY <2>8, <1>d DEF EndInit
  <2>9. CASE FailInit
    <3>1. CrashTypeOK'
      BY <2>9, <1>d DEF FailInit, CallClean, CountCrash, StreakAfterCrash, CountAfterUse, Unloaded
    <3>2. DiskTypeOK'
      BY <2>9, <1>d DEF FailInit, CallClean, CountCrash, StreakAfterCrash, CountAfterUse, Unloaded
    <3>3. ProcTypeOK'
      BY <2>9, <1>d DEF FailInit, CallClean, CountCrash, StreakAfterCrash, CountAfterUse, Unloaded
    <3>4. OpTypeOK'
      BY <2>9, <1>d DEF FailInit, CallClean, CountCrash, StreakAfterCrash, CountAfterUse, Unloaded
    <3>5. ObsTypeOK'
      BY <2>9, <1>d DEF FailInit, CallClean, CountCrash, StreakAfterCrash, CountAfterUse, Unloaded
    <3> HIDE DEF CrashTypeOK, DiskTypeOK, ProcTypeOK, OpTypeOK, ObsTypeOK
    <3> QED
      BY <3>1, <3>2, <3>3, <3>4, <3>5
  <2> QED
    BY <1>1, <2>1, <2>2, <2>3, <2>4, <2>5, <2>6, <2>7, <2>8, <2>9 DEF Starting
<1>2. CASE Cleaning
  <2>1. CASE CallCleanPatches
    BY <2>1, <1>d DEF CallCleanPatches, CallClean
  <2>2. CASE CleanPatchDir
    BY <2>2, <1>d DEF CleanPatchDir
  <2>3. CASE CleanLibDir
    BY <2>3, <1>d DEF CleanLibDir
  <2>4. CASE CleanPrefs
    <3>1. CrashTypeOK'
      BY <2>4, <1>d DEF CleanPrefs, OrderCarriedOut, NoPatch
    <3>2. DiskTypeOK'
      BY <2>4, <1>d DEF CleanPrefs, OrderCarriedOut, NoPatch
    <3>3. ProcTypeOK'
      BY <2>4, <1>d DEF CleanPrefs, OrderCarriedOut, NoPatch
    <3>4. OpTypeOK'
      BY <2>4, <1>d DEF CleanPrefs, OrderCarriedOut, NoPatch
    <3>5. ObsTypeOK'
      BY <2>4, <1>d DEF CleanPrefs, OrderCarriedOut, NoPatch
    <3> HIDE DEF CrashTypeOK, DiskTypeOK, ProcTypeOK, OpTypeOK, ObsTypeOK
    <3> QED
      BY <3>1, <3>2, <3>3, <3>4, <3>5
  <2>5. CASE CleanVersion
    BY <2>5, <1>d DEF CleanVersion
  <2>6. CASE CleanApp
    BY <2>6, <1>d DEF CleanApp
  <2> QED
    BY <1>2, <2>1, <2>2, <2>3, <2>4, <2>5, <2>6 DEF Cleaning
<1>3. CASE Adding
  <2>1. CASE AddClear
    BY <2>1, <1>d DEF AddClear
  <2>2. CASE FailAdd
    BY <2>2, <1>d DEF FailAdd, Return, NoPatch, Dirs
  <2>3. CASE AddCopy
    BY <2>3, <1>d DEF AddCopy
  <2>4. CASE AddCopied
    BY <2>4, <1>d DEF AddCopied
  <2>5. CASE AddRecord
    BY <2>5, <1>d DEF AddRecord, NoPatch
  <2>6. CASE AddVerify
    BY <2>6, <1>d DEF AddVerify
  <2>7. CASE AddUnzipped
    BY <2>7, <1>d DEF AddUnzipped
  <2>8. CASE AddCommit
    BY <2>8, <1>d, SlotBits DEF AddCommit
  <2>9. CASE AddDecide
    <3>1. CrashTypeOK'
      BY <2>9, <1>d DEF AddDecide, Return, NoPatch, Dirs
    <3>2. DiskTypeOK'
      BY <2>9, <1>d DEF AddDecide, Return, NoPatch, Dirs
    <3>3. ProcTypeOK'
      BY <2>9, <1>d DEF AddDecide, Return, NoPatch, Dirs
    <3>4. OpTypeOK'
      BY <2>9, <1>d DEF AddDecide, Return, NoPatch, Dirs
    <3>5. ObsTypeOK'
      BY <2>9, <1>d DEF AddDecide, Return, NoPatch, Dirs
    <3> HIDE DEF CrashTypeOK, DiskTypeOK, ProcTypeOK, OpTypeOK, ObsTypeOK
    <3> QED
      BY <3>1, <3>2, <3>3, <3>4, <3>5
  <2>10. CASE \E p \in Patches : QueryAndAdd(p) \/ AddLocal(p)
    BY <2>10, <1>d DEF QueryAndAdd, Withdraw, AddLocal, CallAddPatch, TargetDir
  <2>11. CASE \E l \in Libs : AddOpenLib(l) \/ AddFillLib(l)
    <3>0. PICK l \in Libs : AddOpenLib(l) \/ AddFillLib(l)
      BY <2>11
    <3>p. pc = "addUnzip" /\ cand \in Patches
      BY <3>0 DEF AddOpenLib, AddFillLib
    <3>l. \A f \in File : [lib[where] EXCEPT ![l] = f] \in [Libs -> File]
      OBVIOUS
    <3>1. CrashTypeOK'
      BY <2>11, <3>0, <3>p, <3>l DEF AddOpenLib, AddFillLib
    <3>2. DiskTypeOK'
      BY <3>0, <3>p, <3>l, SMTT(60) DEF AddOpenLib, AddFillLib
    <3>3. ProcTypeOK'
      BY <2>11, <3>0, <3>p, <3>l DEF AddOpenLib, AddFillLib
    <3>4. OpTypeOK'
      BY <2>11, <3>0, <3>p, <3>l DEF AddOpenLib, AddFillLib
    <3>5. ObsTypeOK'
      BY <2>11, <3>0, <3>p, <3>l DEF AddOpenLib, AddFillLib
    <3> HIDE DEF CrashTypeOK, DiskTypeOK, ProcTypeOK, OpTypeOK, ObsTypeOK
    <3> QED
      BY <3>1, <3>2, <3>3, <3>4, <3>5
  <2> QED
    BY <1>3, <2>1, <2>2, <2>3, <2>4, <2>5, <2>6, <2>7, <2>8, <2>9, <2>10, <2>11 DEF Adding
<1>4. CASE Loading
  <2>1. CASE LoadVerify
    <3>1. CrashTypeOK'
      BY <2>1, <1>d DEF LoadVerify, EndLoad, Return, NoPatch, Dirs
    <3>2. DiskTypeOK'
      BY <2>1, <1>d DEF LoadVerify, EndLoad, Return, NoPatch, Dirs
    <3>3. ProcTypeOK'
      BY <2>1, <1>d DEF LoadVerify, EndLoad, Return, NoPatch, Dirs
    <3>4. OpTypeOK'
      BY <2>1, <1>d DEF LoadVerify, EndLoad, Return, NoPatch, Dirs
    <3>5. ObsTypeOK'
      BY <2>1, <1>d DEF LoadVerify, EndLoad, Return, NoPatch, Dirs
    <3> HIDE DEF CrashTypeOK, DiskTypeOK, ProcTypeOK, OpTypeOK, ObsTypeOK
    <3> QED
      BY <3>1, <3>2, <3>3, <3>4, <3>5
  <2>2. CASE LoadPrepare
    BY <2>2, <1>d DEF LoadPrepare, CountLoad
  <2>3. CASE LoadArm
    BY <2>3, <1>d DEF LoadArm, ArmHandler, CountAfterUse
  <2>4. CASE LoadDex
    <3>1. CrashTypeOK'
      BY <2>4, <1>d DEF LoadDex
    <3>2. DiskTypeOK'
      BY <2>4, <1>d DEF LoadDex
    <3>3. ProcTypeOK'
      BY <2>4, <1>d DEF LoadDex
    <3>4. OpTypeOK'
      BY <2>4, <1>d DEF LoadDex
    <3>5. ObsTypeOK'
      BY <2>4, <1>d DEF LoadDex
    <3> HIDE DEF CrashTypeOK, DiskTypeOK, ProcTypeOK, OpTypeOK, ObsTypeOK
    <3> QED
      BY <3>1, <3>2, <3>3, <3>4, <3>5
  <2>5. CASE LoadPreload
    BY <2>5, <1>d DEF LoadPreload
  <2>6. CASE LoadDisarm
    BY <2>6, <1>d DEF LoadDisarm, DisarmHandler
  <2>7. CASE LoadForget
    BY <2>7, <1>d DEF LoadForget, RemoveCount
  <2>8. CASE FailLoad
    BY <2>8, <1>d DEF FailLoad, EndLoad, Return, NoPatch, Dirs
  <2>9. CASE LoadRes
    <3>1. CrashTypeOK'
      BY <2>9, <1>d DEF LoadRes
    <3>2. DiskTypeOK'
      BY <2>9, <1>d DEF LoadRes
    <3>3. ProcTypeOK'
      BY <2>9, <1>d DEF LoadRes
    <3>4. OpTypeOK'
      BY <2>9, <1>d DEF LoadRes
    <3>5. ObsTypeOK'
      BY <2>9, <1>d DEF LoadRes
    <3> HIDE DEF CrashTypeOK, DiskTypeOK, ProcTypeOK, OpTypeOK, ObsTypeOK
    <3> QED
      BY <3>1, <3>2, <3>3, <3>4, <3>5
  <2>10. CASE LoadSo
    <3>1. CrashTypeOK'
      BY <2>10, <1>d DEF LoadSo
    <3>2. DiskTypeOK'
      BY <2>10, <1>d DEF LoadSo
    <3>3. ProcTypeOK'
      BY <2>10, <1>d DEF LoadSo
    <3>4. OpTypeOK'
      BY <2>10, <1>d DEF LoadSo
    <3>5. ObsTypeOK'
      BY <2>10, <1>d DEF LoadSo
    <3> HIDE DEF CrashTypeOK, DiskTypeOK, ProcTypeOK, OpTypeOK, ObsTypeOK
    <3> QED
      BY <3>1, <3>2, <3>3, <3>4, <3>5
  <2>11. CASE LoadDone
    BY <2>11, <1>d DEF LoadDone, EndLoad, Return, NoPatch, Dirs
  <2> QED
    BY <1>4, <2>1, <2>2, <2>3, <2>4, <2>5, <2>6, <2>7, <2>8, <2>9, <2>10, <2>11 DEF Loading
<1>5. CASE Environment
  <2>1. CASE TimerFires
    BY <2>1, <1>d DEF TimerFires, CountAfterUse
  <2>2. CASE TimerDisarms
    BY <2>2, <1>d DEF TimerDisarms, DisarmHandler
  <2>3. CASE TimerForgets
    BY <2>3, <1>d DEF TimerForgets, RemoveCount
  <2>4. CASE UncaughtException
    <3>1. CrashTypeOK'
      BY <2>4, <1>d DEF UncaughtException, CountCrash, StreakAfterCrash, Unloaded
    <3>2. DiskTypeOK'
      BY <2>4, <1>d DEF UncaughtException, CountCrash, StreakAfterCrash, Unloaded
    <3>3. ProcTypeOK'
      BY <2>4, <1>d DEF UncaughtException, CountCrash, StreakAfterCrash, Unloaded
    <3>4. OpTypeOK'
      BY <2>4, <1>d DEF UncaughtException, CountCrash, StreakAfterCrash, Unloaded
    <3>5. ObsTypeOK'
      BY <2>4, <1>d DEF UncaughtException, CountCrash, StreakAfterCrash, Unloaded
    <3> HIDE DEF CrashTypeOK, DiskTypeOK, ProcTypeOK, OpTypeOK, ObsTypeOK
    <3> QED
      BY <3>1, <3>2, <3>3, <3>4, <3>5
  <2>5. CASE Die
    <3>1. CrashTypeOK'
      BY <2>5, <1>d DEF Die, ForgetHandler, StreakAfterCrash, Unloaded, NoPatch, Dirs
    <3>2. DiskTypeOK'
      BY <2>5, <1>d DEF Die, ForgetHandler, StreakAfterCrash, Unloaded, NoPatch, Dirs
    <3>3. ProcTypeOK'
      BY <2>5, <1>d DEF Die, ForgetHandler, StreakAfterCrash, Unloaded, NoPatch, Dirs
    <3>4. OpTypeOK'
      BY <2>5, <1>d DEF Die, ForgetHandler, StreakAfterCrash, Unloaded, NoPatch, Dirs
    <3>5. ObsTypeOK'
      BY <2>5, <1>d DEF Die, ForgetHandler, StreakAfterCrash, Unloaded, NoPatch, Dirs
    <3> HIDE DEF CrashTypeOK, DiskTypeOK, ProcTypeOK, OpTypeOK, ObsTypeOK
    <3> QED
      BY <3>1, <3>2, <3>3, <3>4, <3>5
  <2>6. CASE ServerClear
    BY <2>6, <1>d DEF ServerClear
  <2>7. CASE UpgradeApp
    BY <2>7, <1>d DEF UpgradeApp
  <2>8. CASE PatchDownloaded
    BY <2>8, <1>d DEF PatchDownloaded, Withdraw
  <2> QED
    BY <1>5, <2>1, <2>2, <2>3, <2>4, <2>5, <2>6, <2>7, <2>8 DEF Environment
<1>6. CASE UNCHANGED vars
  BY <1>6 DEF vars
<1> QED
  BY <1>1, <1>2, <1>3, <1>4, <1>5, <1>6 DEF Next

\* A fresh installation of the app is well typed.
LEMMA TypeInit == Init => TypeOK
<1> SUFFICES ASSUME Init PROVE TypeOK
  OBVIOUS
<1>f. FlagsOK
  BY Zenon DEF Init, CrashInit, FlagsOK
<1> USE <1>f DEF FlagsOK
<1> USE FileTypes DEF Init, PatchOrNone, NoPatch, Dirs
<1>1. CrashTypeOK
  BY DEF CrashInit, CrashTypeOK
<1>2. DiskTypeOK
  BY DEF DiskTypeOK
<1>3. ProcTypeOK
  BY DEF ProcTypeOK
<1>4. OpTypeOK
  BY DEF OpTypeOK, Pcs, AddPcs, LoadPcs
<1>5. ObsTypeOK
  BY DEF ObsTypeOK
<1> QED
  BY <1>1, <1>2, <1>3, <1>4, <1>5 DEF TypeOK

\* Every variable keeps its type; in particular the directory state never
\* leaves 0..3 and an operation in progress always handles a real patch.
THEOREM TypeCorrect == Spec => []TypeOK
<1>1. Init => TypeOK
  BY TypeInit
<1>2. TypeOK /\ [Next]_vars => TypeOK'
  BY TypeStep
<1> QED
  BY <1>1, <1>2, PTL DEF Spec

(***************************************************************************)
(* The crash loop.  The stored counter is never behind the streak; a clean *)
(* resets the streak before it removes the counter, and so does k(); and a *)
(* start that got past handleLocalPatch's test has room for one more.      *)
(***************************************************************************)

\* The patch has gone, the counter may have gone too.
Cleaned == pc \in {"cleanLibs", "cleanPrefs", "cleanVersion", "cleanApp"}

\* The start is past the test of the counter.
Checked == \/ pc \in {"checkClear", "handleLocal"}
           \/ pc \in CleanPcs /\ ret = "handleLocal"
           \/ pc \in LoadPcs /\ ret = "endInit"

\* The start has not posted k() yet.
NotPosted == \/ pc \in InitPcs \cup {"down"}
             \/ pc \in CleanPcs \cup LoadPcs /\ ret # "idle"

\* The process may still add one to the streak.
OnWatch == watch /\ ~crashed

CrashInv ==
    /\ streak <= CrashLimit
    /\ streak <= crashNum
    /\ OnWatch => streak < crashNum
    /\ count # Unloaded => streak <= count
    /\ armed => count # Unloaded
    /\ OnWatch \/ (Checked /\ ~crashed) => streak < CrashLimit
    /\ Cleaned \/ pc = "loadForget" \/ timer = "removing" => streak = 0 /\ ~watch
    /\ NotPosted => timer = "none"
    /\ pc \in AddPcs => ret = "idle"
    /\ pc \in LoadPcs => ret \in {"idle", "endInit"}
    /\ pc \in CleanPcs => ret \in {"idle", "checkCrash", "checkClear", "handleLocal"}

\* No step takes the counter below the streak, or the streak over the limit.
LEMMA CrashStep == TypeOK /\ CrashInv /\ [Next]_vars => CrashInv'
<1> SUFFICES ASSUME TypeOK, CrashInv, [Next]_vars PROVE CrashInv'
  OBVIOUS
<1>t. /\ crashNum \in Nat /\ streak \in Nat /\ count \in Nat \cup {-1}
      /\ armed \in BOOLEAN /\ crashed \in BOOLEAN /\ watch \in BOOLEAN
      /\ pc \in Pcs /\ CrashLimit \in Nat \ {0}
  BY SettingsAssumption
     DEF TypeOK, CrashTypeOK, ObsTypeOK, OpTypeOK, Unloaded
<1> USE <1>t DEF CrashInv, Cleaned, Checked, NotPosted, OnWatch, Unloaded,
                 diskVars, clearVars, procVars, opVars, obsVars, crashVars
<1> USE DEF Pcs, InitPcs, CleanPcs, AddPcs, LoadPcs
<1>1. CASE Starting
  <2>1. CASE StartProcess
    BY <2>1 DEF StartProcess
  <2>2. CASE ClearStandbyPatch
    BY <2>2 DEF ClearStandbyPatch
  <2>3. CASE ClearStandbyLibs
    BY <2>3 DEF ClearStandbyLibs
  <2>4. CASE CheckApp
    BY <2>4 DEF CheckApp, CallClean
  <2>5. CASE CheckCrash
    BY <2>5 DEF CheckCrash, CallClean, TooManyCrashes
  <2>6. CASE CheckClear
    BY <2>6 DEF CheckClear, CallClean, ClearWanted
  <2>7. CASE HandleLocal
    BY <2>7 DEF HandleLocal
  <2>8. CASE EndInit
    BY <2>8 DEF EndInit
  <2>9. CASE FailInit
    BY <2>9 DEF FailInit, CallClean, CountCrash, StreakAfterCrash, CountAfterUse
  <2> QED
    BY <1>1, <2>1, <2>2, <2>3, <2>4, <2>5, <2>6, <2>7, <2>8, <2>9 DEF Starting
<1>2. CASE Cleaning
  <2>1. CASE CallCleanPatches
    BY <2>1 DEF CallCleanPatches, CallClean
  <2>2. CASE CleanPatchDir
    BY <2>2 DEF CleanPatchDir
  <2>3. CASE CleanLibDir
    BY <2>3 DEF CleanLibDir
  <2>4. CASE CleanPrefs
    BY <2>4 DEF CleanPrefs, OrderCarriedOut
  <2>5. CASE CleanVersion
    BY <2>5 DEF CleanVersion
  <2>6. CASE CleanApp
    BY <2>6 DEF CleanApp
  <2> QED
    BY <1>2, <2>1, <2>2, <2>3, <2>4, <2>5, <2>6 DEF Cleaning
<1>3. CASE Adding
  <2>1. CASE AddClear
    BY <2>1 DEF AddClear
  <2>2. CASE FailAdd
    BY <2>2 DEF FailAdd, Return
  <2>3. CASE AddCopy
    BY <2>3 DEF AddCopy
  <2>4. CASE AddCopied
    BY <2>4 DEF AddCopied
  <2>5. CASE AddRecord
    BY <2>5 DEF AddRecord
  <2>6. CASE AddVerify
    BY <2>6 DEF AddVerify
  <2>7. CASE AddUnzipped
    BY <2>7 DEF AddUnzipped
  <2>8. CASE AddCommit
    BY <2>8 DEF AddCommit
  <2>9. CASE AddDecide
    BY <2>9 DEF AddDecide, Return
  <2>10. CASE \E p \in Patches : QueryAndAdd(p) \/ AddLocal(p)
    BY <2>10 DEF QueryAndAdd, Withdraw, AddLocal, CallAddPatch
  <2>11. CASE \E l \in Libs : AddOpenLib(l) \/ AddFillLib(l)
    BY <2>11 DEF AddOpenLib, AddFillLib
  <2> QED
    BY <1>3, <2>1, <2>2, <2>3, <2>4, <2>5, <2>6, <2>7, <2>8, <2>9, <2>10, <2>11 DEF Adding
<1>4. CASE Loading
  <2>1. CASE LoadVerify
    BY <2>1 DEF LoadVerify, EndLoad, Return
  <2>2. CASE LoadPrepare
    BY <2>2 DEF LoadPrepare, CountLoad
  <2>3. CASE LoadArm
    BY <2>3 DEF LoadArm, ArmHandler, CountAfterUse
  <2>4. CASE LoadDex
    BY <2>4 DEF LoadDex
  <2>5. CASE LoadPreload
    BY <2>5 DEF LoadPreload
  <2>6. CASE LoadDisarm
    BY <2>6 DEF LoadDisarm, DisarmHandler
  <2>7. CASE LoadForget
    BY <2>7 DEF LoadForget, RemoveCount
  <2>8. CASE FailLoad
    BY <2>8 DEF FailLoad, EndLoad, Return
  <2>9. CASE LoadRes
    BY <2>9 DEF LoadRes
  <2>10. CASE LoadSo
    BY <2>10 DEF LoadSo
  <2>11. CASE LoadDone
    BY <2>11 DEF LoadDone, EndLoad, Return
  <2> QED
    BY <1>4, <2>1, <2>2, <2>3, <2>4, <2>5, <2>6, <2>7, <2>8, <2>9, <2>10, <2>11 DEF Loading
<1>5. CASE Environment
  <2>1. CASE TimerFires
    BY <2>1 DEF TimerFires, CountAfterUse
  <2>2. CASE TimerDisarms
    BY <2>2 DEF TimerDisarms, DisarmHandler
  <2>3. CASE TimerForgets
    BY <2>3 DEF TimerForgets, RemoveCount
  <2>4. CASE UncaughtException
    BY <2>4 DEF UncaughtException, CountCrash, StreakAfterCrash
  <2>5. CASE Die
    BY <2>5 DEF Die, ForgetHandler, StreakAfterCrash
  <2>6. CASE ServerClear
    BY <2>6 DEF ServerClear
  <2>7. CASE UpgradeApp
    BY <2>7 DEF UpgradeApp
  <2>8. CASE PatchDownloaded
    BY <2>8 DEF PatchDownloaded, Withdraw
  <2> QED
    BY <1>5, <2>1, <2>2, <2>3, <2>4, <2>5, <2>6, <2>7, <2>8 DEF Environment
<1>6. CASE UNCHANGED vars
  BY <1>6 DEF vars
<1> QED
  BY <1>1, <1>2, <1>3, <1>4, <1>5, <1>6 DEF Next

\* A fresh installation has counted no crash.
LEMMA CrashStart == Init => CrashInv
BY SettingsAssumption DEF Init, CrashInit, CrashInv, Cleaned, Checked, NotPosted, OnWatch,
   InitPcs, CleanPcs, LoadPcs, AddPcs, Unloaded

\* No more than CrashLimit processes in a row crash, or die within the first
\* seconds, on a patch: handleLocalPatch's test of the counter that j() wrote.
THEOREM CrashBound == Spec => []CrashLoopBounded
<1>1. Init => TypeOK /\ CrashInv
  BY TypeInit, CrashStart
<1>2. TypeOK /\ CrashInv /\ [Next]_vars => (TypeOK /\ CrashInv)'
  BY TypeStep, CrashStep
<1>3. CrashInv => CrashLoopBounded
  BY DEF CrashInv, CrashLoopBounded
<1> QED
  BY <1>1, <1>2, <1>3, PTL DEF Spec

(***************************************************************************)
(* The two slots.                                                          *)
(***************************************************************************)

\* The directory state on disk is the one in memory, or was reset by a clean.
StatesAgree ==
    /\ pc # "down" => dirState \in {memState, 0}
    /\ pc = "initPatchDir" => dirState = memState /\ ~SwapPending(memState)
    /\ pc \in {"cleanVersion", "cleanApp"} => dirState = 0

\* With no exchange pending, the standby slot is empty outside an install.
StandbyInUse == \/ pc \in {"down", "initPatchDir"} \/ SwapPending(memState)
                \/ pc \in AddPcs /\ where # Cur
StandbyEmpty == ~StandbyInUse => jar[Other(Cur)] = NoFile

\* A pending exchange spares a current patch; only a clean takes it away.
CurrentThere ==
    /\ Cleaned => jar[Cur] = NoFile
    /\ pc # "down" /\ SwapPending(dirState)
        => jar[Cur] # NoFile \/ pc \in {"cleanLibs", "cleanPrefs"}

\* How far an install got.
InstallProgress ==
    /\ pc \in AddPcs /\ where # Cur => jar[Cur] # NoFile
    /\ pc \in AddPcs /\ where = Cur =>
          jar[where].patch \in {NoPatch, cand} /\ ~SwapPending(dirState)
    /\ pc \in {"addUnzip", "addCommit", "addDecide"} => jar[where] = Whole(cand)
    /\ pc \in {"addCommit", "addDecide"} =>
          \A l \in SoOf[cand] : lib[where][l] = Whole(cand)
    /\ pc = "addDecide" /\ where # Cur =>
          SwapPending(memState) /\ dirState = memState

SlotInv == StatesAgree /\ StandbyEmpty /\ CurrentThere /\ InstallProgress

\* The patch that addPatch has installed, or is loading, is safe.
StoredInv ==
    /\ NotPosted \/ Cleaned => stored = NoPatch
    /\ pc \notin AddPcs \cup LoadPcs /\ stored # NoPatch /\ SlotsAgree
          => NextStartHas(stored)
    /\ pc \in LoadPcs /\ ret = "idle" /\ SlotsAgree => NextStartHas(cand)

\* What a jar or a library tells a start about itself.
LEMMA FileFacts ==
    /\ NoFile.patch = NoPatch
    /\ \A p \in Patches : /\ Whole(p).patch = p /\ Torn(p).patch = p
                          /\ Whole(p) # NoFile /\ Torn(p) # NoFile
                          /\ Whole(p).whole /\ ~Torn(p).whole
    /\ ~NoFile.whole
BY FileTypes DEF NoFile, Whole, Torn

\* Every step keeps the two slots and the directory state in agreement.
LEMMA SlotStep == TypeOK /\ CrashInv /\ SlotInv /\ [Next]_vars => SlotInv'
<1> SUFFICES ASSUME TypeOK, CrashInv, SlotInv, [Next]_vars PROVE SlotInv'
  OBVIOUS
<1>t. /\ jar \in [Dirs -> File] /\ lib \in [Dirs -> [Libs -> File]]
      /\ dirState \in 0..3 /\ memState \in 0..3 /\ where \in Dirs
      /\ pc \in Pcs /\ (pc \in AddPcs => cand \in Patches)
      /\ todo \subseteq Libs
      /\ ret \in {"idle", "checkCrash", "checkClear", "handleLocal", "endInit"}
      /\ pc \in CleanPcs => ret \in {"idle", "checkCrash", "checkClear", "handleLocal"}
      /\ pc \in LoadPcs => ret \in {"idle", "endInit"}
  BY DEF TypeOK, DiskTypeOK, ProcTypeOK, OpTypeOK, CrashInv
<1>d. /\ Cur \in Dirs /\ Other(Cur) \in Dirs /\ Other(Cur) # Cur
      /\ where = Cur \/ where = Other(Cur)
  BY <1>t, SlotBits DEF Cur, Dirs, Other
<1>z. ~SwapPending(0)
  BY DEF SwapPending
<1> USE <1>t, <1>d, <1>z, FileTypes, FileFacts
    DEF SlotInv, StatesAgree, StandbyInUse, StandbyEmpty, CurrentThere,
        InstallProgress, Cleaned, Cur, diskVars, clearVars, procVars, opVars
<1> USE DEF Pcs, InitPcs, CleanPcs, AddPcs, LoadPcs
<1>1. CASE Starting
  <2>1. CASE StartProcess
    <3>1. StatesAgree'
      BY <2>1, SlotBits DEF StartProcess
    <3>2. StandbyEmpty'
      BY <2>1, SlotBits DEF StartProcess
    <3>3. CurrentThere'
      BY <2>1, SlotBits DEF StartProcess
    <3>4. InstallProgress'
      BY <2>1, SlotBits DEF StartProcess
    <3> QED
      BY <3>1, <3>2, <3>3, <3>4
  <2>2. CASE ClearStandbyPatch
    <3>1. StatesAgree'
      BY <2>2 DEF ClearStandbyPatch
    <3>2. StandbyEmpty'
      BY <2>2 DEF ClearStandbyPatch
    <3>3. CurrentThere'
      BY <2>2 DEF ClearStandbyPatch
    <3>4. InstallProgress'
      BY <2>2 DEF ClearStandbyPatch
    <3> QED
      BY <3>1, <3>2, <3>3, <3>4
  <2>3. CASE ClearStandbyLibs
    BY <2>3 DEF ClearStandbyLibs
  <2>4. CASE CheckApp
    BY <2>4 DEF CheckApp, CallClean
  <2>5. CASE CheckCrash
    BY <2>5 DEF CheckCrash, CallClean
  <2>6. CASE CheckClear
    BY <2>6 DEF CheckClear, CallClean
  <2>7. CASE HandleLocal
    <3>1. StatesAgree'
      BY <2>7 DEF HandleLocal
    <3>2. StandbyEmpty'
      BY <2>7 DEF HandleLocal
    <3>3. CurrentThere'
      BY <2>7 DEF HandleLocal
    <3>4. InstallProgress'
      BY <2>7 DEF HandleLocal
    <3> QED
      BY <3>1, <3>2, <3>3, <3>4
  <2>8. CASE EndInit
    BY <2>8 DEF EndInit
  <2>9. CASE FailInit
    <3>1. StatesAgree'
      BY <2>9 DEF FailInit, CallClean, CountCrash, StreakAfterCrash, CountAfterUse
    <3>2. StandbyEmpty'
      BY <2>9 DEF FailInit, CallClean, CountCrash, StreakAfterCrash, CountAfterUse
    <3>3. CurrentThere'
      BY <2>9 DEF FailInit, CallClean, CountCrash, StreakAfterCrash, CountAfterUse
    <3>4. InstallProgress'
      BY <2>9 DEF FailInit, CallClean, CountCrash, StreakAfterCrash, CountAfterUse
    <3> QED
      BY <3>1, <3>2, <3>3, <3>4
  <2> QED
    BY <1>1, <2>1, <2>2, <2>3, <2>4, <2>5, <2>6, <2>7, <2>8, <2>9 DEF Starting
<1>2. CASE Cleaning
  <2>1. CASE CallCleanPatches
    BY <2>1 DEF CallCleanPatches, CallClean
  <2>2. CASE CleanPatchDir
    <3>1. StatesAgree'
      BY <2>2 DEF CleanPatchDir
    <3>2. StandbyEmpty'
      BY <2>2 DEF CleanPatchDir
    <3>3. CurrentThere'
      BY <2>2 DEF CleanPatchDir
    <3>4. InstallProgress'
      BY <2>2 DEF CleanPatchDir
    <3> QED
      BY <3>1, <3>2, <3>3, <3>4
  <2>3. CASE CleanLibDir
    <3>1. StatesAgree'
      BY <2>3 DEF CleanLibDir
    <3>2. StandbyEmpty'
      BY <2>3 DEF CleanLibDir
    <3>3. CurrentThere'
      BY <2>3 DEF CleanLibDir
    <3>4. InstallProgress'
      BY <2>3 DEF CleanLibDir
    <3> QED
      BY <3>1, <3>2, <3>3, <3>4
  <2>4. CASE CleanPrefs
    <3>1. StatesAgree'
      BY <2>4, SlotBits DEF CleanPrefs, OrderCarriedOut
    <3>2. StandbyEmpty'
      BY <2>4, SlotBits DEF CleanPrefs, OrderCarriedOut
    <3>3. CurrentThere'
      BY <2>4, SlotBits DEF CleanPrefs, OrderCarriedOut
    <3>4. InstallProgress'
      BY <2>4, SlotBits DEF CleanPrefs, OrderCarriedOut
    <3> QED
      BY <3>1, <3>2, <3>3, <3>4
  <2>5. CASE CleanVersion
    BY <2>5 DEF CleanVersion
  <2>6. CASE CleanApp
    <3>1. StatesAgree'
      BY <2>6 DEF CleanApp
    <3>2. StandbyEmpty'
      BY <2>6 DEF CleanApp
    <3>3. CurrentThere'
      BY <2>6 DEF CleanApp
    <3>4. InstallProgress'
      BY <2>6 DEF CleanApp
    <3> QED
      BY <3>1, <3>2, <3>3, <3>4
  <2> QED
    BY <1>2, <2>1, <2>2, <2>3, <2>4, <2>5, <2>6 DEF Cleaning
<1>3. CASE Adding
  <2>1. CASE AddClear
    <3>1. StatesAgree'
      BY <2>1 DEF AddClear
    <3>2. StandbyEmpty'
      BY <2>1 DEF AddClear
    <3>3. CurrentThere'
      BY <2>1 DEF AddClear
    <3>4. InstallProgress'
      BY <2>1 DEF AddClear
    <3> QED
      BY <3>1, <3>2, <3>3, <3>4
  <2>2. CASE FailAdd
    <3>1. StatesAgree'
      BY <2>2 DEF FailAdd, Return
    <3>2. StandbyEmpty'
      BY <2>2 DEF FailAdd, Return
    <3>3. CurrentThere'
      BY <2>2 DEF FailAdd, Return
    <3>4. InstallProgress'
      BY <2>2 DEF FailAdd, Return
    <3> QED
      BY <3>1, <3>2, <3>3, <3>4
  <2>3. CASE AddCopy
    <3>1. StatesAgree'
      BY <2>3 DEF AddCopy
    <3>2. StandbyEmpty'
      BY <2>3 DEF AddCopy
    <3>3. CurrentThere'
      BY <2>3 DEF AddCopy
    <3>4. InstallProgress'
      BY <2>3 DEF AddCopy
    <3> QED
      BY <3>1, <3>2, <3>3, <3>4
  <2>4. CASE AddCopied
    <3>1. StatesAgree'
      BY <2>4 DEF AddCopied
    <3>2. StandbyEmpty'
      BY <2>4 DEF AddCopied
    <3>3. CurrentThere'
      BY <2>4 DEF AddCopied
    <3>4. InstallProgress'
      BY <2>4 DEF AddCopied
    <3> QED
      BY <3>1, <3>2, <3>3, <3>4
  <2>5. CASE AddRecord
    BY <2>5 DEF AddRecord
  <2>6. CASE AddVerify
    <3>1. StatesAgree'
      BY <2>6 DEF AddVerify
    <3>2. StandbyEmpty'
      BY <2>6 DEF AddVerify
    <3>3. CurrentThere'
      BY <2>6 DEF AddVerify
    <3>4. InstallProgress'
      BY <2>6 DEF AddVerify
    <3> QED
      BY <3>1, <3>2, <3>3, <3>4
  <2>7. CASE AddUnzipped
    <3>1. StatesAgree'
      BY <2>7 DEF AddUnzipped, OpenedAreWhole
    <3>2. StandbyEmpty'
      BY <2>7 DEF AddUnzipped, OpenedAreWhole
    <3>3. CurrentThere'
      BY <2>7 DEF AddUnzipped, OpenedAreWhole
    <3>4. InstallProgress'
      BY <2>7 DEF AddUnzipped, OpenedAreWhole
    <3> QED
      BY <3>1, <3>2, <3>3, <3>4
  <2>8. CASE AddCommit
    <3>1. StatesAgree'
      BY <2>8, SlotBits DEF AddCommit
    <3>2. StandbyEmpty'
      BY <2>8, SlotBits DEF AddCommit
    <3>3. CurrentThere'
      BY <2>8, SlotBits DEF AddCommit
    <3>4. InstallProgress'
      BY <2>8, SlotBits DEF AddCommit
    <3> QED
      BY <3>1, <3>2, <3>3, <3>4
  <2>9. CASE AddDecide
    <3>1. StatesAgree'
      BY <2>9 DEF AddDecide, Return
    <3>2. StandbyEmpty'
      BY <2>9 DEF AddDecide, Return
    <3>3. CurrentThere'
      BY <2>9 DEF AddDecide, Return
    <3>4. InstallProgress'
      BY <2>9 DEF AddDecide, Return
    <3> QED
      BY <3>1, <3>2, <3>3, <3>4
  <2>10. CASE \E p \in Patches : QueryAndAdd(p) \/ AddLocal(p)
    <3>1. StatesAgree'
      BY <2>10 DEF QueryAndAdd, Withdraw, AddLocal, CallAddPatch, TargetDir
    <3>2. StandbyEmpty'
      BY <2>10 DEF QueryAndAdd, Withdraw, AddLocal, CallAddPatch, TargetDir
    <3>3. CurrentThere'
      BY <2>10 DEF QueryAndAdd, Withdraw, AddLocal, CallAddPatch, TargetDir
    <3>4. InstallProgress'
      BY <2>10 DEF QueryAndAdd, Withdraw, AddLocal, CallAddPatch, TargetDir
    <3> QED
      BY <3>1, <3>2, <3>3, <3>4
  <2>11. CASE \E l \in Libs : AddOpenLib(l) \/ AddFillLib(l)
    <3>1. StatesAgree'
      BY <2>11 DEF AddOpenLib, AddFillLib
    <3>2. StandbyEmpty'
      BY <2>11 DEF AddOpenLib, AddFillLib
    <3>3. CurrentThere'
      BY <2>11 DEF AddOpenLib, AddFillLib
    <3>4. InstallProgress'
      BY <2>11 DEF AddOpenLib, AddFillLib
    <3> QED
      BY <3>1, <3>2, <3>3, <3>4
  <2> QED
    BY <1>3, <2>1, <2>2, <2>3, <2>4, <2>5, <2>6, <2>7, <2>8, <2>9, <2>10, <2>11 DEF Adding
<1>4. CASE Loading
  <2>1. CASE LoadVerify
    <3>1. StatesAgree'
      BY <2>1 DEF LoadVerify, EndLoad, Return
    <3>2. StandbyEmpty'
      BY <2>1 DEF LoadVerify, EndLoad, Return
    <3>3. CurrentThere'
      BY <2>1 DEF LoadVerify, EndLoad, Return
    <3>4. InstallProgress'
      BY <2>1 DEF LoadVerify, EndLoad, Return
    <3> QED
      BY <3>1, <3>2, <3>3, <3>4
  <2>2. CASE LoadPrepare
    BY <2>2 DEF LoadPrepare, CountLoad
  <2>3. CASE LoadArm
    BY <2>3 DEF LoadArm, ArmHandler, CountAfterUse
  <2>4. CASE LoadDex
    BY <2>4 DEF LoadDex
  <2>5. CASE LoadPreload
    BY <2>5 DEF LoadPreload
  <2>6. CASE LoadDisarm
    BY <2>6 DEF LoadDisarm, DisarmHandler
  <2>7. CASE LoadForget
    BY <2>7 DEF LoadForget, RemoveCount
  <2>8. CASE FailLoad
    <3>1. StatesAgree'
      BY <2>8 DEF FailLoad, EndLoad, Return
    <3>2. StandbyEmpty'
      BY <2>8 DEF FailLoad, EndLoad, Return
    <3>3. CurrentThere'
      BY <2>8 DEF FailLoad, EndLoad, Return
    <3>4. InstallProgress'
      BY <2>8 DEF FailLoad, EndLoad, Return
    <3> QED
      BY <3>1, <3>2, <3>3, <3>4
  <2>9. CASE LoadRes
    BY <2>9 DEF LoadRes
  <2>10. CASE LoadSo
    BY <2>10 DEF LoadSo
  <2>11. CASE LoadDone
    <3>1. StatesAgree'
      BY <2>11 DEF LoadDone, EndLoad, Return
    <3>2. StandbyEmpty'
      BY <2>11 DEF LoadDone, EndLoad, Return
    <3>3. CurrentThere'
      BY <2>11 DEF LoadDone, EndLoad, Return
    <3>4. InstallProgress'
      BY <2>11 DEF LoadDone, EndLoad, Return
    <3> QED
      BY <3>1, <3>2, <3>3, <3>4
  <2> QED
    BY <1>4, <2>1, <2>2, <2>3, <2>4, <2>5, <2>6, <2>7, <2>8, <2>9, <2>10, <2>11 DEF Loading
<1>5. CASE Environment
  <2>1. CASE TimerFires
    BY <2>1 DEF TimerFires, CountAfterUse
  <2>2. CASE TimerDisarms
    BY <2>2 DEF TimerDisarms, DisarmHandler
  <2>3. CASE TimerForgets
    BY <2>3 DEF TimerForgets, RemoveCount
  <2>4. CASE UncaughtException
    BY <2>4 DEF UncaughtException, CountCrash, StreakAfterCrash
  <2>5. CASE Die
    BY <2>5 DEF Die, ForgetHandler, StreakAfterCrash
  <2>6. CASE ServerClear
    BY <2>6 DEF ServerClear
  <2>7. CASE UpgradeApp
    BY <2>7 DEF UpgradeApp
  <2>8. CASE PatchDownloaded
    BY <2>8 DEF PatchDownloaded, Withdraw
  <2> QED
    BY <1>5, <2>1, <2>2, <2>3, <2>4, <2>5, <2>6, <2>7, <2>8 DEF Environment
<1>6. CASE UNCHANGED vars
  BY <1>6 DEF vars
<1> QED
  BY <1>1, <1>2, <1>3, <1>4, <1>5, <1>6 DEF Next

\* Every step keeps the patch that addPatch has stored.
LEMMA StoredStep ==
    TypeOK /\ CrashInv /\ SlotInv /\ StoredInv /\ [Next]_vars => StoredInv'
<1> SUFFICES ASSUME TypeOK, CrashInv, SlotInv, StoredInv, [Next]_vars
             PROVE  StoredInv'
  OBVIOUS
<1>t. /\ jar \in [Dirs -> File] /\ lib \in [Dirs -> [Libs -> File]]
      /\ dirState \in 0..3 /\ memState \in 0..3 /\ where \in Dirs
      /\ pc \in Pcs /\ (pc \in AddPcs => cand \in Patches)
      /\ ret \in {"idle", "checkCrash", "checkClear", "handleLocal", "endInit"}
      /\ pc \in AddPcs => ret = "idle"
      /\ pc \in CleanPcs => ret \in {"idle", "checkCrash", "checkClear", "handleLocal"}
      /\ pc \in LoadPcs => ret \in {"idle", "endInit"}
  BY DEF TypeOK, DiskTypeOK, ProcTypeOK, OpTypeOK, CrashInv
<1>d. /\ Cur \in Dirs /\ Other(Cur) \in Dirs
      /\ where = Cur \/ where = Other(Cur)
  BY <1>t, SlotBits DEF Cur, Dirs, Other
<1>n. pc = "addDecide" /\ SlotsAgree => NextStartHas(cand)
  <2> SUFFICES ASSUME pc = "addDecide", SlotsAgree PROVE NextStartHas(cand)
    OBVIOUS
  <2>1. NextDir = where
    BY <1>d DEF SlotInv, InstallProgress, AddPcs, SlotsAgree, NextDir, Cur
  <2> QED
    BY <2>1 DEF SlotInv, InstallProgress, NextStartHas
<1>k. UNCHANGED <<jar, lib, dirState, memState>> =>
         /\ SlotsAgree' <=> SlotsAgree
         /\ \A p : NextStartHas(p)' <=> NextStartHas(p)
  BY DEF SlotsAgree, NextStartHas, NextDir, Cur
<1> USE <1>t, <1>n, <1>k DEF StoredInv, NotPosted, Cleaned, diskVars, clearVars, procVars,
                             opVars, obsVars
<1> USE DEF Pcs, InitPcs, CleanPcs, AddPcs, LoadPcs
<1>1. CASE Starting
  <2>1. CASE StartProcess
    BY <2>1 DEF StartProcess
  <2>2. CASE ClearStandbyPatch
    BY <2>2 DEF ClearStandbyPatch
  <2>3. CASE ClearStandbyLibs
    BY <2>3 DEF ClearStandbyLibs
  <2>4. CASE CheckApp
    BY <2>4 DEF CheckApp, CallClean
  <2>5. CASE CheckCrash
    BY <2>5 DEF CheckCrash, CallClean
  <2>6. CASE CheckClear
    BY <2>6 DEF CheckClear, CallClean
  <2>7. CASE HandleLocal
    BY <2>7 DEF HandleLocal
  <2>8. CASE EndInit
    BY <2>8 DEF EndInit
  <2>9. CASE FailInit
    BY <2>9 DEF FailInit, CallClean, CountCrash, StreakAfterCrash, CountAfterUse
  <2> QED
    BY <1>1, <2>1, <2>2, <2>3, <2>4, <2>5, <2>6, <2>7, <2>8, <2>9 DEF Starting
<1>2. CASE Cleaning
  <2>1. CASE CallCleanPatches
    BY <2>1 DEF CallCleanPatches, CallClean
  <2>2. CASE CleanPatchDir
    BY <2>2 DEF CleanPatchDir
  <2>3. CASE CleanLibDir
    BY <2>3 DEF CleanLibDir
  <2>4. CASE CleanPrefs
    BY <2>4 DEF CleanPrefs, OrderCarriedOut
  <2>5. CASE CleanVersion
    BY <2>5 DEF CleanVersion
  <2>6. CASE CleanApp
    BY <2>6 DEF CleanApp
  <2> QED
    BY <1>2, <2>1, <2>2, <2>3, <2>4, <2>5, <2>6 DEF Cleaning
<1>3. CASE Adding
  <2>1. CASE AddClear
    BY <2>1 DEF AddClear
  <2>2. CASE FailAdd
    BY <2>2 DEF FailAdd, Return
  <2>3. CASE AddCopy
    BY <2>3 DEF AddCopy
  <2>4. CASE AddCopied
    BY <2>4 DEF AddCopied
  <2>5. CASE AddRecord
    BY <2>5 DEF AddRecord
  <2>6. CASE AddVerify
    BY <2>6 DEF AddVerify
  <2>7. CASE AddUnzipped
    BY <2>7 DEF AddUnzipped
  <2>8. CASE AddCommit
    BY <2>8 DEF AddCommit
  <2>9. CASE AddDecide
    BY <2>9 DEF AddDecide, Return
  <2>10. CASE \E p \in Patches : QueryAndAdd(p) \/ AddLocal(p)
    BY <2>10 DEF QueryAndAdd, Withdraw, AddLocal, CallAddPatch
  <2>11. CASE \E l \in Libs : AddOpenLib(l) \/ AddFillLib(l)
    BY <2>11 DEF AddOpenLib, AddFillLib
  <2> QED
    BY <1>3, <2>1, <2>2, <2>3, <2>4, <2>5, <2>6, <2>7, <2>8, <2>9, <2>10, <2>11 DEF Adding
<1>4. CASE Loading
  <2>1. CASE LoadVerify
    BY <2>1 DEF LoadVerify, EndLoad, Return
  <2>2. CASE LoadPrepare
    BY <2>2 DEF LoadPrepare, CountLoad
  <2>3. CASE LoadArm
    BY <2>3 DEF LoadArm, ArmHandler, CountAfterUse
  <2>4. CASE LoadDex
    BY <2>4 DEF LoadDex
  <2>5. CASE LoadPreload
    BY <2>5 DEF LoadPreload
  <2>6. CASE LoadDisarm
    BY <2>6 DEF LoadDisarm, DisarmHandler
  <2>7. CASE LoadForget
    BY <2>7 DEF LoadForget, RemoveCount
  <2>8. CASE FailLoad
    BY <2>8 DEF FailLoad, EndLoad, Return
  <2>9. CASE LoadRes
    BY <2>9 DEF LoadRes
  <2>10. CASE LoadSo
    BY <2>10 DEF LoadSo
  <2>11. CASE LoadDone
    BY <2>11 DEF LoadDone, EndLoad, Return
  <2> QED
    BY <1>4, <2>1, <2>2, <2>3, <2>4, <2>5, <2>6, <2>7, <2>8, <2>9, <2>10, <2>11 DEF Loading
<1>5. CASE Environment
  <2>1. CASE TimerFires
    BY <2>1 DEF TimerFires, CountAfterUse
  <2>2. CASE TimerDisarms
    BY <2>2 DEF TimerDisarms, DisarmHandler
  <2>3. CASE TimerForgets
    BY <2>3 DEF TimerForgets, RemoveCount
  <2>4. CASE UncaughtException
    BY <2>4 DEF UncaughtException, CountCrash, StreakAfterCrash
  <2>5. CASE Die
    BY <2>5 DEF Die, ForgetHandler, StreakAfterCrash
  <2>6. CASE ServerClear
    BY <2>6 DEF ServerClear
  <2>7. CASE UpgradeApp
    BY <2>7 DEF UpgradeApp
  <2>8. CASE PatchDownloaded
    BY <2>8 DEF PatchDownloaded, Withdraw
  <2> QED
    BY <1>5, <2>1, <2>2, <2>3, <2>4, <2>5, <2>6, <2>7, <2>8 DEF Environment
<1>6. CASE UNCHANGED vars
  BY <1>6 DEF vars
<1> QED
  BY <1>1, <1>2, <1>3, <1>4, <1>5, <1>6 DEF Next

\* The inductive invariant.
IInv == TypeOK /\ CrashInv /\ SlotInv /\ StoredInv

\* The inductive invariant holds when the app is installed.
LEMMA IInvStart == Init => IInv
<1> SUFFICES ASSUME Init PROVE IInv
  OBVIOUS
<1>1. TypeOK /\ CrashInv
  BY TypeInit, CrashStart
<1>2. ~SwapPending(0)
  BY DEF SwapPending
<1>3. SlotInv
  BY <1>2 DEF Init, SlotInv, StatesAgree, StandbyEmpty, StandbyInUse, CurrentThere,
     InstallProgress, Cleaned, AddPcs
<1>4. StoredInv
  BY DEF Init, StoredInv, Cleaned, NotPosted, InitPcs, LoadPcs
<1> QED
  BY <1>1, <1>3, <1>4 DEF IInv

\* Every step preserves the inductive invariant.
LEMMA IInvStep == IInv /\ [Next]_vars => IInv'
BY TypeStep, CrashStep, SlotStep, StoredStep DEF IInv

\* So it holds in every reachable state.
LEMMA IInvAlways == Spec => []IInv
BY IInvStart, IInvStep, PTL DEF Spec

\* What addPatch kept is what the next start will find, jar and libraries
\* complete, while memory and disk agree on the current slot.
THEOREM StoredSafe == Spec => []StoredIsNext
<1>1. IInv => StoredIsNext
  BY DEF IInv, StoredInv, StoredIsNext, AddPcs, LoadPcs
<1> QED
  BY <1>1, IInvAlways, PTL

\* cleanPatches leaves nothing for the next start to load, unless the process
\* owes an exchange that would bring slot 0 back.
THEOREM CleanEmpties == Spec => []CleanEmptiesStore
<1>1. IInv => CleanEmptiesStore
  <2> SUFFICES ASSUME IInv, pc = "cleanApp", memState # 3
               PROVE  Loadable = NoPatch
    BY DEF CleanEmptiesStore
  <2>1. dirState = 0 /\ NextDir = 0
    BY SlotBits DEF IInv, SlotInv, StatesAgree, NextDir, SwapPending
  <2>2. jar[Cur] = NoFile
    BY DEF IInv, SlotInv, CurrentThere, Cleaned
  <2>3. memState \in {0, 1, 2}
    BY DEF IInv, TypeOK, ProcTypeOK
  <2>4. CASE memState # 1
    BY <2>1, <2>2, <2>3, <2>4, FileFacts DEF Cur, CurrentBit, Loadable
  <2>5. CASE memState = 1
    <3>1. Other(Cur) = 0 /\ ~SwapPending(memState)
      BY <2>5 DEF Cur, CurrentBit, Other, SwapPending
    <3>2. jar[0] = NoFile
      BY <3>1 DEF IInv, SlotInv, StandbyEmpty, StandbyInUse, AddPcs
    <3> QED
      BY <2>1, <3>2, FileFacts DEF Loadable
  <2> QED
    BY <2>4, <2>5
<1> QED
  BY <1>1, IInvAlways, PTL

(***************************************************************************)
(* The server's order to clear.  The flag on disk outlives the process as  *)
(* long as the order is open, and only a clean that has emptied both       *)
(* directories takes it away.                                              *)
(***************************************************************************)

OrderInv ==
    /\ order # "none" => clearFlag
    /\ order = "due" => pc \notin PastClear \cup {"cleanVersion", "cleanApp",
                                                 "dying"}
    /\ pc = "cleanPrefs" => lib[Cur] = NoLibs

\* Every step keeps the order and its flag together.
LEMMA OrderStep == IInv /\ OrderInv /\ [Next]_vars => OrderInv'
<1> SUFFICES ASSUME IInv, OrderInv, [Next]_vars PROVE OrderInv'
  OBVIOUS
<1>t. /\ clearFlag \in BOOLEAN /\ Cur \in Dirs /\ pc \in Pcs
      /\ jar \in [Dirs -> File] /\ lib \in [Dirs -> [Libs -> File]]
      /\ pc = "cleanPrefs" => jar[Cur] = NoFile
  BY SlotBits DEF IInv, TypeOK, DiskTypeOK, ProcTypeOK, OpTypeOK, Cur,
     SlotInv, CurrentThere, Cleaned
<1> USE <1>t DEF OrderInv, PastClear, diskVars, clearVars, procVars, opVars,
                 Cur
<1> USE DEF Pcs, InitPcs, CleanPcs, AddPcs, LoadPcs
<1>1. CASE Starting
  <2>1. CASE StartProcess
    BY <2>1 DEF StartProcess
  <2>2. CASE ClearStandbyPatch \/ ClearStandbyLibs
    BY <2>2 DEF ClearStandbyPatch, ClearStandbyLibs
  <2>3. CASE CheckApp \/ CheckCrash
    BY <2>3 DEF CheckApp, CheckCrash, CallClean
  <2>4. CASE CheckClear
    BY <2>4 DEF CheckClear, ClearWanted, CallClean
  <2>5. CASE HandleLocal \/ EndInit \/ FailInit
    BY <2>5 DEF HandleLocal, EndInit, FailInit, CallClean, CountCrash
  <2> QED
    BY <1>1, <2>1, <2>2, <2>3, <2>4, <2>5 DEF Starting
<1>2. CASE Cleaning
  <2>1. CASE CallCleanPatches
    BY <2>1 DEF CallCleanPatches, CallClean
  <2>2. CASE CleanPatchDir \/ CleanLibDir
    BY <2>2 DEF CleanPatchDir, CleanLibDir
  <2>3. CASE CleanPrefs
    <3>1. pc = "cleanPrefs" /\ pc' = "cleanVersion"
      BY <2>3 DEF CleanPrefs
    <3>2. jar[Cur] = NoFile /\ lib[Cur] = NoLibs
      BY <3>1
    <3>3. order' = "none"
      BY <2>3, <3>2 DEF CleanPrefs, OrderCarriedOut, SlotEmpty
    <3> QED
      BY <3>1, <3>3
  <2>4. CASE CleanVersion \/ CleanApp
    <3>1. ret # "cleanPrefs"
      BY DEF IInv, TypeOK, OpTypeOK
    <3> QED
      BY <2>4, <3>1 DEF CleanVersion, CleanApp
  <2> QED
    BY <1>2, <2>1, <2>2, <2>3, <2>4 DEF Cleaning
<1>3. CASE Adding
  <2>1. CASE \E p \in Patches : QueryAndAdd(p) \/ AddLocal(p)
    BY <2>1 DEF QueryAndAdd, Withdraw, AddLocal, CallAddPatch
  <2>2. ~(\E p \in Patches : QueryAndAdd(p) \/ AddLocal(p))
        => /\ UNCHANGED clearVars
           /\ pc \in AddPcs /\ pc' \in AddPcs \cup {"idle", "loadVerify"}
    BY <1>3 DEF Adding, AddClear, FailAdd, AddCopy, AddCopied, AddRecord,
       AddVerify, AddOpenLib, AddFillLib, AddUnzipped, AddCommit, AddDecide
  <2> QED
    BY <2>1, <2>2
<1>4. CASE Loading
  <2>1. ret \in {"idle", "endInit"} \/ pc \notin LoadPcs
    BY DEF IInv, CrashInv
  <2>2. /\ UNCHANGED clearVars
        /\ pc \in LoadPcs /\ pc' \in LoadPcs \cup {ret}
    BY <1>4 DEF Loading, LoadVerify, LoadPrepare, LoadArm, LoadDex,
       LoadPreload, LoadDisarm, LoadForget, FailLoad, LoadRes, LoadSo,
       LoadDone, EndLoad
  <2> QED
    BY <2>1, <2>2
<1>5. CASE Environment
  <2>1. CASE TimerFires \/ TimerDisarms \/ TimerForgets \/ UncaughtException
    BY <2>1 DEF TimerFires, TimerDisarms, TimerForgets, UncaughtException
  <2>2. CASE Die
    BY <2>2 DEF Die
  <2>3. CASE ServerClear
    BY <2>3 DEF ServerClear
  <2>4. CASE PatchDownloaded \/ UpgradeApp
    BY <2>4 DEF PatchDownloaded, Withdraw, UpgradeApp
  <2> QED
    BY <1>5, <2>1, <2>2, <2>3, <2>4 DEF Environment
<1>6. CASE UNCHANGED vars
  BY <1>6 DEF vars
<1> QED
  BY <1>1, <1>2, <1>3, <1>4, <1>5, <1>6 DEF Next

\* The server's order to clear is carried out by the next start before it
\* looks for a patch, however often that start dies half-way through, and the
\* flag never goes with files of the slot left.
THEOREM ClearOrderSafe == Spec => []ClearOrderObeyed
<1>1. Init => OrderInv
  BY DEF Init, OrderInv
<1>2. IInv /\ OrderInv /\ [Next]_vars => OrderInv'
  BY OrderStep
<1>3. OrderInv => ClearOrderObeyed
  BY DEF OrderInv, ClearOrderObeyed
<1> QED
  BY <1>1, <1>2, <1>3, IInvAlways, PTL DEF Spec
=============================================================================
