-------------------------- MODULE PatchSlotProofs ---------------------------
(***************************************************************************)
(* What PatchManager does to the file a process is running and to the      *)
(* patch the next start will load, for any patches, libraries and crash    *)
(* limit: the current slot is kept while another patch is installed, every *)
(* step is a step of PatchSlot or leaves its variables alone, and a load   *)
(* injects the libraries of its own patch.                                 *)
(***************************************************************************)
EXTENDS PatchManagerProofs

\* What the state invariant says about the variables the slots depend on.
LEMMA StateFacts ==
    ASSUME IInv
    PROVE  /\ jar \in [Dirs -> File] /\ lib \in [Dirs -> [Libs -> File]]
           /\ dirState \in 0..3 /\ memState \in 0..3 /\ where \in Dirs
           /\ pc \in Pcs /\ ret \in {"idle", "checkCrash", "checkClear",
                                     "handleLocal", "endInit"}
           /\ pc \in AddPcs => cand \in Patches
           /\ Cur \in Dirs /\ Other(Cur) \in Dirs /\ Other(Cur) # Cur
           /\ where = Cur \/ where = Other(Cur)
           /\ NextDir \in Dirs
<1>1. /\ jar \in [Dirs -> File] /\ lib \in [Dirs -> [Libs -> File]]
      /\ dirState \in 0..3 /\ memState \in 0..3 /\ where \in Dirs
      /\ pc \in Pcs /\ ret \in {"idle", "checkCrash", "checkClear",
                                "handleLocal", "endInit"}
      /\ pc \in AddPcs => cand \in Patches
  BY DEF IInv, TypeOK, DiskTypeOK, ProcTypeOK, OpTypeOK
<1>2. CurrentBit(memState) \in Dirs /\ CurrentBit(dirState) \in Dirs
  BY <1>1, SlotBits
<1> QED
  BY <1>1, <1>2 DEF Cur, Dirs, Other, NextDir

\* While addPatch installs a patch and the current slot holds another one, no
\* file of the current slot changes: the standby slot is the only target.
THEOREM CurrentSafe == Spec => CurrentKept
<1>1. IInv /\ [Next]_vars =>
         [HoldsAnother => (jar'[Cur] = jar[Cur] /\ lib'[Cur] = lib[Cur])]_vars
  <2> SUFFICES ASSUME IInv, Next, HoldsAnother
               PROVE  jar'[Cur] = jar[Cur] /\ lib'[Cur] = lib[Cur]
    OBVIOUS
  <2>1. pc \in AddPcs /\ where # Cur
    BY DEF HoldsAnother, IInv, SlotInv, InstallProgress
  <2> USE <2>1, StateFacts DEF AddPcs, diskVars, clearVars
  <2>2. CASE Adding
    <3>1. CASE \E p \in Patches : QueryAndAdd(p) \/ AddLocal(p)
      BY <3>1 DEF QueryAndAdd, Withdraw, AddLocal, CallAddPatch
    <3>2. CASE \E l \in Libs : AddOpenLib(l) \/ AddFillLib(l)
      BY <3>2 DEF AddOpenLib, AddFillLib
    <3>3. CASE AddClear \/ FailAdd \/ AddCopy \/ AddCopied \/ AddVerify
      BY <3>3 DEF AddClear, FailAdd, Return, AddCopy, AddCopied, AddVerify
    <3>4. CASE AddRecord \/ AddUnzipped \/ AddCommit \/ AddDecide
      BY <3>4 DEF AddRecord, AddUnzipped, AddCommit, AddDecide, Return
    <3> QED
      BY <2>2, <3>1, <3>2, <3>3, <3>4 DEF Adding
  <2>3. CASE Environment
    BY <2>3 DEF Environment, TimerFires, TimerDisarms, TimerForgets,
       UncaughtException, Die, ServerClear, UpgradeApp,
     PatchDownloaded, Withdraw
  <2>4. ~Starting
    BY DEF Starting, StartProcess, ClearStandbyPatch, ClearStandbyLibs,
       CheckApp, CheckCrash, CheckClear, HandleLocal, EndInit, FailInit
  <2>5. ~Cleaning
    BY DEF Cleaning, CallCleanPatches, CleanPatchDir, CleanLibDir, CleanPrefs, OrderCarriedOut,
       CleanVersion, CleanApp
  <2>6. ~Loading
    BY DEF Loading, LoadVerify, LoadPrepare, LoadArm, LoadDex, LoadPreload,
       LoadDisarm, LoadForget, FailLoad, LoadRes, LoadSo, LoadDone
  <2> QED
    BY <2>2, <2>3, <2>4, <2>5, <2>6 DEF Next
<1> QED
  BY <1>1, IInvAlways, PTL DEF Spec, CurrentKept

(***************************************************************************)
(* The refinement.                                                         *)
(***************************************************************************)

\* The mapping of the last two variables of PatchSlot.
Settled == pc = "down" \/ (/\ ~SwapPending(dirState)
                           /\ SlotsAgree
                           /\ ~(pc \in AddPcs /\ where = Cur))
Work == IF pc \in CleanPcs THEN -1 ELSE IF pc \in AddPcs THEN cand ELSE 0

\* The steps of PatchSlot in these terms.
LEMMA SlotSteps ==
    /\ (/\ UNCHANGED <<Loadable, Work>> /\ (Settled' <=> Settled))
          => UNCHANGED Slot!slotVars
    /\ (/\ Work = 0 /\ Work' \in Patches \cup {-1}
        /\ Loadable' = Loadable
        /\ (Settled' <=> Settled) \/ (Loadable = 0 /\ ~Settled'))
          => Slot!Next
    /\ (/\ Work \in Patches /\ Work' \in {Work, 0}
        /\ Loadable' \in {Loadable, Work} \cup (IF Settled THEN {} ELSE {0})
        /\ Settled' => (Settled /\ Loadable' = Loadable) \/ Work' = 0
        /\ Settled => Settled' \/ Loadable' = Work)
          => Slot!Next
    /\ (/\ Work = -1 /\ Work' \in {-1, 0} /\ Loadable' \in {Loadable, 0})
          => Slot!Next
    /\ (/\ Work' = 0 /\ Settled' /\ Loadable' = Loadable)
          => Slot!Next
<1> USE DEF Slot!slotVars, Slot!Next, Slot!Begin, Slot!Install, Slot!Clean,
            Slot!Restart, Slot!Nothing, Slot!Cleaning, Slot!Idle
<1>1. (/\ UNCHANGED <<Loadable, Work>> /\ (Settled' <=> Settled))
          => UNCHANGED Slot!slotVars
  BY DEF Settled, Work
<1>2. (/\ Work = 0 /\ Work' \in Patches \cup {-1}
       /\ Loadable' = Loadable
       /\ (Settled' <=> Settled) \/ (Loadable = 0 /\ ~Settled'))
          => Slot!Next
  BY DEF Settled, Work
<1>3. (/\ Work \in Patches /\ Work' \in {Work, 0}
       /\ Loadable' \in {Loadable, Work} \cup (IF Settled THEN {} ELSE {0})
       /\ Settled' => (Settled /\ Loadable' = Loadable) \/ Work' = 0
       /\ Settled => Settled' \/ Loadable' = Work)
          => Slot!Next
  BY DEF Settled, Work
<1>4. (/\ Work = -1 /\ Work' \in {-1, 0} /\ Loadable' \in {Loadable, 0})
          => Slot!Next
  BY DEF Settled, Work
<1>5. (/\ Work' = 0 /\ Settled' /\ Loadable' = Loadable)
          => Slot!Next
  BY DEF Settled, Work
<1> QED
  BY <1>1, <1>2, <1>3, <1>4, <1>5

\* Where the next start looks, and what it finds there.
LEMMA LoadableFacts ==
    ASSUME IInv
    PROVE  /\ NextDir = IF SwapPending(dirState)
                          THEN Other(CurrentBit(dirState))
                          ELSE CurrentBit(dirState)
           /\ SlotsAgree => CurrentBit(dirState) = Cur
           /\ jar[NextDir] = NoFile => Loadable = 0
           /\ \A p \in Patches : /\ jar[NextDir] = Torn(p) => Loadable = 0
                                /\ jar[NextDir] = Whole(p) => Loadable = p
BY FileFacts DEF NextDir, SlotsAgree, Cur, Loadable, NoPatch

\* What a step that keeps the directory state, or the jars, keeps of it.
LEMMA LoadableFactsPrimed ==
    /\ UNCHANGED dirState => UNCHANGED NextDir
    /\ UNCHANGED <<dirState, jar>> => UNCHANGED Loadable
    /\ UNCHANGED <<dirState, memState>> => UNCHANGED <<Cur, SlotsAgree>>
    /\ UNCHANGED dirState /\ jar'[NextDir] = jar[NextDir]
          => UNCHANGED Loadable
    /\ jar'[NextDir'] = NoFile => Loadable' = 0
    /\ jar'[NextDir'] = Torn(cand) /\ cand \in Patches => Loadable' = 0
    /\ jar'[NextDir'] = Whole(cand) /\ cand \in Patches => Loadable' = cand
BY FileFacts DEF NextDir, Loadable, SlotsAgree, Cur, NoPatch

\* A step that leaves the slots and their state alone, and neither enters nor
\* leaves an install, a clean or the life of a process, is invisible.
LEMMA SlotStutter ==
    ASSUME UNCHANGED <<jar, dirState, memState>>,
           pc = pc' \/ {pc, pc'} \cap (AddPcs \cup CleanPcs \cup {"down"})
                           = {},
           pc \in AddPcs => UNCHANGED <<where, cand>>
    PROVE  UNCHANGED Slot!slotVars
<1>1. UNCHANGED <<Loadable, Cur, SlotsAgree>>
  BY LoadableFactsPrimed
<1>2. UNCHANGED Work
  BY DEF Work
<1>3. Settled' <=> Settled
  BY <1>1 DEF Settled
<1> QED
  BY <1>1, <1>2, <1>3, SlotSteps

\* An empty store is an empty slot.
LEMMA SlotInit == Init => Slot!Init
BY FileFacts DEF Init, Slot!Init, Slot!Nothing, Slot!Idle, Loadable, NextDir,
   SwapPending, CurrentBit, Dirs, NoPatch, CleanPcs, AddPcs

\* Every step maps to a step of PatchSlot or to none, action by action.
LEMMA SlotRefines == IInv /\ [Next]_vars => [Slot!Next]_(Slot!slotVars)
<1> SUFFICES ASSUME IInv, [Next]_vars
             PROVE  Slot!Next \/ UNCHANGED Slot!slotVars
  OBVIOUS
<1> USE StateFacts DEF diskVars, clearVars, procVars, opVars, obsVars, AddPcs, CleanPcs
<1>1. CASE Starting
  <2>1. CASE StartProcess
    <3>1. /\ ~SwapPending(dirState') /\ dirState' = memState'
          /\ NextDir' = NextDir
      BY <2>1, SlotBits DEF StartProcess, NextDir
    <3>2. Loadable' = Loadable
      BY <2>1, <3>1 DEF StartProcess, Loadable
    <3>3. Settled /\ Settled' /\ Work = 0 /\ Work' = 0
      BY <2>1, <3>1 DEF StartProcess, Settled, Work, SlotsAgree
    <3> QED
      BY <3>2, <3>3, SlotSteps
  <2>2. CASE ClearStandbyPatch
    <3>1. dirState = memState /\ ~SwapPending(memState)
      BY <2>2 DEF ClearStandbyPatch, IInv, SlotInv, StatesAgree
    <3>2. NextDir = Cur
      BY <3>1 DEF NextDir, Cur
    <3>3. UNCHANGED <<Loadable, Cur, SlotsAgree>>
      BY <2>2, <3>2, LoadableFactsPrimed DEF ClearStandbyPatch
    <3>4. (Settled' <=> Settled) /\ UNCHANGED Work
      BY <2>2, <3>3 DEF ClearStandbyPatch, Settled, Work
    <3> QED
      BY <3>3, <3>4, SlotSteps
  <2>3. CASE ClearStandbyLibs
    BY <2>3, SlotStutter DEF ClearStandbyLibs
  <2>4. CASE \E back \in {"idle", "checkCrash", "checkClear", "handleLocal"} :
                /\ pc \in {"checkApp", "checkCrash", "checkClear", "endInit"}
                /\ CallClean(back)
                /\ UNCHANGED <<jar, dirState, memState>>
    <3>1. UNCHANGED <<Loadable, Cur, SlotsAgree>>
      BY <2>4, LoadableFactsPrimed
    <3>2. (Settled' <=> Settled) /\ Work = 0 /\ Work' = -1
      BY <2>4, <3>1 DEF CallClean, Settled, Work
    <3> QED
      BY <3>1, <3>2, SlotSteps
  <2>5. CASE CheckApp \/ CheckCrash \/ CheckClear
    <3>1. CASE pc' = "cleanPatch"
      BY <2>5, <3>1, <2>4 DEF CheckApp, CheckCrash, CheckClear
    <3>2. CASE pc' # "cleanPatch"
      BY <2>5, <3>2, SlotStutter
         DEF CheckApp, CheckCrash, CheckClear, CallClean
    <3> QED
      BY <3>1, <3>2
  <2>6. CASE HandleLocal
    BY <2>6, SlotStutter DEF HandleLocal
  <2>7. CASE EndInit
    BY <2>7, SlotStutter DEF EndInit
  <2>8. CASE FailInit
    <3>1. CASE pc' = "cleanPatch"
      BY <2>8, <3>1, <2>4 DEF FailInit
    <3>2. CASE pc' # "cleanPatch"
      BY <2>8, <3>2, SlotStutter DEF FailInit, CallClean
    <3> QED
      BY <3>1, <3>2
  <2> QED
    BY <1>1, <2>1, <2>2, <2>3, <2>5, <2>6, <2>7, <2>8 DEF Starting
<1>2. CASE Cleaning
  <2>1. CASE CallCleanPatches
    <3>1. UNCHANGED <<Loadable, Cur, SlotsAgree>>
      BY <2>1, LoadableFactsPrimed DEF CallCleanPatches
    <3>2. (Settled' <=> Settled) /\ Work = 0 /\ Work' = -1
      BY <2>1, <3>1 DEF CallCleanPatches, CallClean, Settled, Work
    <3> QED
      BY <3>1, <3>2, SlotSteps
  <2>2. CASE CleanPatchDir
    <3>1. Work = -1 /\ Work' = -1
      BY <2>2 DEF CleanPatchDir, Work
    <3>2. jar'[NextDir] = jar[NextDir] \/ jar'[NextDir] = NoFile
      BY <2>2 DEF CleanPatchDir
    <3>3. Loadable' \in {Loadable, 0}
      BY <2>2, <3>2, LoadableFactsPrimed DEF CleanPatchDir
    <3> QED
      BY <3>1, <3>3, SlotSteps
  <2>3. CASE CleanPrefs
    <3>1. Work = -1 /\ Work' = -1 /\ UNCHANGED jar /\ dirState' = 0
      BY <2>3 DEF CleanPrefs, OrderCarriedOut, Work
    <3>2. NextDir' = 0
      BY <3>1, SlotBits DEF NextDir, SwapPending
    <3>3. dirState \in {memState, 0} /\ jar[Cur] = NoFile
      BY <2>3 DEF CleanPrefs, OrderCarriedOut, IInv, SlotInv, StatesAgree, CurrentThere, Cleaned
    <3>4. CASE NextDir = 0
      BY <3>1, <3>2, <3>4, SlotSteps DEF Loadable
    <3>5. CASE Cur = 0
      BY <3>1, <3>2, <3>3, <3>5, LoadableFactsPrimed, SlotSteps
    <3>6. CASE NextDir # 0 /\ Cur # 0
      <4>1. dirState = memState /\ ~SwapPending(memState) /\ Other(Cur) = 0
        BY <3>3, <3>6, SlotBits DEF NextDir, Cur, SwapPending, Dirs, Other
      <4>2. jar[0] = NoFile
        BY <2>3, <4>1 DEF CleanPrefs, OrderCarriedOut, IInv, SlotInv, StandbyEmpty, StandbyInUse
      <4> QED
        BY <3>1, <3>2, <4>2, LoadableFactsPrimed, SlotSteps
    <3> QED
      BY <3>4, <3>5, <3>6
  <2>4. CASE CleanLibDir \/ CleanVersion \/ CleanApp
    <3>1. Work = -1 /\ Work' \in {-1, 0} /\ UNCHANGED <<jar, dirState>>
      BY <2>4 DEF CleanLibDir, CleanVersion, CleanApp, Work, IInv, CrashInv
    <3> QED
      BY <3>1, LoadableFactsPrimed, SlotSteps
  <2> QED
    BY <1>2, <2>1, <2>2, <2>3, <2>4 DEF Cleaning
<1>3. CASE Adding
  <2>1. CASE \E p \in Patches : QueryAndAdd(p) \/ AddLocal(p)
    <3>1. /\ pc = "idle" /\ pc' = "addClear" /\ cand' \in Patches
          /\ where' = TargetDir /\ UNCHANGED <<jar, dirState, memState>>
      BY <2>1 DEF QueryAndAdd, Withdraw, AddLocal, CallAddPatch
    <3>2. UNCHANGED <<Loadable, Cur, SlotsAgree>>
      BY <3>1, LoadableFactsPrimed
    <3>3. Work = 0 /\ Work' \in Patches
      BY <3>1 DEF Work
    <3>4. CASE where' # Cur
      BY <3>1, <3>2, <3>3, <3>4, SlotSteps DEF Settled
    <3>5. CASE where' = Cur
      <4>1. ~Settled'
        BY <3>1, <3>2, <3>5 DEF Settled
      <4>2. Settled => Loadable = 0
        BY <3>1, <3>5, LoadableFacts DEF Settled, TargetDir
      <4> QED
        BY <3>2, <3>3, <4>1, <4>2, SlotSteps
    <3> QED
      BY <3>4, <3>5
  <2>2. CASE /\ pc \in AddPcs /\ pc' \in AddPcs \cup {"idle"}
             /\ UNCHANGED <<dirState, memState>>
             /\ pc' \in AddPcs => UNCHANGED <<where, cand>>
             /\ jar' = jar \/ \E f \in {NoFile, Torn(cand), Whole(cand)} :
                                jar' = [jar EXCEPT ![where] = f]
    <3>1. Work = cand /\ Work \in Patches /\ Work' \in {Work, 0}
      BY <2>2 DEF Work
    <3>2. UNCHANGED <<NextDir, Cur, SlotsAgree>>
      BY <2>2, LoadableFactsPrimed
    <3>a. jar'[NextDir'] \in {jar[NextDir], NoFile, Torn(cand), Whole(cand)}
      BY <2>2, <3>2
    <3>3. Loadable' \in {Loadable, Work, 0}
      <4>1. CASE jar'[NextDir'] = jar[NextDir]
        BY <2>2, <3>2, <4>1, LoadableFactsPrimed
      <4>2. CASE jar'[NextDir'] \in {NoFile, Torn(cand), Whole(cand)}
        BY <3>1, <4>2, LoadableFactsPrimed
      <4> QED
        BY <3>a, <4>1, <4>2
    <3>4. CASE Settled
      <4>1. NextDir = Cur /\ where # Cur
        BY <2>2, <3>4, LoadableFacts DEF Settled
      <4>2. Loadable' = Loadable
        BY <2>2, <4>1, LoadableFactsPrimed
      <4>3. Settled'
        BY <2>2, <3>2, <3>4, <4>1 DEF Settled
      <4> QED
        BY <3>1, <3>4, <4>2, <4>3, SlotSteps
    <3>5. CASE ~Settled
      <4>1. Settled' => Work' = 0
        BY <2>2, <3>2, <3>5 DEF Settled, Work
      <4> QED
        BY <3>1, <3>3, <3>5, <4>1, SlotSteps
    <3> QED
      BY <3>4, <3>5
  <2>3. CASE AddClear \/ FailAdd \/ AddCopy \/ AddCopied \/ AddVerify
    BY <2>2, <2>3 DEF AddClear, FailAdd, Return, AddCopy, AddCopied, AddVerify
  <2>4. CASE \/ AddRecord \/ AddUnzipped
             \/ \E l \in Libs : AddOpenLib(l) \/ AddFillLib(l)
    BY <2>2, <2>4 DEF AddRecord, AddUnzipped, AddOpenLib, AddFillLib
  <2>5. CASE AddCommit
    <3>1. CASE where = Cur
      BY <2>5, <3>1, <2>2 DEF AddCommit
    <3>2. CASE where # Cur
      <4>1. /\ pc' = "addDecide" /\ UNCHANGED <<jar, where, cand>>
            /\ dirState' = SetPending(memState) /\ jar[where] = Whole(cand)
        BY <2>5, <3>2 DEF AddCommit, IInv, SlotInv, InstallProgress
      <4>2. /\ SwapPending(dirState')
            /\ CurrentBit(dirState') = Cur
        BY <4>1, SlotBits DEF Cur
      <4>3. NextDir' = where
        BY <3>2, <4>2 DEF NextDir
      <4>a. cand \in Patches /\ jar'[NextDir'] = Whole(cand)
        BY <2>5, <4>1, <4>3 DEF AddCommit
      <4>4. Loadable' = cand
        BY <4>a, LoadableFactsPrimed
      <4>5. /\ Work = cand /\ Work' = cand /\ Work \in Patches
            /\ ~Settled'
        BY <2>5, <4>1, <4>2 DEF AddCommit, Work, Settled
      <4> QED
        BY <4>4, <4>5, SlotSteps
    <3> QED
      BY <3>1, <3>2
  <2>6. CASE AddDecide
    <3>1. /\ pc = "addDecide" /\ pc' \in {"idle", "loadVerify"}
          /\ UNCHANGED <<jar, dirState, memState>>
      BY <2>6 DEF AddDecide
    <3>2. UNCHANGED <<Loadable, Cur, SlotsAgree>>
      BY <3>1, LoadableFactsPrimed
    <3>3. Work \in Patches /\ Work' = 0
      BY <3>1 DEF Work
    <3>4. Settled => Settled'
      BY <3>1, <3>2 DEF Settled
    <3> QED
      BY <3>2, <3>3, <3>4, SlotSteps
  <2> QED
    BY <1>3, <2>1, <2>3, <2>4, <2>5, <2>6 DEF Adding
<1>4. CASE Loading
  <2>1. pc \in LoadPcs => ret \in {"idle", "endInit"}
    BY DEF IInv, CrashInv
  <2> USE <2>1 DEF LoadPcs
  <2>2. CASE LoadVerify \/ LoadPrepare \/ LoadArm \/ LoadDex
    BY <2>2, SlotStutter DEF LoadVerify, LoadPrepare, LoadArm, LoadDex, EndLoad, Return
  <2>3. CASE LoadPreload \/ LoadDisarm \/ LoadForget
    BY <2>3, SlotStutter DEF LoadPreload, LoadDisarm, LoadForget
  <2>4. CASE FailLoad \/ LoadRes
    BY <2>4, SlotStutter DEF FailLoad, LoadRes, EndLoad, Return
  <2>5. CASE LoadSo \/ LoadDone
    BY <2>5, SlotStutter DEF LoadSo, LoadDone, EndLoad, Return
  <2> QED
    BY <1>4, <2>2, <2>3, <2>4, <2>5 DEF Loading
<1>5. CASE Environment
  <2>1. CASE TimerFires \/ TimerDisarms \/ TimerForgets
    BY <2>1, SlotStutter DEF TimerFires, TimerDisarms, TimerForgets
  <2>2. CASE UncaughtException \/ ServerClear \/ PatchDownloaded \/ UpgradeApp
    BY <2>2, SlotStutter DEF UncaughtException, ServerClear, PatchDownloaded, Withdraw,
       UpgradeApp
  <2>3. CASE Die
    <3>1. Work' = 0 /\ Settled' /\ UNCHANGED <<jar, dirState>>
      BY <2>3 DEF Die, Work, Settled
    <3> QED
      BY <3>1, LoadableFactsPrimed, SlotSteps
  <2> QED
    BY <1>5, <2>1, <2>2, <2>3 DEF Environment
<1>6. CASE UNCHANGED vars
  BY <1>6, SlotStutter DEF vars
<1> QED
  BY <1>1, <1>2, <1>3, <1>4, <1>5, <1>6 DEF Next

\* The patch the next start will load is replaced as a whole, and only by an
\* install or a clean in progress: the store implements PatchSlot.
THEOREM SlotRefinement == Spec => AtomicReplacement
<1>1. Init => Slot!Init
  BY SlotInit
<1>2. IInv /\ [Next]_vars => [Slot!Next]_(Slot!slotVars)
  BY SlotRefines
<1> QED
  BY <1>1, <1>2, IInvAlways, PTL DEF Spec, AtomicReplacement, Slot!Spec

(***************************************************************************)
(* The libraries that are injected.                                        *)
(***************************************************************************)

\* A jar outside an install is whole, and so are all its libraries.
FilesWhole(d) ==
    jar[d].whole /\ \A l \in SoOf[jar[d].patch] : lib[d][l] = jar[d]
SlotsWhole ==
    \A d \in Dirs : jar[d] # NoFile /\ ~(pc \in AddPcs /\ where = d)
                        => FilesWhole(d)

\* A patch that is loaded from the standby slot is one that cannot be run in
\* this process: neither hot nor with an odex.
LoadInv ==
    /\ pc \in AddPcs => got = {}
    /\ pc \in LoadPcs =>
          /\ jar[where] = Whole(cand)
          /\ where # Cur => /\ ret = "idle" /\ cand \notin HotPatches
                            /\ "dex" \notin got

\* The libraries of the standby slot go after its jar.
StandbyInv == pc = "initLibDir" => jar[Other(Cur)] = NoFile

LibsInv == SlotsWhole /\ LoadInv /\ StandbyInv

\* The pcs at which only SlotsWhole says something.
QuietPcs == Pcs \ (AddPcs \cup LoadPcs \cup {"initLibDir"})

\* A step to such a place, not from an install, that leaves the files alone.
LEMMA LibsQuiet ==
    ASSUME LibsInv, UNCHANGED <<jar, lib>>, pc \notin AddPcs, pc' \in QuietPcs
    PROVE  LibsInv'
BY DEF LibsInv, SlotsWhole, FilesWhole, LoadInv, StandbyInv, QuietPcs

\* A step that changes nothing the invariant is about.
LEMMA LibsSame ==
    ASSUME LibsInv,
           UNCHANGED <<jar, lib, memState, pc, where, cand, got, ret>>
    PROVE  LibsInv'
BY DEF LibsInv, SlotsWhole, FilesWhole, LoadInv, StandbyInv, Cur

\* A step inside loadPatch that may load more of a patch, classes only where
\* they can be run.
LEMMA LibsLoad ==
    ASSUME LibsInv, UNCHANGED <<jar, lib, memState, where, cand, ret>>,
           pc \in LoadPcs, pc' \in LoadPcs,
           "dex" \in got' => "dex" \in got \/ where = Cur
    PROVE  LibsInv'
<1>1. UNCHANGED Cur
  BY DEF Cur
<1>2. pc \notin AddPcs /\ pc' \notin AddPcs /\ pc' # "initLibDir"
  BY DEF AddPcs, LoadPcs
<1> QED
  BY <1>1, <1>2 DEF LibsInv, SlotsWhole, FilesWhole, LoadInv, StandbyInv

\* A step of addPatch that goes on, or that gives up without a jar.
LEMMA LibsAdd ==
    ASSUME LibsInv, IInv, pc \in AddPcs,
           pc' \in AddPcs => got' = got /\ where' = where,
           \A d \in Dirs : d # where =>
                            jar'[d] = jar[d] /\ lib'[d] = lib[d],
           pc' \in AddPcs \/ (pc' = "idle" /\ jar'[where] = NoFile)
    PROVE  LibsInv'
<1>1. pc' \notin LoadPcs /\ pc' # "initLibDir"
  BY DEF AddPcs, LoadPcs
<1>2. SlotsWhole'
  <2> SUFFICES ASSUME NEW d \in Dirs, jar'[d] # NoFile,
                      ~(pc' \in AddPcs /\ where' = d)
               PROVE  FilesWhole(d)'
    BY DEF SlotsWhole
  <2>1. d # where
    OBVIOUS
  <2>2. FilesWhole(d)
    BY <2>1 DEF LibsInv, SlotsWhole
  <2> QED
    BY <2>1, <2>2 DEF FilesWhole
<1>3. LoadInv' /\ StandbyInv'
  BY <1>1 DEF LibsInv, LoadInv, StandbyInv
<1> QED
  BY <1>2, <1>3 DEF LibsInv

\* An install that is complete leaves a whole jar with its libraries.
LEMMA LibsDecided ==
    ASSUME LibsInv, IInv, pc = "addDecide"
    PROVE  \A d \in Dirs : jar[d] # NoFile => FilesWhole(d)
<1> SUFFICES ASSUME NEW d \in Dirs, jar[d] # NoFile PROVE FilesWhole(d)
  OBVIOUS
<1>1. CASE d # where
  BY <1>1 DEF LibsInv, SlotsWhole
<1>2. CASE d = where
  <2>1. /\ cand \in Patches /\ jar[d] = Whole(cand)
        /\ \A l \in SoOf[cand] : lib[d][l] = Whole(cand)
    BY <1>2, StateFacts DEF AddPcs, IInv, SlotInv, InstallProgress
  <2> QED
    BY <2>1, FileFacts DEF FilesWhole
<1> QED
  BY <1>1, <1>2

\* The invariant holds when the app is installed.
LEMMA LibsStart == Init => LibsInv
BY DEF Init, LibsInv, SlotsWhole, LoadInv, StandbyInv, AddPcs, LoadPcs, Dirs

\* Without local patches and without deaths inside an operation, every step
\* keeps the jars with their libraries.
LEMMA LibsStep ==
    ASSUME ~DebugMode, ~MidOpKills, IInv, LibsInv, [Next]_vars
    PROVE  LibsInv'
<1> USE StateFacts
<1> USE DEF diskVars, clearVars, procVars, opVars
<1>q. {"down", "idle", "dying", "initPatchDir", "checkApp", "checkCrash",
       "checkClear", "handleLocal", "endInit"} \cup CleanPcs \subseteq QuietPcs
  BY DEF QuietPcs, Pcs, InitPcs, CleanPcs, AddPcs, LoadPcs
<1>c. "cleanPatch" \in QuietPcs
  BY <1>q DEF CleanPcs
<1>r. ret \in QuietPcs
  BY <1>q
<1>1. CASE Starting
  <2>1. CASE StartProcess
    BY <1>q, <2>1, LibsQuiet DEF StartProcess, AddPcs
  <2>2. CASE ClearStandbyPatch
    <3>1. UNCHANGED Cur
      BY <2>2 DEF ClearStandbyPatch, Cur
    <3>2. /\ jar'[Other(Cur)] = NoFile
          /\ \A d \in Dirs : jar'[d] \in {jar[d], NoFile} /\ lib' = lib
      BY <2>2 DEF ClearStandbyPatch
    <3>3. pc \notin AddPcs /\ pc' = "initLibDir"
      BY <2>2 DEF ClearStandbyPatch, AddPcs
    <3>4. SlotsWhole'
      BY <3>2, <3>3 DEF LibsInv, SlotsWhole, FilesWhole
    <3>5. LoadInv'
      BY <3>3 DEF LoadInv, AddPcs, LoadPcs
    <3>6. StandbyInv'
      BY <3>1, <3>2 DEF StandbyInv
    <3> QED
      BY <3>4, <3>5, <3>6 DEF LibsInv
  <2>3. CASE ClearStandbyLibs
    <3>1. /\ jar[Other(Cur)] = NoFile /\ jar' = jar
          /\ \A d \in Dirs : d # Other(Cur) => lib'[d] = lib[d]
      BY <2>3 DEF ClearStandbyLibs, LibsInv, StandbyInv
    <3>2. pc \notin AddPcs /\ pc' = "checkApp"
      BY <2>3 DEF ClearStandbyLibs, AddPcs
    <3>3. SlotsWhole'
      BY <3>1, <3>2 DEF LibsInv, SlotsWhole, FilesWhole
    <3>4. LoadInv' /\ StandbyInv'
      BY <3>2 DEF LoadInv, StandbyInv, AddPcs, LoadPcs
    <3> QED
      BY <3>3, <3>4 DEF LibsInv
  <2>4. CASE CheckApp
    BY <1>q, <1>c, <2>4, LibsQuiet DEF CheckApp, CallClean, AddPcs
  <2>5. CASE CheckCrash
    BY <1>q, <1>c, <2>5, LibsQuiet DEF CheckCrash, CallClean, AddPcs
  <2>6. CASE CheckClear
    BY <1>q, <1>c, <2>6, LibsQuiet DEF CheckClear, CallClean, AddPcs
  <2>7. CASE HandleLocal
    <3>1. pc \notin AddPcs /\ UNCHANGED <<jar, lib, memState>>
      BY <2>7 DEF HandleLocal, AddPcs
    <3>2. CASE pc' = "endInit"
      BY <1>q, <3>1, <3>2, LibsQuiet
    <3>3. CASE pc' # "endInit"
      <4>1. /\ jar[Cur] # NoFile /\ pc' = "loadVerify" /\ where' = Cur
            /\ cand' = jar[Cur].patch
        BY <2>7, <3>3 DEF HandleLocal
      <4>2. jar[Cur].whole
        BY <3>1, <4>1 DEF LibsInv, SlotsWhole, FilesWhole
      <4>3. jar[Cur] = Whole(jar[Cur].patch)
        BY <4>1, <4>2 DEF File, Whole, NoFile
      <4>4. UNCHANGED Cur /\ pc' \notin AddPcs
        BY <3>1, <4>1 DEF Cur, AddPcs
      <4>5. SlotsWhole'
        BY <3>1, <4>4 DEF LibsInv, SlotsWhole, FilesWhole
      <4>6. LoadInv' /\ StandbyInv'
        BY <3>1, <4>1, <4>3, <4>4 DEF LoadInv, StandbyInv, Whole
      <4> QED
        BY <4>5, <4>6 DEF LibsInv
    <3> QED
      BY <3>2, <3>3
  <2>8. CASE EndInit
    BY <1>q, <2>8, LibsQuiet DEF EndInit, AddPcs
  <2>9. CASE FailInit
    BY <1>q, <1>c, <2>9, LibsQuiet DEF FailInit, CallClean, AddPcs
  <2> QED
    BY <1>1, <2>1, <2>2, <2>3, <2>4, <2>5, <2>6, <2>7, <2>8, <2>9 DEF Starting
<1>2. CASE Cleaning
  <2>1. CASE CallCleanPatches
    BY <1>c, <2>1, LibsQuiet DEF CallCleanPatches, CallClean, AddPcs
  <2>2. CASE CleanPatchDir \/ CleanLibDir
    <3>1. pc \notin AddPcs /\ pc' \in QuietPcs /\ pc' \notin AddPcs
      BY <1>q, <2>2 DEF CleanPatchDir, CleanLibDir, CleanPcs, AddPcs
    <3>2. \A d \in Dirs : \/ jar'[d] = jar[d] /\ lib'[d] = lib[d]
                          \/ jar'[d] = NoFile
      <4>1. CASE CleanPatchDir
        BY <4>1 DEF CleanPatchDir
      <4>2. CASE CleanLibDir
        <5>1. jar[Cur] = NoFile
          BY <4>2 DEF CleanLibDir, IInv, SlotInv, CurrentThere, Cleaned
        <5> QED
          BY <4>2, <5>1 DEF CleanLibDir
      <4> QED
        BY <2>2, <4>1, <4>2
    <3>3. SlotsWhole'
      BY <3>1, <3>2 DEF LibsInv, SlotsWhole, FilesWhole
    <3>4. LoadInv' /\ StandbyInv'
      BY <3>1 DEF LoadInv, StandbyInv, QuietPcs
    <3> QED
      BY <3>3, <3>4 DEF LibsInv
  <2>3. CASE CleanPrefs \/ CleanVersion \/ CleanApp
    BY <1>q, <1>r, <2>3, LibsQuiet
       DEF CleanPrefs, OrderCarriedOut, CleanVersion, CleanApp, CleanPcs, AddPcs
  <2> QED
    BY <1>2, <2>1, <2>2, <2>3 DEF Cleaning
<1>3. CASE Adding
  <2>1. CASE \E p \in Patches : QueryAndAdd(p) \/ AddLocal(p)
    <3>1. /\ pc \notin AddPcs /\ pc' = "addClear" /\ got' = {}
          /\ UNCHANGED <<jar, lib>>
      BY <2>1 DEF QueryAndAdd, Withdraw, AddLocal, CallAddPatch, AddPcs
    <3> QED
      BY <3>1 DEF LibsInv, SlotsWhole, FilesWhole, LoadInv, StandbyInv, LoadPcs
  <2>2. CASE \E l \in Libs : AddOpenLib(l) \/ AddFillLib(l)
    BY <2>2, LibsAdd DEF AddOpenLib, AddFillLib, AddPcs
  <2>3. CASE AddClear \/ FailAdd
    BY <2>3, LibsAdd DEF AddClear, FailAdd, Return, AddPcs
  <2>4. CASE AddCopy \/ AddCopied \/ AddVerify
    BY <2>4, LibsAdd DEF AddCopy, AddCopied, AddVerify, AddPcs
  <2>5. CASE AddRecord \/ AddUnzipped \/ AddCommit
    BY <2>5, LibsAdd DEF AddRecord, AddUnzipped, AddCommit, AddPcs
  <2>6. CASE AddDecide
    <3>1. /\ pc = "addDecide" /\ ret = "idle" /\ got = {}
          /\ jar[where] = Whole(cand)
      BY <2>6 DEF AddDecide, AddPcs, IInv, CrashInv, SlotInv,
         InstallProgress, LibsInv, LoadInv
    <3>2. UNCHANGED <<jar, lib, memState>>
      BY <2>6 DEF AddDecide
    <3>3. UNCHANGED Cur
      BY <3>2 DEF Cur
    <3>4. SlotsWhole'
      BY <3>1, <3>2, LibsDecided DEF SlotsWhole, FilesWhole
    <3>5. CASE pc' = "idle"
      BY <3>4, <3>5 DEF LibsInv, LoadInv, StandbyInv, AddPcs, LoadPcs
    <3>6. CASE pc' # "idle"
      <4>1. /\ pc' = "loadVerify" /\ (where # Cur => cand \notin HotPatches)
            /\ UNCHANGED <<ret, cand, where, got>>
        BY <2>6, <3>6 DEF AddDecide, NeedsRelaunch
      <4>2. jar'[where'] = Whole(cand)' /\ pc' \notin AddPcs
        BY <3>1, <3>2, <4>1 DEF Whole, AddPcs
      <4>3. LoadInv' /\ StandbyInv'
        BY <3>1, <3>2, <3>3, <4>1, <4>2 DEF LoadInv, StandbyInv
      <4> QED
        BY <3>4, <4>3 DEF LibsInv
    <3> QED
      BY <3>5, <3>6
  <2> QED
    BY <1>3, <2>1, <2>2, <2>3, <2>4, <2>5, <2>6 DEF Adding
<1>4. CASE Loading
  <2>1. pc \in LoadPcs => pc \notin AddPcs /\ ret \in QuietPcs
    BY <1>r DEF LoadPcs, AddPcs
  <2>2. CASE LoadVerify
    <3>1. CASE pc' = "loadPrepare"
      BY <2>2, <3>1, LibsLoad DEF LoadVerify, EndLoad, Return, LoadPcs
    <3>2. CASE pc' # "loadPrepare"
      BY <2>1, <2>2, <3>2, LibsQuiet DEF LoadVerify, EndLoad, Return, LoadPcs
    <3> QED
      BY <3>1, <3>2
  <2>3. CASE LoadPrepare \/ LoadArm \/ LoadPreload
    BY <2>3, LibsLoad DEF LoadPrepare, LoadArm, LoadPreload, LoadPcs
  <2>4. CASE LoadDisarm \/ LoadForget
    BY <2>4, LibsLoad DEF LoadDisarm, LoadForget, LoadPcs
  <2>5. CASE LoadDex
    <3>1. pc \in LoadPcs /\ pc' \in LoadPcs
      BY <2>5 DEF LoadDex, LoadPcs
    <3>2. where # Cur => ret = "idle" /\ cand \notin HotPatches
      BY <3>1 DEF LibsInv, LoadInv
    <3>3. "dex" \in got' => "dex" \in got \/ where = Cur
      BY <2>5, <3>2 DEF LoadDex, OdexPossible
    <3> QED
      BY <2>5, <3>1, <3>3, LibsLoad DEF LoadDex
  <2>6. CASE FailLoad \/ LoadDone
    BY <2>1, <2>6, LibsQuiet DEF FailLoad, LoadDone, EndLoad, Return, LoadPcs
  <2>7. CASE LoadRes
    BY <2>7, LibsLoad DEF LoadRes, LoadPcs
  <2>8. CASE LoadSo
    BY <2>8, LibsLoad DEF LoadSo, LoadPcs
  <2> QED
    BY <1>4, <2>2, <2>3, <2>4, <2>5, <2>6, <2>7, <2>8 DEF Loading
<1>5. CASE Environment
  <2>1. CASE TimerFires \/ TimerDisarms \/ TimerForgets
    BY <2>1, LibsSame DEF TimerFires, TimerDisarms, TimerForgets
  <2>2. CASE UncaughtException \/ ServerClear \/ PatchDownloaded \/ UpgradeApp
    BY <2>2, LibsSame
       DEF UncaughtException, ServerClear, PatchDownloaded, Withdraw, UpgradeApp
  <2>3. CASE Die
    BY <1>q, <2>3, LibsQuiet DEF Die, MayDie, AddPcs
  <2> QED
    BY <1>5, <2>1, <2>2, <2>3 DEF Environment
<1>6. CASE UNCHANGED vars
  BY <1>6, LibsSame DEF vars
<1> QED
  BY <1>1, <1>2, <1>3, <1>4, <1>5, <1>6 DEF Next

\* What LoadSo injects, in a state of the invariant, is exactly the libraries
\* of the patch it loads.
LEMMA LibsInjected ==
    ASSUME IInv, LibsInv, [Next]_vars, soFrom' \notin {soFrom, NoLibs}
    PROVE  soFrom' = LibsOf(cand)
<1>1. LoadSo
  <2> USE DEF diskVars, clearVars, procVars
  <2>1. ~Starting
    BY DEF Starting, StartProcess, ClearStandbyPatch, ClearStandbyLibs,
       CheckApp, CheckCrash, CheckClear, HandleLocal, EndInit, FailInit
  <2>2. ~Cleaning
    BY DEF Cleaning, CallCleanPatches, CleanPatchDir, CleanLibDir, CleanPrefs, OrderCarriedOut,
       CleanVersion, CleanApp
  <2>3. ~Adding
    BY DEF Adding, QueryAndAdd, Withdraw, AddLocal, CallAddPatch, AddOpenLib, AddFillLib,
       AddClear, FailAdd, Return, AddCopy, AddCopied, AddRecord, AddVerify,
       AddUnzipped, AddCommit, AddDecide
  <2>4. ~Environment
    BY DEF Environment, TimerFires, TimerDisarms, TimerForgets,
       UncaughtException, Die, ServerClear, PatchDownloaded, Withdraw, UpgradeApp
  <2>5. Loading => LoadSo
    BY DEF Loading, LoadVerify, LoadPrepare, LoadArm, LoadDex, LoadPreload,
       LoadDisarm, LoadForget, FailLoad, LoadRes, LoadDone
  <2>6. ~UNCHANGED vars
    BY DEF vars
  <2> QED
    BY <2>1, <2>2, <2>3, <2>4, <2>5, <2>6 DEF Next
<1>2. /\ pc = "loadSo" /\ "dex" \in got /\ LibNamesMatch
      /\ soFrom' = lib[Cur]
  BY <1>1 DEF LoadSo
<1>3. Cur \in Dirs /\ jar[Cur] = Whole(cand) /\ cand \in Patches
  BY <1>2, StateFacts
     DEF LibsInv, LoadInv, LoadPcs, IInv, TypeOK, OpTypeOK
<1>4. \A l \in SoOf[cand] : lib[Cur][l] = Whole(cand)
  BY <1>2, <1>3, FileFacts DEF LibsInv, SlotsWhole, FilesWhole, AddPcs
<1>5. lib[Cur] \in [Libs -> File]
  BY <1>3, StateFacts
<1>6. \A l \in Libs : lib[Cur][l] = IF l \in SoOf[cand] THEN Whole(cand)
                                                        ELSE NoFile
  BY <1>2, <1>4 DEF LibNamesMatch
<1> QED
  BY <1>2, <1>5, <1>6 DEF LibsOf

\* The libraries that loadPatch injects are exactly those of the patch it
\* loads, all complete, although injection compares names only: for any
\* patches and any number of installs, failed installs, cleans and restarts,
\* if no local patch is added and no process dies inside an operation.
THEOREM InjectedLibsSafe ==
    ASSUME ~DebugMode, ~MidOpKills
    PROVE  Spec => InjectedLibsMatch
<1>1. Init => LibsInv
  BY LibsStart
<1>2. IInv /\ LibsInv /\ [Next]_vars => LibsInv'
  BY LibsStep
<1>3. IInv /\ LibsInv /\ [Next]_vars =>
         [soFrom' \notin {soFrom, NoLibs} => soFrom' = LibsOf(cand)]_vars
  BY LibsInjected
<1> QED
  BY <1>1, <1>2, <1>3, IInvAlways, PTL DEF Spec, InjectedLibsMatch
=============================================================================
