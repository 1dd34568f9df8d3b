SPECIFICATION Spec
CONSTANTS
    Patches = {1, 2}
    Libs = {"a"}
    SoOf <- MCSoOf
    DexPatches <- MCDexPatches
    ResPatches <- MCResPatches
    HotPatches <- MCHotPatches
    Signed = {1, 2}
    DebugMode = FALSE
    AesKey = FALSE
    CrashLimit = 2
    MaxAdds = 2
    MidOpKills = TRUE
VIEW StoreView
INVARIANTS
    TypeOK
    StoredIsNext
    CrashLoopBounded
    CleanEmptiesStore
    ClearOrderObeyed
PROPERTIES
    CurrentKept
    AtomicReplacement
