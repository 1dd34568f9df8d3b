SPECIFICATION Spec
CONSTANTS
    Patches = {1, 2, 3}
    Libs = {"a", "b"}
    SoOf <- MCSoOf
    DexPatches <- MCDexPatches
    ResPatches <- MCResPatches
    HotPatches <- MCHotPatches
    Signed = {1, 2, 3}
    DebugMode = TRUE
    AesKey = TRUE
    CrashLimit = 1
    MaxAdds = 1
    MidOpKills = FALSE
PROPERTIES
    InjectedLibsMatch
