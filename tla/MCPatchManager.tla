--------------------------- MODULE MCPatchManager ---------------------------
(* Instances of PatchManager for the model checker. *)
EXTENDS PatchManager

\* Patch 1 is a cold patch and patch 2 a hot one; both bring library a, and
\* patch 2 every other library too.  Patch 3 has resources only.
MCSoOf == [p \in Patches |-> CASE p = 1 -> Libs \cap {"a"}
                               [] p = 2 -> Libs
                               [] OTHER -> {}]
MCDexPatches == Patches \cap {1, 2}
MCResPatches == Patches \cap {3}
MCHotPatches == Patches \cap {2}

\* The state without three variables that no guard and no assignment to another
\* variable reads, and of the properties of manager_crash only TypeOK: what
\* runs in the process and what the listener was told.
StoreView == <<diskVars, memState, memVersion, inited, timer, adds, pc, ret,
               cand, newVersion, where, got, todo, crashVars, obsVars>>
=============================================================================
