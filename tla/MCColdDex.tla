----------------------------- MODULE MCColdDex -----------------------------
(* Instances of ColdDex for the model checker. *)
EXTENDS ColdDex, TLC

\* The patches are interchangeable, and so are the threads of the executor.
Symmetry == Permutations(Patches) \cup Permutations(Workers)
=============================================================================
