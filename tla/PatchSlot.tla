----------------------------- MODULE PatchSlot ------------------------------
(***************************************************************************)
(* What the patch store promises, whatever its directories do.  One slot   *)
(* holds the patch that the next start will load, or none.  It changes     *)
(* only while a patch is being installed (to that patch) or the store is   *)
(* being cleaned (to none).  A patch that was there at the last start, or  *)
(* that the first install of a process brought, is settled: a later        *)
(* install replaces it in one step or not at all.                          *)
(***************************************************************************)
EXTENDS Integers

CONSTANT Patches

VARIABLES
    slot,       \* the patch the next start loads, 0 if none
    settled,    \* an install may not lose it
    work        \* a patch being installed, -1 a clean, 0 nothing

slotVars == <<slot, settled, work>>

Nothing == 0
Cleaning == -1
Idle == 0

Init == slot = Nothing /\ settled = TRUE /\ work = Idle

\* Only an empty slot may be written in place.
Begin(w) ==
    /\ work = Idle /\ work' = w
    /\ settled' = settled \/ (slot = Nothing /\ settled' = FALSE)
    /\ UNCHANGED slot

\* One step of an install, its last one if work' = Idle.
Install ==
    /\ work \in Patches /\ work' \in {work, Idle}
    /\ slot' \in {slot, work} \cup (IF settled THEN {} ELSE {Nothing})
    /\ settled' => (settled /\ slot' = slot) \/ work' = Idle
    /\ settled => settled' \/ slot' = work
    /\ settled' \in BOOLEAN

Clean ==
    /\ work = Cleaning /\ work' \in {work, Idle}
    /\ slot' \in {slot, Nothing}
    /\ settled' \in BOOLEAN

\* The process dies, in whatever it was doing.
Restart ==
    /\ work' = Idle /\ settled' = TRUE
    /\ UNCHANGED slot

Next == (\E w \in Patches \cup {Cleaning} : Begin(w))
            \/ Install \/ Clean \/ Restart

Spec == Init /\ [][Next]_slotVars
=============================================================================
