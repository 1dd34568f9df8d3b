---------------------------- MODULE CrashHandler ----------------------------
(***************************************************************************)
(* The crash counter of the hot-fix manager: class manager.a (the default  *)
(* uncaught-exception handler), the preference happ_crash_num it writes,   *)
(* and PatchManager.j / PatchManager.k, which arm and disarm it around the *)
(* first seconds of a patch.  The module holds the state and the effect of *)
(* each operation; PatchManager schedules them.                            *)
(***************************************************************************)
EXTENDS Integers

VARIABLES
    crashNum,   \* preference happ_crash_num (0 when the key is absent)
    armed,      \* field b: the handler is the process's default handler
    crashed,    \* field a: an uncaught exception went through the handler
    count       \* field c: the handler's own counter, read at class init

crashVars == <<crashNum, armed, crashed, count>>

\* The class has not been initialised in this process yet.
Unloaded == -1

CrashTypeOK ==
    /\ crashNum \in Nat
    /\ armed \in BOOLEAN
    /\ crashed \in BOOLEAN
    /\ count \in Nat \cup {Unloaded}

CrashInit ==
    /\ crashNum = 0
    /\ armed = FALSE
    /\ crashed = FALSE
    /\ count = Unloaded

\* The static instance copies the preference the first time the class is used.
CountAfterUse(pref) == IF count = Unloaded THEN pref ELSE count

\* PatchManager.j, first half: add one to the stored counter.
CountLoad ==
    /\ crashNum' = crashNum + 1
    /\ UNCHANGED <<armed, crashed, count>>

\* PatchManager.j, second half: install the handler.
ArmHandler ==
    /\ armed' = TRUE
    /\ count' = CountAfterUse(crashNum)
    /\ UNCHANGED <<crashNum, crashed>>

\* The test PatchManager.k makes before it disarms.
MayDisarm == armed /\ ~crashed

\* PatchManager.k, first half: put the previous handler back.
DisarmHandler ==
    /\ armed' = FALSE
    /\ UNCHANGED <<crashNum, crashed, count>>

\* PatchManager.k, second half: remove the preference.
RemoveCount ==
    /\ crashNum' = 0
    /\ UNCHANGED <<armed, crashed, count>>

\* uncaughtException of anything but an OutOfMemoryError: the counter written
\* is the handler's own, not the stored one plus one.
CountCrash ==
    /\ armed
    /\ crashed' = TRUE
    /\ count' = count + 1
    /\ crashNum' = count + 1
    /\ armed' = FALSE

\* Process death: only the preference survives.
ForgetHandler ==
    /\ armed' = FALSE
    /\ crashed' = FALSE
    /\ count' = Unloaded
    /\ UNCHANGED crashNum
=============================================================================
