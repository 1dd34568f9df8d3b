---------------------------- MODULE JavaMonitor ----------------------------
(* What the monitor of one Java object promises to the program: the        *)
(* contract that the comment above struct Monitor in                       *)
(* src/doc/dalvik.git-android-4.3_r3-vm/Sync.cpp states ("Only one thread  *)
(* can own the monitor at any time. There may be several threads waiting   *)
(* on it (the wait call unlocks it)").  A wait may end at any time, since  *)
(* the source allows spurious wakeups (Sync.cpp:608-611); whom a notify or *)
(* an interrupt must reach is stated on Monitor, which implements this.    *)
EXTENDS Naturals

CONSTANTS Threads,   \* the threads of the program
          NoThread   \* "nobody owns the monitor"

VARIABLES owner,     \* who owns the monitor
          depth,     \* how many times the owner has entered it
          parked     \* parked[t] > 0: t waits, and owned it so many times

vars == <<owner, depth, parked>>

Init == /\ owner = NoThread
        /\ depth = 0
        /\ parked = [t \in Threads |-> 0]

Enter(t) == /\ parked[t] = 0
            /\ \/ owner = NoThread /\ owner' = t
               \/ owner = t /\ UNCHANGED owner
            /\ depth' = depth + 1
            /\ UNCHANGED parked

Exit(t) == /\ owner = t
           /\ depth' = depth - 1
           /\ owner' = IF depth = 1 THEN NoThread ELSE t
           /\ UNCHANGED parked

(* wait(): the whole nesting is given up and remembered *)
Wait(t) == /\ owner = t
           /\ owner' = NoThread
           /\ depth' = 0
           /\ parked' = [parked EXCEPT ![t] = depth]

(* the wait returns once the monitor is owned again, as deep as before *)
Return(t) == /\ owner = NoThread
             /\ parked[t] > 0
             /\ owner' = t
             /\ depth' = parked[t]
             /\ parked' = [parked EXCEPT ![t] = 0]

Next == \E t \in Threads : Enter(t) \/ Exit(t) \/ Wait(t) \/ Return(t)

Spec == Init /\ [][Next]_vars

=============================================================================
