----------------------------- MODULE WallMemory -----------------------------
(***************************************************************************)
(* What the program promises about the pictures on the TV walls, without   *)
(* threads, messages or heartbeats: a screen has one plan asked for last,  *)
(* and each half of what it shows - the split (SCREEN_CUT) and the cameras *)
(* (MAP_IPC) - is nothing or has become that plan, never an earlier one    *)
(* again.  TvWallLink implements it.                                       *)
(***************************************************************************)
CONSTANTS Walls, Screens, Plans, NoPlan

VARIABLES
    asked,  \* wall -> screen -> the plan asked for last, plans being numbered
    shows   \* wall -> screen -> [cut, map]: the plan each half is of

memory == <<asked, shows>>

Init ==
    /\ asked = [w \in Walls |-> [s \in Screens |-> NoPlan]]
    /\ shows = [w \in Walls |-> [s \in Screens |-> [cut |-> NoPlan, map |-> NoPlan]]]

\* A new plan is asked for a screen.
Ask(w, s) ==
    /\ \E p \in Plans \ {NoPlan} : asked' = [asked EXCEPT ![w][s] = p]
    /\ UNCHANGED shows

\* One half of the screen takes up the plan asked for last.
TakeUp(w, s) ==
    /\ \/ shows' = [shows EXCEPT ![w][s].cut = asked[w][s]]
       \/ shows' = [shows EXCEPT ![w][s].map = asked[w][s]]
    /\ UNCHANGED asked

\* The wall loses its pictures, all screens at once.
Dark(w) ==
    /\ shows' = [shows EXCEPT ![w] = [s \in Screens |-> [cut |-> NoPlan, map |-> NoPlan]]]
    /\ UNCHANGED asked

Next == \E w \in Walls : Dark(w) \/ \E s \in Screens : Ask(w, s) \/ TakeUp(w, s)

Spec == Init /\ [][Next]_memory
=============================================================================
