--------------------------- MODULE MCScreenSwitch ---------------------------
(***************************************************************************)
(* Two cranes; console 2, which shares its number with a crane and has one *)
(* screen, and console 3, which no group file describes; modes 1 and 2     *)
(* with PLC bits beside the initial mode 0; a free-mode point on crane 2,  *)
(* which also switches with the height of its hoist.                       *)
(***************************************************************************)
EXTENDS ScreenSwitch, TLC

MCConsoles     == {2, 3}
MCScreens      == {1}
MCPlcScreenAdd == {<<1, 1>>, <<1, 2>>}
MCPlans        == {1, 2} \X {1} \X {0, 1, 2}
MCGroup2Pc     == <<2, 1>> :> "wallA"
MCFreeModes    == 1 :> <<>> @@ 2 :> <<[screen |-> 1, mode |-> 2]>>
MCHeightModes  == 2 :> (0 :> <<>> @@ 1 :> <<[screen |-> 1, mode |-> 2]>>)
MCNoHeightModes == <<>>
MCNoFreeModes  == 1 :> <<>> @@ 2 :> <<>>

\* Crane 1 asks for any set of modes; crane 2 for mode 1 or none, with its
\* free-mode point set or not, or, on console 2, with its hoist at height 1.
MCDBImages ==
    1 :> {img \in Image(1) : img.height = 0}
    @@ 2 :> {img \in Image(2) :
                /\ <<1, 2>> \notin img.bits
                /\ img.height = 1 => img.console = 2 /\ img.free = {} /\ img.bits = {}}
\* A crane takes console 3 or none, and asks for one mode at most.
MCHandoverImages ==
    [c \in 1..2 |-> {img \in Image(c) : img.console # 2 /\ <<1, 2>> \notin img.bits /\ img.height = 0}]

\* Priorities that rank the modes, and priorities that tie, as on every screen
\* of the shipped General.ini (1,1,65,0,1 / 1,2,65,1,2 / 1,3,65,2,1).
MCRanked == <<1, 1>> :> 2 @@ <<1, 2>> :> 1
MCTied   == <<1, 1>> :> 1 @@ <<1, 2>> :> 1
\* The hand-over is looked at on console 3, whose number no crane has.
MCHandoverGroup2Pc == <<3, 1>> :> "wallB"
=============================================================================
