-------------------------------- MODULE Desks -------------------------------
(***************************************************************************)
(* What the readers of OPC and of Modbus data have in common: consoles     *)
(* (desks) whose screens show a crane's plan for a mode, sent to the TV    *)
(* walls by CClientManager::ScreenSwitch2TVWALL.                           *)
(***************************************************************************)
EXTENDS Integers, FiniteSets

CONSTANTS
    Rmgs,      \* the cranes with data of their own (RMG_SET, DB_GROUP of modbus.ini)
    MaxCrane,  \* bound: the highest crane or console number that is read
    TopMode,   \* nModeMax
    Displayed, \* <<desk, screen>> with a TV wall (m_Group2PcMap)
    Planned,   \* <<crane, screen, mode>> with a plan (m_GroupPCScreen)
    MaxMissed  \* bound: messages to TV walls and to the broadcast system that fail

ASSUME DesksAssumption ==
    /\ MaxCrane \in Nat /\ Rmgs \subseteq 1..MaxCrane
    /\ TopMode \in Nat \ {0} /\ MaxMissed \in Nat
    /\ \A x \in Displayed : x[1] \in 1..MaxCrane /\ x[2] \in 1..15
    /\ \A p \in Planned : p[1] \in Rmgs /\ p[3] \in 0..TopMode

VARIABLES
    shows,   \* <<desk, screen>> -> the <<crane, mode>> whose plan the TV wall shows
    unsent,  \* history: <<desk, screen>> whose last picture was lost, or not sent
    misses   \* messages that failed

Marks   == 0..TopMode \* cells of old values; 0: the initial picture was sent
Nothing == <<0, 0>>

DesksTypeOK ==
    /\ shows \in [Displayed -> {Nothing} \cup Rmgs \X Marks]
    /\ unsent \subseteq Displayed /\ misses \in 0..MaxMissed

DesksInit == shows = [x \in Displayed |-> Nothing] /\ unsent = {} /\ misses = 0

Miss == misses < MaxMissed /\ misses' = misses + 1

\* The plan of a crane for a mode of a screen is found, on a desk's display.
HasPlan(x, crane, mode) == x \in Displayed /\ <<crane, x[2], mode>> \in Planned
=============================================================================
