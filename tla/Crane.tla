------------------------------- MODULE Crane --------------------------------
(***************************************************************************)
(* What the operations of one poll of the PLC reader share: the cranes and *)
(* their cameras as the group files name them, the consoles with a TV wall,*)
(* and the data block (DB) of each crane as it was last handled.           *)
(***************************************************************************)
EXTENDS Integers, FiniteSets

CONSTANTS
    NumCranes,    \* cranes 1..NumCranes (m_GroupDBMap)
    Consoles,     \* console numbers; a wall of console c shows what is sent to c
    WallConsoles, \* the consoles with a TV wall (m_Group2PcMap)
    NumIpcs,      \* camera indices 1..NumIpcs of a crane (below nPtzNum)
    Known         \* <<crane, ipc>> with a camera (m_GroupIpcId); indices may have gaps

Cranes == 1..NumCranes
Ipcs   == 1..NumIpcs

ASSUME CraneAssumption ==
    /\ NumCranes \in Nat \ {0} /\ NumIpcs \in Nat
    /\ Consoles \subseteq Nat \ {0}
    /\ WallConsoles \subseteq Consoles
    /\ Known \subseteq Cranes \X Ipcs

VARIABLES
    bound, \* m_stGroupSwitchState: crane -> the console it was last seen on, 0 for none
    plc    \* history: crane -> its DB as last handled

\* A message to camera i made in a poll is lost on its way, or none is: at
\* most one of a poll, named by its camera and what it says.
NoLoss == <<0, "none">>

\* A message by way of a console's TV wall needs that console to have one.
HasWall(console) == console \in WallConsoles

\* Both the crane's last switch value and this one are 0: nothing is done.
Skipped(g, img) == bound[g] = 0 /\ img.console = 0
=============================================================================
