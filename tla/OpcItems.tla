------------------------------ MODULE OpcItems ------------------------------
(***************************************************************************)
(* What the OPC reader does with the items it reads (the loop of           *)
(* CClient::ReadOpcDataProcess): a console's item names the crane it       *)
(* drives, the crane's items the mode and the console's talk button.       *)
(*                                                                         *)
(* An item that cannot be read counts as 0: a console's as its own number, *)
(* a crane's mode as none.  All screens have the same mode, so one row of  *)
(* old values stands for all of them.                                      *)
(***************************************************************************)
EXTENDS Desks

CONSTANTS
    RosSet,    \* ROS_SET: the consoles
    Tied,      \* those tied to the crane of their number (CONNECT_ALWAYS)
    Quiet,     \* desks whose first switch is not sent (mGroupSwitchFirst at first)
    Talkers,   \* desks with a talk button and a device of their own
    Devices,   \* cranes with a device (mAudioDeviceIdMap)
    ItemModes  \* bound: the modes an item may say

ASSUME ItemsAssumption ==
    /\ RosSet \cup Devices \subseteq 1..MaxCrane
    /\ ItemModes \subseteq Nat
    /\ Tied \subseteq RosSet /\ Quiet \subseteq RosSet /\ Talkers \subseteq RosSet

Unread  == [crane |-> 0, mode |-> 0, talk |-> "none"]

VARIABLES
    driven,  \* m_stGroupSwitchState: desk -> the crane it drives, 0 at first
    row,     \* m_MapScreenState: desk -> its cells that are 1
    quiet,   \* mGroupSwitchFirst
    button,  \* mAudioStatusMap: desk -> "none", "up" or "down"
    talks,   \* <<desk, crane>> the broadcast system has connected
    read,    \* history: desk -> what was last read, of a crane that is known
    strays   \* history: desks handed over while talking, or whose last message failed

opcItems == <<driven, row, quiet, button, shows, talks, read, unsent, strays, misses>>

ItemsTypeOK ==
    /\ driven \in [RosSet -> 0..MaxCrane]
    /\ row \in [RosSet -> SUBSET Marks] /\ quiet \subseteq RosSet
    /\ button \in [RosSet -> {"none", "up", "down"}]
    /\ talks \subseteq RosSet \X Devices
    /\ read \in [RosSet -> {Unread} \cup
                   [crane : Rmgs, mode : 0..TopMode, talk : {"up", "down"}]]
    /\ strays \subseteq RosSet

ItemsInit ==
    /\ driven = [d \in RosSet |-> 0] /\ row = [d \in RosSet |-> {}] /\ quiet = Quiet
    /\ button = [d \in RosSet |-> "none"] /\ talks = {}
    /\ read = [d \in RosSet |-> Unread] /\ strays = {}

-----------------------------------------------------------------------------
\* The crane a desk drives when its item says x.
CraneOf(d, x) == IF d \in Tied \/ x = 0 THEN d ELSE x

\* A hand-over forgets the old values of the desk, and those of the desk with
\* the number of the crane it leaves.
ForgottenOther(d, crane) == \* mutant: the latter alone
    [e \in RosSet |-> IF crane # driven[d] /\ e = driven[d] THEN {} ELSE row[e]]
Forgotten(d, crane) ==
    [e \in RosSet |-> IF crane # driven[d] /\ e \in {d, driven[d]} THEN {} ELSE row[e]]

(* OpcSwitchScreen *)

Wanted(mode) == IF mode \in 1..TopMode THEN {mode} ELSE {}
Differs(cells, mode)  == cells \ {0} # Wanted(mode)
Initial(cells, mode)  == Wanted(mode) = {} /\ (Differs(cells, mode) \/ 0 \notin cells)
NewCells(cells, mode) ==
    Wanted(mode) \cup (IF Initial(cells, mode) \/ (0 \in cells /\ ~Differs(cells, mode))
                       THEN {0} ELSE {})
PlanAsked(mode) == IF mode \in 1..TopMode THEN mode ELSE 0

\* The screens of the desk a plan is found for.
Found(d, crane, mode, cells) ==
    IF Differs(cells, mode) \/ Initial(cells, mode)
    THEN {x \in Displayed : x[1] = d /\ HasPlan(x, crane, PlanAsked(mode))}
    ELSE {}

Switches(d, crane, mode, lost) ==
    LET cells == Forgotten(d, crane)[d]
        found == Found(d, crane, mode, cells)
        sent  == IF d \in quiet THEN {} ELSE found \ lost
    IN  /\ row' = [Forgotten(d, crane) EXCEPT ![d] = NewCells(@, mode)]
        /\ shows' = [x \in Displayed |-> IF x \in sent THEN <<crane, PlanAsked(mode)>> ELSE shows[x]]
        /\ unsent' = (unsent \cup found) \ sent
        /\ quiet' = quiet \ {d}

(* Broadcast: what is not found or fails is not tried again.                 *)

AudioChangesDown(d, state) == state = "down" /\ button[d] # state \* mutant: a release goes unseen
AudioChanges(d, state) == button[d] # state

HandedTalking(d, crane) == crane # driven[d] /\ button[d] = "down"

Broadcasts(d, crane, state, fails) ==
    IF d \in Talkers /\ AudioChanges(d, state)
    THEN LET done == crane \in Devices /\ ~fails
         IN  /\ button' = [button EXCEPT ![d] = state]
             /\ talks' = IF ~done THEN talks
                         ELSE IF state = "down" THEN talks \cup {<<d, crane>>}
                         ELSE talks \ {<<d, crane>>}
             /\ strays' = IF \A x \in talks' : x[1] # d THEN strays \ {d}
                          ELSE IF ~done \/ HandedTalking(d, crane) THEN strays \cup {d}
                          ELSE strays
    ELSE /\ strays' = IF HandedTalking(d, crane) THEN strays \cup {d} ELSE strays
         /\ UNCHANGED <<button, talks>>

(* One turn of the loop. *)

KnownCrane(d, crane, mode, state, lost, fails) ==
    /\ crane \in Rmgs
    /\ Switches(d, crane, mode, lost)
    /\ Broadcasts(d, crane, state, fails)
    /\ read' = [read EXCEPT ![d] = [crane |-> crane, mode |-> PlanAsked(mode), talk |-> state]]

\* A crane that is not configured: nothing is switched, the button not read.
UnknownCrane(d, crane) ==
    /\ crane \notin Rmgs
    /\ row' = Forgotten(d, crane)
    /\ strays' = IF HandedTalking(d, crane) THEN strays \cup {d} ELSE strays
    /\ UNCHANGED <<quiet, button, shows, talks, read, unsent>>

\* At most one picture or message of a turn does not get through.
Reads(d) ==
    \E crane \in {CraneOf(d, x) : x \in 0..MaxCrane} :
        /\ \/ UnknownCrane(d, crane) /\ UNCHANGED misses
           \/ \E mode \in ItemModes, state \in (IF d \in Talkers THEN {"up", "down"} ELSE {"up"}) :
                 \/ KnownCrane(d, crane, mode, state, {}, FALSE) /\ UNCHANGED misses
                 \/ /\ Miss
                    /\ \/ \E y \in Displayed :
                             y[1] = d /\ KnownCrane(d, crane, mode, state, {y}, FALSE)
                       \/ d \in Talkers /\ KnownCrane(d, crane, mode, state, {}, TRUE)
        /\ driven' = [driven EXCEPT ![d] = crane]

ItemsNext == \E d \in RosSet : Reads(d)

-----------------------------------------------------------------------------
(* A TV wall shows the mode its console's crane was last read to have,       *)
(* through hand-overs, modes without a plan and cranes that are not          *)
(* configured, unless that picture was lost or not sent as the console's     *)
(* first (ReadOpcDataProcess, OpcSwitchScreen).                              *)
OpcShown ==
    \A d \in RosSet, x \in Displayed :
        (x[1] = d /\ HasPlan(x, read[d].crane, read[d].mode) /\ x \notin unsent)
            => shows[x] = <<read[d].crane, read[d].mode>>

(* A console whose talk button is up is connected to no crane, unless it was *)
(* handed over while it talked or a message to the broadcast system failed   *)
(* (Broadcast).                                                              *)
TalkEnds ==
    \A d \in RosSet \ strays :
        read[d].talk = "up" => \A x \in talks : x[1] # d
=============================================================================
