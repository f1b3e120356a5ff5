------------------------------ MODULE CranePoll -----------------------------
(***************************************************************************)
(* One poll of a crane's DB apart from the switching of screens, which     *)
(* ScreenSwitch models: cameras, preset points and free cuts, in the order *)
(* ReadPLCDataProcess calls them, with m_lockClient held.                  *)
(*                                                                         *)
(* Cranes are polled in any order here: no operation looks at another      *)
(* crane's DB, and a lost connection only leaves polls out.                *)
(***************************************************************************)
EXTENDS CameraControl, PresetPoints, FreeCuts

CONSTANTS
    Parts,        \* the sets of operations a site may configure in General.ini
    DBImages,     \* part -> crane -> the images of its DB that matter there
    MaxLosses,    \* bound: messages lost, calls of preset points apart
    MaxRefreshes, \* bound: refreshes of the group configuration
    FileParts     \* bound: the parts checked with refreshes and restarts, which only they depend on

VARIABLES part, losses, refreshes

vars == <<bound, plc, camera, preset, cuts, part, losses, refreshes>>

Heights == 0..32767 \* the two bytes of the hoist's height, the high one below 128
Image == [console : {0} \cup Consoles, sel : SUBSET Ipcs, buttons : [Ipcs -> SUBSET Buttons],
          feet : Nat, height : Heights, double : BOOLEAN, call : BOOLEAN,
          cuts : [Cuts -> {0} \cup Ipcs],
          plan : {NoSwitch} \cup PlanScreens \X Splits]
Blank == [console |-> 0, sel |-> {}, buttons |-> [i \in Ipcs |-> {}], feet |-> 0, height |-> 0,
          double |-> FALSE, call |-> FALSE, cuts |-> [k \in Cuts |-> 0],
          plan |-> NoSwitch]

ASSUME PollAssumption ==
    /\ \A p \in Parts, g \in Cranes : DBImages[p][g] \subseteq Image
    /\ MaxLosses \in Nat /\ MaxRefreshes \in Nat

TypeOK ==
    /\ part \in Parts
    /\ losses \in 0..MaxLosses /\ refreshes \in 0..MaxRefreshes
    /\ bound \in [Cranes -> {0} \cup Consoles]
    /\ DOMAIN plc = Cranes /\ \A g \in Cranes : plc[g] \in Image
    /\ CameraTypeOK /\ PresetTypeOK /\ CutsTypeOK

Init ==
    /\ part \in Parts
    /\ losses = 0 /\ refreshes = 0
    /\ bound = [g \in Cranes |-> 0] /\ plc = [g \in Cranes |-> Blank]
    /\ CameraInit /\ PresetInit /\ CutsInit

-----------------------------------------------------------------------------
\* At most one message of a poll gets lost.
Loses(lost) ==
    IF lost = NoLoss THEN UNCHANGED losses ELSE losses < MaxLosses /\ losses' = losses + 1

\* What a poll does to every operation of crane g on img.
Operates(g, img) ==
    \E wild \in WildZooms(img), fails \in SUBSET Tried(g, img) :
        LET sent == CameraMessages(g, img, wild)
        IN  \E lost \in sent \cup CutMessages(g, img) \cup {NoLoss} :
            /\ Loses(lost)
            /\ CameraPoll(g, img, sent, lost, wild)
            /\ PresetPoll(g, img, fails)
            /\ CutsPoll(g, img, lost)

\* A crane that was and is on no console is left out.
Poll(g) ==
    /\ \E img \in DBImages[part][g] :
         IF Skipped(g, img) THEN UNCHANGED <<bound, plc, camera, preset, cuts, losses>>
         ELSE /\ Operates(g, img)
              /\ bound' = [bound EXCEPT ![g] = img.console]
              /\ plc' = [plc EXCEPT ![g] = img]
    /\ UNCHANGED <<part, refreshes>>

\* After a pass, InitGroupData reads the group files again.
Refreshes ==
    /\ part \in FileParts /\ refreshes < MaxRefreshes /\ refreshes' = refreshes + 1
    /\ PresetRefresh /\ CutsRefresh
    /\ UNCHANGED <<bound, plc, camera, part, losses>>

Restarts ==
    /\ part \in FileParts /\ \E c \in WallConsoles : WallRestarts(c)
    /\ UNCHANGED <<bound, plc, camera, preset, part, losses, refreshes>>

Next == (\E g \in Cranes : Poll(g)) \/ Refreshes \/ Restarts

Spec == Init /\ [][Next]_vars
=============================================================================
