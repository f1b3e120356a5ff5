------------------------------ MODULE OpcLink -------------------------------
(***************************************************************************)
(* The connection to the OPC server: the COM server object, one group of   *)
(* items in it, and the items by name.                                     *)
(*                                                                         *)
(* Two threads make it, with no lock between them: the reconnect thread    *)
(* (RunReConnectOpc), which goes by mConnectOpc, and the reader            *)
(* (ReadOpcDataProcess), which goes by the COM object and also takes the   *)
(* connection down when the item of a console cannot be read.              *)
(***************************************************************************)
EXTENDS Integers, Sequences, FiniteSets

CONSTANTS
    ItemList, \* the names of the items in the order they are added; ROSSET's among them
    Ros,      \* ROSSET: the items of the consoles
    Direct,   \* those of consoles tied to their crane, which are not read
    MaxRuns,  \* bound: times the OPC server is started
    MaxGroups, \* bound: groups made
    MaxRefused \* bound: items the server refuses

ItemNames == {ItemList[n] : n \in 1..Len(ItemList)}
Switched  == Ros \ Direct

ASSUME OpcAssumption ==
    /\ ItemList \in Seq(ItemNames) /\ Len(ItemList) > 0
    /\ Ros \subseteq ItemNames /\ Direct \subseteq Ros
    /\ MaxRuns \in Nat \ {0} /\ MaxGroups \in Nat /\ MaxRefused \in Nat

NoGroup == 0
Threads == {"reconnect", "reader"}

VARIABLES
    up,         \* the OPC server runs
    runs,       \* times it was started
    attached,   \* opc_server: the run of the server it is attached to, 0 for none
    connectOpc, \* mConnectOpc
    group,      \* mOpcGroup
    current,    \* current_group of the server object
    groups,     \* its groups; they are deleted, with their items, when it is disconnected
    made,       \* groups made
    items,      \* mOpcItemMap: item -> the group it was added to, NoGroup when not in the map
    pc,         \* where each thread is
    next,       \* thread -> the item it adds next
    refused,    \* items the server has refused
    raced,      \* history: the two threads have met in one of the ways below
    torn        \* history: a group or an item could not be added

opc == <<up, runs, attached, connectOpc, group, current, groups, made, items, pc, next,
         refused, raced, torn>>

OpcTypeOK ==
    /\ up \in BOOLEAN /\ runs \in 0..MaxRuns /\ attached \in 0..MaxRuns
    /\ connectOpc \in BOOLEAN /\ raced \in BOOLEAN /\ torn \in BOOLEAN
    /\ made \in 0..MaxGroups /\ group \in 0..made /\ current \in 0..made
    /\ groups \subseteq 1..made
    /\ items \in [ItemNames -> 0..made]
    /\ pc \in [Threads -> {"idle", "enter", "attach", "check", "new", "add", "items", "poll"}]
    /\ next \in [Threads -> 1..Len(ItemList)]
    /\ refused \in 0..MaxRefused

OpcInit ==
    /\ up = FALSE /\ runs = 0 /\ attached = 0 /\ connectOpc = FALSE
    /\ group = NoGroup /\ current = NoGroup /\ groups = {} /\ made = 0
    /\ items = [i \in ItemNames |-> NoGroup]
    /\ pc = [t \in Threads |-> "idle"] /\ next = [t \in Threads |-> 1]
    /\ refused = 0 /\ raced = FALSE /\ torn = FALSE

Answers == up /\ attached = runs

Goto(t, where) == pc' = [pc EXCEPT ![t] = where]

\* COPCServer::disconnect
Detach == attached' = 0 /\ current' = NoGroup /\ groups' = {}

-----------------------------------------------------------------------------
(* opcServerConnect, by either thread. *)

Enter(t) ==
    /\ pc[t] = "enter" /\ Goto(t, "attach")
    /\ IF connectOpc
       THEN Detach /\ raced' = (raced \/ groups # {})
       ELSE UNCHANGED <<attached, current, groups, raced>>
    /\ UNCHANGED <<up, runs, connectOpc, group, made, items, next, refused, torn>>

Attach(t) ==
    /\ pc[t] = "attach"
    /\ IF attached # 0 \/ up
       THEN /\ attached' = IF attached # 0 THEN attached ELSE runs
            /\ Goto(t, "check") /\ UNCHANGED connectOpc
       ELSE connectOpc' = FALSE /\ Goto(t, "idle") /\ UNCHANGED attached
    /\ UNCHANGED <<up, runs, group, current, groups, made, items, next, refused, raced, torn>>

\* opcItemAdd makes the group unless there is one.
Check(t) ==
    /\ pc[t] = "check"
    /\ IF group = NoGroup THEN Goto(t, "new") ELSE Goto(t, "items")
    /\ UNCHANGED <<up, runs, attached, connectOpc, group, current, groups, made, items, next,
                   refused, raced, torn>>

NewGroup(t) ==
    /\ pc[t] = "new" /\ made < MaxGroups
    /\ made' = made + 1 /\ group' = made + 1
    /\ raced' = (raced \/ group # NoGroup)
    /\ Goto(t, "add")
    /\ UNCHANGED <<up, runs, attached, connectOpc, current, groups, items, next, refused, torn>>

\* The server has one group of that name; whether it takes it is not looked at.
AddGroup(t) ==
    /\ pc[t] = "add" /\ Goto(t, "items")
    /\ IF Answers /\ groups = {}
       THEN groups' = {group} \ {NoGroup} /\ current' = group /\ UNCHANGED torn
       ELSE torn' = TRUE /\ UNCHANGED <<groups, current>>
    /\ UNCHANGED <<up, runs, attached, connectOpc, group, made, items, next, refused, raced>>

LastItemPassed(t) == next[t] > Len(ItemList) \* mutant: one item too many
LastItem(t) == next[t] = Len(ItemList)

\* An item goes to the current group, if there is one, and into the map,
\* unless its name is there; the connection counts as made in any case.
AddItem(t) ==
    /\ pc[t] = "items"
    /\ LET item == ItemList[next[t]]
       IN  /\ \/ /\ current # NoGroup /\ Answers
                 /\ items' = [items EXCEPT ![item] = IF @ = NoGroup THEN current ELSE @]
                 /\ UNCHANGED <<torn, refused>>
              \/ /\ ~(current # NoGroup /\ Answers)
                 /\ torn' = TRUE /\ UNCHANGED <<items, refused>>
              \/ /\ current # NoGroup /\ Answers /\ refused < MaxRefused
                 /\ refused' = refused + 1 /\ torn' = TRUE /\ UNCHANGED items
           /\ next' = [next EXCEPT ![t] = IF LastItem(t) THEN 1 ELSE @ + 1]
           /\ IF LastItem(t) THEN connectOpc' = TRUE /\ Goto(t, "idle") ELSE UNCHANGED <<connectOpc, pc>>
    /\ UNCHANGED <<up, runs, attached, group, current, groups, made, raced>>

Connects(t) ==
    Enter(t) \/ Attach(t) \/ Check(t) \/ NewGroup(t) \/ AddGroup(t) \/ AddItem(t)

-----------------------------------------------------------------------------
(* RunReConnectOpc *)
Wakes ==
    /\ pc["reconnect"] = "idle" /\ ~connectOpc /\ Goto("reconnect", "enter")
    /\ UNCHANGED <<up, runs, attached, connectOpc, group, current, groups, made, items, next,
                   refused, raced, torn>>

(* ReadOpcDataProcess *)
Polls ==
    /\ pc["reader"] = "idle"
    /\ Goto("reader", IF attached # 0 THEN "poll" ELSE "enter")
    /\ UNCHANGED <<up, runs, attached, connectOpc, group, current, groups, made, items, next,
                   refused, raced, torn>>

\* The items that tell when the server is gone: in the map, and read through
\* a group the server has; through another one the answer is 0.
TellingNone == {} \* mutant: a failed read changes nothing
Telling == {r \in Switched : items[r] # NoGroup /\ group \in groups}

ClearedKept == items \* mutant: opcServerDisconnect leaves the map
Cleared == [i \in ItemNames |-> NoGroup]

\* opcServerDisconnect, when a console's item cannot be read.
Disconnects ==
    /\ pc["reader"] = "poll" /\ Telling # {} /\ ~Answers
    /\ Detach /\ items' = Cleared /\ group' = NoGroup /\ connectOpc' = FALSE
    /\ raced' = (raced \/ pc["reconnect"] # "idle")
    /\ Goto("reader", "idle")
    /\ UNCHANGED <<up, runs, made, next, refused, torn>>

PollEnds ==
    /\ pc["reader"] = "poll" /\ (Telling = {} \/ Answers) /\ Goto("reader", "idle")
    /\ UNCHANGED <<up, runs, attached, connectOpc, group, current, groups, made, items, next,
                   refused, raced, torn>>

ServerStarts ==
    /\ ~up /\ runs < MaxRuns /\ up' = TRUE /\ runs' = runs + 1
    /\ UNCHANGED <<attached, connectOpc, group, current, groups, made, items, pc, next, refused,
                   raced, torn>>
ServerDies ==
    /\ up /\ runs < MaxRuns /\ up' = FALSE
    /\ UNCHANGED <<runs, attached, connectOpc, group, current, groups, made, items, pc, next,
                   refused, raced, torn>>

OpcNext ==
    \/ \E t \in Threads : Connects(t)
    \/ Wakes \/ Polls \/ Disconnects \/ PollEnds \/ ServerStarts \/ ServerDies

\* Both threads go round for ever.
OpcFairness ==
    /\ \A t \in Threads : WF_opc(Connects(t))
    /\ WF_opc(Wakes) /\ WF_opc(Polls) /\ WF_opc(Disconnects \/ PollEnds)

-----------------------------------------------------------------------------
(* An item in the map belongs to the group it is read through, and that      *)
(* group has not been deleted, so long as no thread found a connection just  *)
(* made by the other one, replaced its group, or took it down while it was   *)
(* being made (opcServerConnect, opcServerDisconnect).                       *)
ItemsUsable ==
    ~raced => \A i \in ItemNames : items[i] # NoGroup => items[i] = group /\ group \in groups

(* An OPC server that runs again is connected again, with its consoles'      *)
(* items, although only the failing read of one tells it had been gone; as   *)
(* long as the threads do not meet and the server takes every item           *)
(* (RunReConnectOpc, ReadOpcDataProcess).                                    *)
OpcComesBack ==
    (Switched # {} /\ <>[]up /\ [](~raced /\ ~torn)) =>
        <>[](Answers /\ \A r \in Ros : items[r] # NoGroup)
=============================================================================
