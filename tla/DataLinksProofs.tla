--------------------------- MODULE DataLinksProofs --------------------------
(***************************************************************************)
(* What is proved of DataLinks: camera states on the PLC, items of the OPC *)
(* server, talks that end, and a joystick let go, for all servers, cameras,*)
(* items, desks, cranes, stick positions and bounds.                       *)
(***************************************************************************)
EXTENDS DataLinks, Numbers, TLAPS

-----------------------------------------------------------------------------
(* Camera states.  What is stored is what was last heard, and the registers  *)
(* say it of every camera but the ones in vain.                              *)

LinkInv ==
    /\ mode \in Modes
    /\ connected \in [Servers -> BOOLEAN]
    /\ stored \in [Servers -> [Cams -> States]]
    /\ shown \in [Servers -> [Cams -> BOOLEAN]]
    /\ heard = stored
    /\ \A s \in Servers : connected[s] => s \in Clients
    /\ \A s \in Servers, c \in Cams : <<s, c>> \notin vain => shown[s][c] = On(stored[s][c])

LEMMA ClientsAreServers == Clients \subseteq Servers
  BY LinkAssumption DEF Clients

\* What the steps of the other sources leave alone.
LEMMA LinkUntouched == LinkInv /\ UNCHANGED <<mode, link>> => LinkInv'
  BY DEF LinkInv, link, Clients

LEMMA LinkStarts == Init => LinkInv
  <1> SUFFICES ASSUME Init PROVE LinkInv
    OBVIOUS
  <1>1. PICK left \in [Cams -> BOOLEAN] :
            shown = [s \in Servers |-> [c \in Cams |-> s \in Clients /\ left[c]]]
    BY DEF Init, LinkInit
  <1>2. shown \in [Servers -> [Cams -> BOOLEAN]]
    BY <1>1
  <1>3. stored \in [Servers -> [Cams -> States]] /\ heard = stored
    BY DEF Init, LinkInit, States
  <1>4. ASSUME NEW s \in Servers, NEW c \in Cams, <<s, c>> \notin vain
        PROVE  shown[s][c] = On(stored[s][c])
    <2>1. ~shown[s][c]
      BY <1>4 DEF Init, LinkInit
    <2>2. stored[s][c] = 0
      BY DEF Init, LinkInit
    <2>3. QED
      BY <1>2, <2>1, <2>2 DEF On
  <1>5. connected \in [Servers -> BOOLEAN] /\ \A s \in Servers : ~connected[s]
    BY DEF Init, LinkInit
  <1>6. QED
    BY <1>2, <1>3, <1>4, <1>5 DEF LinkInv, Init

\* A report reaches the registers of the servers that take it, or is in vain.
LEMMA ReportKept ==
    ASSUME LinkInv, NEW c \in Cams, NEW state \in States, Reports(c, state)
    PROVE  LinkInv'
  <1> DEFINE takes == {s \in Clients : Takes(s, c, state)}
  <1> USE ClientsAreServers
  <1>1. PICK fails \in SUBSET takes :
          /\ stored' = [s \in Servers |->
                IF s \in takes THEN [stored[s] EXCEPT ![c] = state] ELSE stored[s]]
          /\ shown' = [s \in Servers |->
                IF s \in takes \ fails THEN [shown[s] EXCEPT ![c] = On(state)] ELSE shown[s]]
          /\ vain' = (vain \ {<<s, c>> : s \in takes})
                       \cup {<<s, c>> : s \in {f \in fails : connected[f]}}
          /\ heard' = [s \in Servers |->
                IF connected[s] THEN [heard[s] EXCEPT ![c] = state] ELSE heard[s]]
          /\ UNCHANGED <<mode, connected, session, reachable>>
    BY DEF Reports
  <1> HIDE DEF takes
  <1>2. \A s \in Servers : s \in takes <=> connected[s] /\ state # stored[s][c]
    BY DEF takes, Takes, LinkInv
  <1>3. stored' \in [Servers -> [Cams -> States]]
    BY <1>1 DEF LinkInv
  <1>4. shown' \in [Servers -> [Cams -> BOOLEAN]]
    BY <1>1 DEF LinkInv, On
  <1>5. heard' = stored'
    <2>1. ASSUME NEW s \in Servers
          PROVE  (IF connected[s] THEN [heard[s] EXCEPT ![c] = state] ELSE heard[s])
                   = (IF s \in takes THEN [stored[s] EXCEPT ![c] = state] ELSE stored[s])
      <3>1. CASE s \in takes
        BY <1>2, <3>1 DEF LinkInv
      <3>2. CASE s \notin takes /\ connected[s]
        <4>1. stored[s][c] = state /\ stored[s] \in [Cams -> States]
          BY <1>2, <3>2 DEF LinkInv
        <4>2. [stored[s] EXCEPT ![c] = state] = stored[s]
          BY <4>1
        <4>3. QED
          BY <3>2, <4>2 DEF LinkInv
      <3>3. CASE s \notin takes /\ ~connected[s]
        BY <3>3 DEF LinkInv
      <3>4. QED
        BY <3>1, <3>2, <3>3
    <2>2. QED
      BY <1>1, <2>1
  <1>6. ASSUME NEW s \in Servers, NEW d \in Cams, <<s, d>> \notin vain'
        PROVE  shown'[s][d] = On(stored'[s][d])
    <2>1. CASE d = c /\ s \in takes
      <3>1. s \notin fails
        BY <1>1, <1>2, <1>6, <2>1
      <3>2. QED
        BY <1>1, <2>1, <3>1 DEF LinkInv
    <2>2. CASE d # c \/ s \notin takes
      <3>1. <<s, d>> \notin vain
        BY <1>1, <1>6, <2>2
      <3>2. shown'[s][d] = shown[s][d] /\ stored'[s][d] = stored[s][d]
        BY <1>1, <2>2 DEF LinkInv
      <3>3. QED
        BY <3>1, <3>2 DEF LinkInv
    <2>3. QED
      BY <2>1, <2>2
  <1>7. QED
    BY <1>1, <1>3, <1>4, <1>5, <1>6 DEF LinkInv, Clients

LEMMA LinkKept == LinkInv /\ LinkNext => LinkInv'
  <1> SUFFICES ASSUME LinkInv, LinkNext PROVE LinkInv'
    OBVIOUS
  <1>1. ASSUME NEW s \in Servers, Login(s) PROVE LinkInv'
    BY <1>1 DEF LinkInv, Login, Clients
  <1>2. ASSUME NEW s \in Servers, ReadFails(s) PROVE LinkInv'
    BY <1>2 DEF LinkInv, ReadFails, Clients
  <1>3. ASSUME NEW s \in Servers, LinkBreaks(s) PROVE LinkInv'
    BY <1>3 DEF LinkInv, LinkBreaks, Clients
  <1>4. ASSUME NEW s \in Servers, LinkMended(s) PROVE LinkInv'
    BY <1>4 DEF LinkInv, LinkMended, Clients
  <1>5. ASSUME NEW s \in Servers, ServerRestarts(s) PROVE LinkInv'
    <2>1. /\ shown' = [shown EXCEPT ![s] = [c \in Cams |-> FALSE]]
          /\ vain' = vain \cup {<<s, c>> : c \in {k \in Cams : shown[s][k]}}
          /\ UNCHANGED <<mode, connected, stored, heard>>
      BY <1>5 DEF ServerRestarts
    <2>2. shown' \in [Servers -> [Cams -> BOOLEAN]]
      BY <2>1 DEF LinkInv
    <2>3. ASSUME NEW t \in Servers, NEW c \in Cams, <<t, c>> \notin vain'
          PROVE  shown'[t][c] = On(stored'[t][c])
      <3>1. <<t, c>> \notin vain /\ shown[t][c] = On(stored[t][c])
        BY <2>1, <2>3 DEF LinkInv
      <3>2. CASE t = s
        BY <2>1, <2>3, <3>1, <3>2 DEF LinkInv, On
      <3>3. CASE t # s
        BY <2>1, <3>1, <3>3 DEF LinkInv
      <3>4. QED
        BY <3>2, <3>3
    <2>4. QED
      BY <2>1, <2>2, <2>3 DEF LinkInv, Clients
  <1>6. ASSUME NEW c \in Cams, NEW state \in States, Reports(c, state) PROVE LinkInv'
    BY <1>6, ReportKept
  <1>7. QED
    BY <1>1, <1>2, <1>3, <1>4, <1>5, <1>6 DEF LinkNext

LEMMA LinkStep == LinkInv /\ [Next]_vars => LinkInv'
  <1> SUFFICES ASSUME LinkInv, [Next]_vars PROVE LinkInv'
    OBVIOUS
  <1>1. LinkNext \/ UNCHANGED <<mode, link>>
    BY DEF Next, vars, ItemsNext
  <1>2. QED
    BY <1>1, LinkKept, LinkUntouched

(* What a server's registers say of a camera is the state last reported      *)
(* while it was connected, however many servers and cameras there are and    *)
(* whatever fails (CheckWriteIpcState, WriteIpcState).                       *)
THEOREM StateOnPlcHolds == Spec => []StateOnPlc
  <1>1. LinkInv => StateOnPlc
    BY ClientsAreServers DEF LinkInv, StateOnPlc
  <1>2. QED
    BY <1>1, LinkStarts, LinkStep, PTL DEF Spec
-----------------------------------------------------------------------------
(* The OPC connection.  As long as the two threads have not met, a group     *)
(* that is current is the program's own, and alone on the server: so items   *)
(* go to no other, and none is left when a new group is made.                *)

OpcInv ==
    /\ DOMAIN items = ItemNames
    /\ ~raced => /\ ItemsUsable
                 /\ current # NoGroup => current = group /\ group \in groups
                 /\ NoGroup \notin groups

LEMMA OpcUntouched == OpcInv /\ UNCHANGED <<items, raced, current, group, groups>> => OpcInv'
  BY DEF OpcInv, ItemsUsable

\* What one thread does of connecting.
LEMMA ConnectsKept == ASSUME OpcInv, NEW t \in Threads, Connects(t) PROVE OpcInv'
  <1>1. CASE Enter(t)
    <2>1. groups # {} /\ connectOpc => raced'
      BY <1>1 DEF Enter
    <2>2. QED
      BY <1>1, <2>1 DEF Enter, Detach, OpcInv, ItemsUsable
  <1>2. CASE Attach(t) \/ Check(t)
    BY <1>2, OpcUntouched DEF Attach, Check
  <1>3. CASE NewGroup(t)
    <2>1. raced' <=> raced \/ group # NoGroup
      BY <1>3 DEF NewGroup
    <2>2. QED
      BY <1>3, <2>1 DEF NewGroup, OpcInv, ItemsUsable
  <1>4. CASE AddGroup(t)
    <2>1. CASE UNCHANGED <<groups, current>>
      BY <1>4, <2>1, OpcUntouched DEF AddGroup
    <2>2. CASE groups = {} /\ groups' = {group} \ {NoGroup} /\ current' = group
      BY <1>4, <2>2 DEF AddGroup, OpcInv, ItemsUsable
    <2>3. QED
      BY <1>4, <2>1, <2>2 DEF AddGroup
  <1>5. CASE AddItem(t)
    <2> DEFINE item == ItemList[next[t]]
    <2>1. UNCHANGED <<raced, current, group, groups>>
      BY <1>5 DEF AddItem
    <2>2. CASE UNCHANGED items
      BY <2>1, <2>2, OpcUntouched
    <2>3. CASE current # NoGroup /\ items' = [items EXCEPT ![item] = IF @ = NoGroup THEN current ELSE @]
      <3>1. \A i \in ItemNames : items'[i] = items[i] \/ items'[i] = current
        BY <2>3 DEF OpcInv
      <3>2. QED
        BY <2>1, <2>3, <3>1 DEF OpcInv, ItemsUsable
    <2>4. QED
      BY <1>5, <2>2, <2>3 DEF AddItem
  <1>6. QED
    BY <1>1, <1>2, <1>3, <1>4, <1>5 DEF Connects

LEMMA OpcStep == OpcInv /\ [Next]_vars => OpcInv'
  <1> SUFFICES ASSUME OpcInv, [Next]_vars PROVE OpcInv'
    OBVIOUS
  <1>1. CASE Disconnects
    BY <1>1 DEF Disconnects, Detach, Cleared, OpcInv, ItemsUsable
  <1>2. CASE UNCHANGED <<items, raced, current, group, groups>>
    BY <1>2, OpcUntouched
  <1>3. QED
    BY <1>1, <1>2, ConnectsKept
       DEF Next, OpcNext, Wakes, Polls, PollEnds, ServerStarts, ServerDies, vars, opc

(* An item in the map belongs to the group it is read through, and that      *)
(* group is not deleted, through every login, lost server and refused item,  *)
(* as long as the two threads have not met (opcServerConnect,                *)
(* opcServerDisconnect).                                                     *)
THEOREM ItemsUsableHolds == Spec => []ItemsUsable
  <1>1. Init => OpcInv
    BY DEF Init, OpcInit, OpcInv, ItemsUsable
  <1>2. OpcInv => ItemsUsable
    BY DEF OpcInv, ItemsUsable
  <1>3. QED
    BY <1>1, <1>2, OpcStep, PTL DEF Spec

-----------------------------------------------------------------------------
(* The joystick.  What moves and has not strayed is the selected camera, and *)
(* only while ptzStatus says start.                                          *)

JoyInv ==
    /\ status \in {"start", "stop"}
    /\ moving \subseteq strayed \cup CameraAt(select)
    /\ stick = Middle \/ status = "stop" => moving \subseteq strayed

\* What the camera may be told.
Commands == {"nothing", "start", "stop"}

\* Two commands in a row, of which one may be lost.
LEMMA OperatesKeeps ==
    ASSUME JoyInv, NEW first \in Commands, NEW second \in Commands,
           Operates(first, second), UNCHANGED select
    PROVE  /\ status' \in {"start", "stop"}
           /\ status' = After(After(status, first), second)
           /\ moving' \subseteq strayed' \cup CameraAt(select)'
           /\ status' = "stop" => moving' \subseteq strayed'
  <1> DEFINE command == <<first, second>>
             between == After(status, first)
             before  == <<status, between>>
             sent    == {i \in {1, 2} : Anew(before[i], command[i])}
             camera  == CameraAt(select)
  <1>1. PICK lost \in {{}} \cup {{i} : i \in sent} :
          LET last == IF sent \ lost = {} THEN "nothing"
                      ELSE command[CHOOSE i \in sent \ lost : \A j \in sent \ lost : j <= i]
          IN  /\ status' = After(between, second)
              /\ moving' = CASE last = "start" -> moving \cup camera
                             [] last = "stop"  -> moving \ camera
                             [] OTHER -> moving
              /\ strayed' = IF last = "stop" THEN strayed \ camera
                            ELSE IF \E i \in lost : command[i] = "stop" THEN strayed \cup camera
                            ELSE strayed
    BY DEF Operates
  <1>2. (1 \in sent <=> first \notin {"nothing", status})
        /\ (2 \in sent <=> second \notin {"nothing", between}) /\ sent \subseteq {1, 2}
    BY DEF Anew
  <1>3. between = (IF 1 \in sent THEN first ELSE status)
        /\ status' = (IF 2 \in sent THEN second ELSE between)
    BY <1>1, <1>2 DEF Anew, After
  <1> DEFINE last == IF sent \ lost = {} THEN "nothing"
                     ELSE command[CHOOSE i \in sent \ lost : \A j \in sent \ lost : j <= i]
  <1>4. last = (IF 2 \in sent \ lost THEN second ELSE IF 1 \in sent \ lost THEN first ELSE "nothing")
    <2>1. CASE 2 \in sent \ lost
      <3>1. (CHOOSE i \in sent \ lost : \A j \in sent \ lost : j <= i) = 2
        BY <1>2, <2>1
      <3>2. QED
        BY <2>1, <3>1
    <2>2. CASE 2 \notin sent \ lost /\ 1 \in sent \ lost
      <3>1. sent \ lost = {1}
        BY <1>2, <2>2
      <3>2. (CHOOSE i \in sent \ lost : \A j \in sent \ lost : j <= i) = 1
        BY <3>1
      <3>3. QED
        BY <2>2, <3>1, <3>2
    <2>3. CASE sent \ lost = {}
      BY <2>3
    <2>4. QED
      BY <1>2, <2>1, <2>2, <2>3
  <1>5. /\ last = "start" => moving' = moving \cup camera
        /\ last = "stop" => moving' = moving \ camera /\ strayed' = strayed \ camera
        /\ last \notin {"start", "stop"} => moving' = moving
        /\ last # "stop" => strayed' = IF \E i \in lost : command[i] = "stop"
                                       THEN strayed \cup camera ELSE strayed
    BY <1>1, Zenon
  <1>6. lost = {} \/ (lost = {1} /\ 1 \in sent) \/ (lost = {2} /\ 2 \in sent)
    BY <1>1, <1>2
  <1>7. (\E i \in lost : command[i] = "stop")
          <=> (lost = {1} /\ first = "stop") \/ (lost = {2} /\ second = "stop")
    BY <1>6
  <1>8. CameraAt(select)' = camera
    BY DEF CameraAt
  <1> HIDE DEF command, between, before, sent, camera, last
  <1>9. status' = After(After(status, first), second)
    BY <1>1 DEF between
  <1>10. QED
    BY <1>2, <1>3, <1>4, <1>5, <1>6, <1>7, <1>8, <1>9 DEF JoyInv, Commands, camera

LEMMA ToldCommands ==
    ASSUME NEW axis, NEW value PROVE Told(axis, value) \in Commands
  BY DEF Told, Commands

LEMMA JoyMoves ==
    ASSUME JoyInv, NEW x, NEW y, NEW z, Moves(x, y, z)
    PROVE  JoyInv'
  <1>1. stick' = <<x, y, z>> /\ select' = select
    BY DEF Moves
  <1>2. CASE CameraAt(select) = {}
    BY <1>1, <1>2 DEF Moves, JoyInv, CameraAt
  <1>3. CASE CameraAt(select) # {} /\ x = 0 /\ y = 0
    <2>1. Operates(IF z # 0 THEN "start" ELSE "stop", "nothing")
      BY <1>3 DEF Moves, ZoomsBy
    <2>2. stick' = Middle => z = 0
      BY <1>1 DEF Middle
    <2>3. z = 0 => After(After(status, "stop"), "nothing") = "stop"
      BY DEF After, Anew, JoyInv
    <2>4. CASE z = 0
      BY <1>1, <2>1, <2>3, <2>4, OperatesKeeps DEF JoyInv, Commands
    <2>5. CASE z # 0
      BY <1>1, <2>1, <2>2, <2>5, OperatesKeeps DEF JoyInv, Commands
    <2>6. QED
      BY <2>4, <2>5
  <1>4. CASE CameraAt(select) # {} /\ ~(x = 0 /\ y = 0)
    <2>1. Operates(Told("x", x), Told("y", y))
      BY <1>4 DEF Moves, Pans
    <2>2. stick' # Middle
      BY <1>1, <1>4 DEF Middle
    <2>3. QED
      BY <1>1, <2>1, <2>2, OperatesKeeps, ToldCommands DEF JoyInv
  <1>5. QED
    BY <1>2, <1>3, <1>4

LEMMA JoyStep == JoyInv /\ [Next]_vars => JoyInv'
  <1> SUFFICES ASSUME JoyInv, [Next]_vars PROVE JoyInv'
    OBVIOUS
  <1>1. JoystickNext \/ UNCHANGED joy
    BY DEF Next, vars
  <1>2. ASSUME NEW b \in Buttons, Selects(b) PROVE JoyInv'
    BY <1>2 DEF JoyInv, Selects, AfterSelect, CameraAt
  <1>3. ASSUME NEW back \in BOOLEAN, TurnsPage(back) PROVE JoyInv'
    BY <1>3 DEF JoyInv, TurnsPage, CameraAt
  <1>4. ASSUME NEW p \in Positions, Moves(p[1], p[2], p[3]) PROVE JoyInv'
    BY <1>4, JoyMoves
  <1>5. CASE UNCHANGED joy
    BY <1>5 DEF JoyInv, joy, CameraAt
  <1>6. QED
    BY <1>1, <1>2, <1>3, <1>4, <1>5 DEF JoystickNext

(* With the stick back in its middle every camera has been told to stop, for *)
(* any buttons, cameras, ways of the stick and losses, unless it was left    *)
(* while it moved or its stop was lost (DealZoomOperate, OperatePtz).        *)
THEOREM StickRestsHolds == Spec => []StickRests
  <1>1. Init => JoyInv
    BY DEF Init, JoystickInit, JoyInv
  <1>2. JoyInv => StickRests
    BY DEF JoyInv, StickRests
  <1>3. QED
    BY <1>1, <1>2, JoyStep, PTL DEF Spec
-----------------------------------------------------------------------------
(* The consoles of OPC mode.  Old values, where there are any, are those of  *)
(* the crane last read and of its mode; and a console that has not strayed   *)
(* is connected, if at all, to the crane it drives, its button being down.   *)

DeskInv(d) ==
    /\ row[d] # {} => /\ read[d].crane = driven[d]
                      /\ row[d] \ {0} = Wanted(read[d].mode)
    /\ read[d].mode \in 0..TopMode
    /\ mode # "opc items" => read[d] = Unread

TalkInv(d) ==
    /\ d \notin strays => \A x \in talks : x[1] = d => button[d] = "down" /\ x[2] = driven[d]
    /\ \A x \in talks : x[1] = d => d \in Talkers
    /\ d \in Talkers => read[d].talk = button[d]

ItemsInv ==
    /\ driven \in [RosSet -> 0..MaxCrane] /\ row \in [RosSet -> SUBSET Marks]
    /\ button \in [RosSet -> {"none", "up", "down"}]
    /\ DOMAIN read = RosSet /\ talks \subseteq RosSet \X Devices
    /\ \A d \in RosSet : DeskInv(d) /\ TalkInv(d)
    /\ OpcShown

\* The mode asked for and the cells of its row are one and the same.
LEMMA AskedIsWanted ==
    ASSUME NEW asks
    PROVE  PlanAsked(asks) \in 0..TopMode /\ Wanted(PlanAsked(asks)) = Wanted(asks)
  BY DesksAssumption DEF PlanAsked, Wanted

LEMMA WantedIsAsked ==
    ASSUME NEW asks, NEW was \in 0..TopMode, Wanted(was) = Wanted(asks)
    PROVE  was = PlanAsked(asks)
  BY DesksAssumption DEF PlanAsked, Wanted

\* A plan that is there and not sent was sent before: the old values say so.
LEMMA NotFoundIsOld ==
    ASSUME NEW d, NEW crane, NEW asks, NEW old, NEW x \in Displayed,
           x[1] = d, HasPlan(x, crane, PlanAsked(asks)), x \notin Found(d, crane, asks, old)
    PROVE  old # {} /\ old \ {0} = Wanted(asks)
  BY DEF Found, Differs, Initial

LEMMA CellsAreWanted ==
    ASSUME NEW old, NEW asks
    PROVE  NewCells(old, asks) \ {0} = Wanted(asks) /\ NewCells(old, asks) \subseteq Marks
  BY DesksAssumption DEF NewCells, Wanted, Marks

\* One turn of the loop, as far as pictures go.
LEMMA TurnShown ==
    ASSUME ItemsInv, mode = "opc items", UNCHANGED mode,
           NEW d \in RosSet, NEW crane \in 0..MaxCrane, NEW asks, NEW state, NEW lost, NEW fails,
           KnownCrane(d, crane, asks, state, lost, fails),
           driven' = [driven EXCEPT ![d] = crane]
    PROVE  OpcShown' /\ row' \in [RosSet -> SUBSET Marks] /\ DOMAIN read' = RosSet
           /\ \A e \in RosSet : DeskInv(e)'
  <1> DEFINE old   == Forgotten(d, crane)[d]
             found == Found(d, crane, asks, old)
             sent  == IF d \in quiet THEN {} ELSE found \ lost
  <1>1. /\ row' = [Forgotten(d, crane) EXCEPT ![d] = NewCells(@, asks)]
        /\ shows' = [x \in Displayed |-> IF x \in sent THEN <<crane, PlanAsked(asks)>> ELSE shows[x]]
        /\ unsent' = (unsent \cup found) \ sent
        /\ read' = [read EXCEPT ![d] = [crane |-> crane, mode |-> PlanAsked(asks), talk |-> state]]
    BY DEF KnownCrane, Switches
  <1>2. \A x \in found : x[1] = d
    BY DEF Found
  <1>3. old \in SUBSET Marks /\ (old # {} => crane = driven[d] /\ old = row[d])
    BY DEF Forgotten, ItemsInv
  <1>4. read'[d].crane = crane /\ read'[d].mode = PlanAsked(asks)
        /\ \A e \in RosSet \ {d} : read'[e] = read[e]
    BY <1>1 DEF ItemsInv
  <1>5. ASSUME NEW e \in RosSet, NEW x \in Displayed, x[1] = e,
               HasPlan(x, read'[e].crane, read'[e].mode), x \notin unsent'
        PROVE  shows'[x] = <<read'[e].crane, read'[e].mode>>
    <2>1. CASE e # d
      <3>1. x \notin found /\ x \notin unsent
        BY <1>1, <1>2, <1>5, <2>1
      <3>2. shows'[x] = shows[x] /\ read'[e] = read[e]
        BY <1>1, <1>4, <2>1, <3>1
      <3>3. QED
        BY <1>5, <3>1, <3>2 DEF ItemsInv, OpcShown
    <2>2. CASE e = d /\ x \in found
      BY <1>1, <1>4, <1>5, <2>2
    <2>3. CASE e = d /\ x \notin found
      <3> HIDE DEF old, found
      <3>1. old # {} /\ old \ {0} = Wanted(asks)
        <4>1. HasPlan(x, crane, PlanAsked(asks)) /\ x[1] = d
          BY <1>4, <1>5, <2>3
        <4>2. QED
          BY <2>3, <4>1, NotFoundIsOld DEF found
      <3>2. read[d].crane = crane /\ Wanted(read[d].mode) = Wanted(asks)
        BY <1>3, <3>1 DEF ItemsInv, DeskInv
      <3>3. read[d].mode = PlanAsked(asks)
        BY <3>2, WantedIsAsked DEF ItemsInv, DeskInv
      <3>4. x \notin unsent /\ shows'[x] = shows[x]
        BY <1>1, <1>5, <2>3
      <3>5. QED
        <4>1. HasPlan(x, read[d].crane, read[d].mode)
          BY <1>4, <1>5, <2>3, <3>2, <3>3
        <4>2. shows[x] = <<read[d].crane, read[d].mode>>
          BY <1>5, <2>3, <3>4, <4>1 DEF ItemsInv, OpcShown
        <4>3. QED
          BY <1>4, <2>3, <3>2, <3>3, <3>4, <4>2
    <2>4. QED
      BY <2>1, <2>2, <2>3
  <1>6. OpcShown'
    BY <1>5 DEF OpcShown, HasPlan
  <1>7. ASSUME NEW e \in RosSet PROVE DeskInv(e)'
    <2>1. CASE e = d
      <3>1. row'[d] \ {0} = Wanted(asks)
        BY <1>1, CellsAreWanted DEF Forgotten
      <3>2. driven'[d] = crane
        BY DEF ItemsInv
      <3>3. read'[d].mode \in 0..TopMode /\ Wanted(read'[d].mode) = Wanted(asks)
        BY <1>4, AskedIsWanted
      <3>4. QED
        BY <1>4, <2>1, <3>1, <3>2, <3>3 DEF DeskInv, Wanted
    <2>2. CASE e # d
      <3>1. row'[e] \in {{}, row[e]}
        BY <1>1, <2>2 DEF Forgotten
      <3>2. driven'[e] = driven[e] /\ read'[e] = read[e]
        BY <1>4, <2>2 DEF ItemsInv
      <3>3. QED
        BY <3>1, <3>2 DEF DeskInv, ItemsInv, Wanted
    <2>3. QED
      BY <2>1, <2>2
  <1>8. row' \in [RosSet -> SUBSET Marks]
    BY <1>1, CellsAreWanted DEF Forgotten, ItemsInv
  <1>9. DOMAIN read' = RosSet
    BY <1>1 DEF ItemsInv
  <1>10. QED
    BY <1>6, <1>7, <1>8, <1>9

\* The same as far as talks go.
LEMMA TurnTalks ==
    ASSUME ItemsInv, NEW d \in RosSet, NEW crane \in 0..MaxCrane, NEW asks,
           NEW state \in {"up", "down"}, NEW lost, NEW fails \in BOOLEAN,
           KnownCrane(d, crane, asks, state, lost, fails),
           driven' = [driven EXCEPT ![d] = crane]
    PROVE  button' \in [RosSet -> {"none", "up", "down"}] /\ talks' \subseteq RosSet \X Devices
           /\ \A e \in RosSet : TalkInv(e)'
  <1>1. Broadcasts(d, crane, state, fails)
        /\ read' = [read EXCEPT ![d] = [crane |-> crane, mode |-> PlanAsked(asks), talk |-> state]]
    BY DEF KnownCrane
  <1>2. read'[d].talk = state /\ driven'[d] = crane
        /\ \A e \in RosSet \ {d} : read'[e] = read[e] /\ driven'[e] = driven[e]
    BY <1>1 DEF ItemsInv
  <1>3. TalkInv(d) /\ button \in [RosSet -> {"none", "up", "down"}]
    BY DEF ItemsInv
  <1>4. CASE d \in Talkers /\ AudioChanges(d, state)
    <2> DEFINE done == crane \in Devices /\ ~fails
    <2>1. /\ button' = [button EXCEPT ![d] = state]
          /\ talks' = IF ~done THEN talks
                      ELSE IF state = "down" THEN talks \cup {<<d, crane>>}
                      ELSE talks \ {<<d, crane>>}
          /\ strays' = IF \A x \in talks' : x[1] # d THEN strays \ {d}
                       ELSE IF ~done \/ HandedTalking(d, crane) THEN strays \cup {d}
                       ELSE strays
      BY <1>1, <1>4 DEF Broadcasts
    <2> HIDE DEF done
    <2>2. \A x : x[1] # d => (x \in talks' <=> x \in talks)
      BY <2>1
    <2>3. \A x \in talks' : x[1] = d => x \in talks \/ (x = <<d, crane>> /\ state = "down")
      BY <2>1
    <2>4. button'[d] = state
      BY <1>3, <2>1
    <2>5. ASSUME d \notin strays', NEW x \in talks', x[1] = d
          PROVE  state = "down" /\ x[2] = crane
      <3>1. done /\ ~HandedTalking(d, crane) /\ d \notin strays
        BY <2>1, <2>5
      <3>2. CASE state = "down"
        <4>1. button[d] # "down"
          BY <1>4, <3>2 DEF AudioChanges
        <4>2. x \notin talks
          BY <1>3, <2>5, <3>1, <4>1 DEF TalkInv
        <4>3. QED
          BY <2>3, <2>5, <3>2, <4>2
      <3>3. CASE state = "up"
        <4>1. x \in talks /\ x # <<d, crane>>
          BY <2>1, <2>5, <3>1, <3>3
        <4>2. button[d] = "down" /\ x[2] = driven[d]
          BY <1>3, <2>5, <3>1, <4>1 DEF TalkInv
        <4>3. crane = driven[d]
          BY <3>1, <4>2 DEF HandedTalking
        <4>4. QED
            BY <2>5, <4>1, <4>2, <4>3 DEF ItemsInv
      <3>4. QED
        BY <3>2, <3>3
    <2>6. TalkInv(d)'
      BY <1>2, <1>4, <2>4, <2>5 DEF TalkInv
    <2>7. ASSUME NEW e \in RosSet \ {d} PROVE TalkInv(e)'
      <3>1. button'[e] = button[e] /\ (e \in strays' <=> e \in strays)
        BY <1>3, <2>1
      <3>2. TalkInv(e)
        BY DEF ItemsInv
      <3>3. QED
        BY <1>2, <2>2, <3>1, <3>2 DEF TalkInv
    <2>8. talks' \subseteq RosSet \X Devices
      BY <2>1 DEF ItemsInv, done
    <2>9. QED
      BY <1>3, <2>1, <2>6, <2>7, <2>8
  <1>5. CASE ~(d \in Talkers /\ AudioChanges(d, state))
    <2>1. /\ strays' = IF HandedTalking(d, crane) THEN strays \cup {d} ELSE strays
          /\ button' = button /\ talks' = talks
      BY <1>1, <1>5 DEF Broadcasts
    <2>2. d \in Talkers => state = button[d]
      BY <1>5 DEF AudioChanges
    <2>3. ASSUME NEW e \in RosSet PROVE TalkInv(e)'
      <3>1. TalkInv(e)
        BY DEF ItemsInv
      <3>2. CASE e = d
        BY <1>2, <2>1, <2>2, <3>1, <3>2 DEF TalkInv, HandedTalking
      <3>3. CASE e # d
        BY <1>2, <2>1, <3>1, <3>3 DEF TalkInv
      <3>4. QED
        BY <3>2, <3>3
    <2>4. QED
      BY <1>3, <2>1, <2>3 DEF ItemsInv
  <1>6. QED
    BY <1>4, <1>5

\* A crane that is not configured: the old values and the talk are left behind.
LEMMA TurnUnknown ==
    ASSUME ItemsInv, mode = "opc items", UNCHANGED mode,
           NEW d \in RosSet, NEW crane \in 0..MaxCrane, UnknownCrane(d, crane),
           driven' = [driven EXCEPT ![d] = crane]
    PROVE  ItemsInv'
  <1>1. /\ row' = Forgotten(d, crane)
        /\ strays' = IF HandedTalking(d, crane) THEN strays \cup {d} ELSE strays
        /\ UNCHANGED <<button, shows, talks, read, unsent>>
    BY DEF UnknownCrane
  <1>2. \A e \in RosSet : row'[e] \in {{}, row[e]} /\ (row'[e] # {} => driven'[e] = driven[e])
    BY <1>1 DEF Forgotten, ItemsInv
  <1>3. ASSUME NEW e \in RosSet PROVE DeskInv(e)'
    BY <1>1, <1>2 DEF DeskInv, ItemsInv, Wanted
  <1>4. ASSUME NEW e \in RosSet PROVE TalkInv(e)'
    <2>1. TalkInv(e)
      BY DEF ItemsInv
    <2>2. CASE e = d
      BY <1>1, <2>1, <2>2 DEF TalkInv, HandedTalking, ItemsInv
    <2>3. CASE e # d
      BY <1>1, <2>1, <2>3 DEF TalkInv, ItemsInv
    <2>4. QED
      BY <2>2, <2>3
  <1>5. row' \in [RosSet -> SUBSET Marks]
    BY <1>1 DEF Forgotten, ItemsInv
  <1>6. OpcShown'
    BY <1>1 DEF OpcShown, ItemsInv, HasPlan
  <1>7. QED
    BY <1>1, <1>3, <1>4, <1>5, <1>6 DEF ItemsInv

LEMMA DesksAreNumbers == RosSet \subseteq 0..MaxCrane
  BY ItemsAssumption, DesksAssumption

LEMMA ItemsTurn ==
    ASSUME ItemsInv, mode = "opc items", UNCHANGED mode, NEW d \in RosSet, Reads(d)
    PROVE  ItemsInv'
  <1>1. PICK crane \in {CraneOf(d, x) : x \in 0..MaxCrane} :
          /\ \/ UnknownCrane(d, crane)
             \/ \E asks \in ItemModes, state \in {"up", "down"}, lost \in SUBSET Displayed,
                   fails \in BOOLEAN : KnownCrane(d, crane, asks, state, lost, fails)
          /\ driven' = [driven EXCEPT ![d] = crane]
    <2>1. \A y \in Displayed : {y} \in SUBSET Displayed
      OBVIOUS
    <2>2. {} \in SUBSET Displayed /\ "up" \in {"up", "down"} /\ TRUE \in BOOLEAN /\ FALSE \in BOOLEAN
      OBVIOUS
    <2>3. \A state : state \in (IF d \in Talkers THEN {"up", "down"} ELSE {"up"})
                        => state \in {"up", "down"}
      OBVIOUS
    <2>4. QED
      BY <2>1, <2>2, <2>3, ZenonT(60) DEF Reads
  <1>2. crane \in 0..MaxCrane
    <2>1. d \in 0..MaxCrane
      BY DesksAreNumbers
    <2>2. PICK x \in 0..MaxCrane : crane = CraneOf(d, x)
      BY <1>1
    <2>3. QED
      BY <2>1, <2>2 DEF CraneOf
  <1>3. driven' \in [RosSet -> 0..MaxCrane]
    BY <1>1, <1>2 DEF ItemsInv
  <1>4. CASE UnknownCrane(d, crane)
    BY <1>1, <1>2, <1>4, TurnUnknown
  <1>5. ASSUME NEW asks \in ItemModes, NEW state \in {"up", "down"},
               NEW lost \in SUBSET Displayed, NEW fails \in BOOLEAN,
               KnownCrane(d, crane, asks, state, lost, fails)
        PROVE  ItemsInv'
    <2>1. OpcShown' /\ row' \in [RosSet -> SUBSET Marks] /\ DOMAIN read' = RosSet
          /\ \A e \in RosSet : DeskInv(e)'
      BY <1>1, <1>2, <1>5, TurnShown
    <2>2. button' \in [RosSet -> {"none", "up", "down"}] /\ talks' \subseteq RosSet \X Devices
          /\ \A e \in RosSet : TalkInv(e)'
      BY <1>1, <1>2, <1>5, TurnTalks
    <2>3. QED
      BY <1>3, <2>1, <2>2 DEF ItemsInv
  <1>6. QED
    BY <1>1, <1>4, <1>5

LEMMA ItemsStart == Init => ItemsInv
  <1> SUFFICES ASSUME Init PROVE ItemsInv
    OBVIOUS
  <1> USE DesksAssumption, ItemsAssumption
  <1>1. \A d \in RosSet : row[d] = {} /\ read[d] = Unread /\ button[d] = "none"
    BY DEF Init, ItemsInit
  <1>2. talks = {} /\ driven \in [RosSet -> 0..MaxCrane] /\ row \in [RosSet -> SUBSET Marks]
        /\ button \in [RosSet -> {"none", "up", "down"}] /\ DOMAIN read = RosSet
    BY DEF Init, ItemsInit
  <1>3. OpcShown
    BY <1>1 DEF OpcShown, HasPlan, Unread
  <1>4. ASSUME NEW d \in RosSet PROVE DeskInv(d) /\ TalkInv(d)
    <2>1. Unread.mode \in 0..TopMode /\ Unread.talk = "none"
      BY DEF Unread
    <2>2. QED
      BY <1>1, <1>2, <2>1 DEF DeskInv, TalkInv
  <1>5. QED
    BY <1>2, <1>3, <1>4 DEF ItemsInv

\* The connections leave the mode alone.
LEMMA LinkUnmoved == LinkNext => UNCHANGED mode
  BY DEF LinkNext, Login, ReadFails, LinkBreaks, LinkMended, ServerRestarts, Reports

LEMMA ItemsStep == ItemsInv /\ [Next]_vars => ItemsInv'
  <1> SUFFICES ASSUME ItemsInv, [Next]_vars PROVE ItemsInv'
    OBVIOUS
  <1>1. CASE mode = "opc items" /\ ItemsNext /\ UNCHANGED mode
    BY <1>1, ItemsTurn DEF ItemsNext
  <1>2. CASE UNCHANGED <<mode, opcItems>>
    BY <1>2 DEF ItemsInv, opcItems, DeskInv, TalkInv, OpcShown, HasPlan
  <1>3. CASE mode = "modbus items" /\ UNCHANGED <<mode, driven, row, button, talks, read, strays>>
    <2>1. OpcShown'
      <3>1. \A d \in RosSet : read'[d] = Unread
        BY <1>3 DEF ItemsInv, DeskInv
      <3>2. \A x : ~HasPlan(x, Unread.crane, Unread.mode)
        BY DesksAssumption DEF HasPlan, Unread
      <3>3. QED
        BY <3>1, <3>2 DEF OpcShown, HasPlan
    <2>2. QED
      BY <1>3, <2>1 DEF ItemsInv, DeskInv, TalkInv
  <1>4. QED
    BY <1>1, <1>2, <1>3, LinkUnmoved DEF Next, vars, opcItems

(* A TV wall shows the mode its console's crane was last read to have, for   *)
(* any consoles, cranes, plans and modes, unless that picture was lost or    *)
(* not sent as the console's first (OpcSwitchScreen).                        *)
THEOREM OpcShownHolds == Spec => []OpcShown
  <1>1. ItemsInv => OpcShown
    BY DEF ItemsInv
  <1>2. QED
    BY <1>1, ItemsStart, ItemsStep, PTL DEF Spec

(* A console whose talk button is up is connected to no crane, unless it was *)
(* handed over while it talked or a message failed (Broadcast).              *)
THEOREM TalkEndsHolds == Spec => []TalkEnds
  <1>1. ItemsInv => TalkEnds
    BY DEF ItemsInv, TalkInv, TalkEnds
  <1>2. QED
    BY <1>1, ItemsStart, ItemsStep, PTL DEF Spec
-----------------------------------------------------------------------------
(* Types: each source keeps those of its own variables. *)

LEMMA TypesStart == Init => TypeOK
  <1> SUFFICES ASSUME Init PROVE TypeOK
    OBVIOUS
  <1>1. LinkTypeOK
    <2>1. PICK left \in [Cams -> BOOLEAN] :
              shown = [s \in Servers |-> [c \in Cams |-> s \in Clients /\ left[c]]]
      BY DEF Init, LinkInit
    <2>2. shown \in [Servers -> [Cams -> BOOLEAN]]
      BY <2>1
    <2>3. faults \in 0..MaxFaults /\ vain \subseteq Servers \X Cams
      BY LinkAssumption DEF Init, LinkInit
    <2>4. QED
      BY <2>2, <2>3 DEF Init, LinkInit, LinkTypeOK, States
  <1>2. OpcTypeOK
    <2>1. Len(ItemList) \in Nat \ {0}
      BY OpcAssumption
    <2>2. next \in [Threads -> 1..Len(ItemList)]
      BY <2>1 DEF Init, OpcInit
    <2>3. items \in [ItemNames -> 0..made] /\ made \in 0..MaxGroups
      BY OpcAssumption DEF Init, OpcInit, NoGroup
    <2>4. runs \in 0..MaxRuns /\ attached \in 0..MaxRuns /\ refused \in 0..MaxRefused
      BY OpcAssumption DEF Init, OpcInit
    <2>5. group \in 0..made /\ current \in 0..made /\ groups \subseteq 1..made
      BY DEF Init, OpcInit, NoGroup
    <2>6. QED
      BY <2>2, <2>3, <2>4, <2>5 DEF Init, OpcInit, OpcTypeOK
  <1>3. DesksTypeOK
    BY DesksAssumption DEF Init, DesksInit, DesksTypeOK
  <1>4. ItemsTypeOK
    BY DesksAssumption, ItemsAssumption DEF Init, ItemsInit, ItemsTypeOK
  <1>5. ModbusTypeOK
    BY DEF Init, ModbusInit, ModbusTypeOK
  <1>6. JoystickTypeOK
    BY JoystickAssumption DEF Init, JoystickInit, JoystickTypeOK, Buttons, StepMax
  <1>7. QED
    BY <1>1, <1>2, <1>3, <1>4, <1>5, <1>6 DEF Init, TypeOK

LEMMA LinkKeepsTypes == ASSUME mode \in Modes, LinkTypeOK, LinkNext PROVE mode' \in Modes /\ LinkTypeOK'
  <1> USE LinkAssumption DEF LinkTypeOK, Fault, Clients
  <1>1. ASSUME NEW s \in Servers, Login(s) \/ ReadFails(s)
        PROVE  mode' \in Modes /\ LinkTypeOK'
    <2>1. CASE Login(s)
      <3>1. faults' \in 0..MaxFaults
        BY <2>1 DEF Login
      <3>2. session' \in [Servers -> {"none", "live", "dead"}] /\ connected' \in [Servers -> BOOLEAN]
        BY <2>1 DEF Login
      <3>3. QED
        BY <2>1, <3>1, <3>2 DEF Login
    <2>2. CASE ReadFails(s)
      <3>1. faults' \in 0..MaxFaults
        BY <2>2 DEF ReadFails
      <3>2. session' \in [Servers -> {"none", "live", "dead"}] /\ connected' \in [Servers -> BOOLEAN]
        BY <2>2 DEF ReadFails
      <3>3. QED
        BY <2>2, <3>1, <3>2 DEF ReadFails
    <2>3. QED
      BY <1>1, <2>1, <2>2
  <1>a. ASSUME NEW s \in Servers, LinkBreaks(s)
        PROVE  mode' \in Modes /\ LinkTypeOK'
    BY <1>a DEF LinkBreaks
  <1>b. ASSUME NEW s \in Servers, LinkMended(s)
        PROVE  mode' \in Modes /\ LinkTypeOK'
    BY <1>b DEF LinkMended
  <1>2. ASSUME NEW s \in Servers, ServerRestarts(s) PROVE mode' \in Modes /\ LinkTypeOK'
    BY <1>2 DEF ServerRestarts
  <1>3. ASSUME NEW c \in Cams, NEW state \in States, Reports(c, state) PROVE mode' \in Modes /\ LinkTypeOK'
    <2> DEFINE takes == {s \in Clients : Takes(s, c, state)}
    <2>1. PICK fails \in SUBSET takes :
            /\ IF \E s \in fails : session[s] = "live" THEN Fault ELSE UNCHANGED faults
            /\ stored' = [s \in Servers |->
                  IF s \in takes THEN [stored[s] EXCEPT ![c] = state] ELSE stored[s]]
            /\ shown' = [s \in Servers |->
                  IF s \in takes \ fails THEN [shown[s] EXCEPT ![c] = On(state)] ELSE shown[s]]
            /\ vain' = (vain \ {<<s, c>> : s \in takes})
                         \cup {<<s, c>> : s \in {f \in fails : connected[f]}}
            /\ heard' = [s \in Servers |->
                  IF connected[s] THEN [heard[s] EXCEPT ![c] = state] ELSE heard[s]]
            /\ UNCHANGED <<mode, connected, session, reachable>>
      BY <1>3 DEF Reports
    <2>2. takes \subseteq Servers
      OBVIOUS
    <2> HIDE DEF takes
    <2>3. stored' \in [Servers -> [Cams -> States]] /\ heard' \in [Servers -> [Cams -> States]]
      BY <2>1
    <2>4. shown' \in [Servers -> [Cams -> BOOLEAN]]
      BY <2>1 DEF On
    <2>5. vain' \subseteq Servers \X Cams
      BY <2>1, <2>2
    <2>6. faults' \in 0..MaxFaults
      BY <2>1
    <2>7. QED
      BY <2>1, <2>3, <2>4, <2>5, <2>6
  <1>4. QED
    BY <1>1, <1>a, <1>b, <1>2, <1>3 DEF LinkNext

LEMMA ConnectsKeepsTypes == ASSUME OpcTypeOK, NEW t \in Threads, Connects(t) PROVE OpcTypeOK'
  <1> USE DEF OpcTypeOK, Goto
  <1>1. CASE Enter(t)
    <2>1. raced' \in BOOLEAN
      BY <1>1 DEF Enter
    <2>2. \/ attached' = 0 /\ current' = 0 /\ groups' = {}
          \/ UNCHANGED <<attached, current, groups>>
      BY <1>1 DEF Enter, Detach, NoGroup
    <2>a. attached' \in 0..MaxRuns /\ current' \in 0..made
      BY <2>2, OpcAssumption
    <2>b. groups' \subseteq 1..made
      BY <2>2
    <2>3. pc' = [pc EXCEPT ![t] = "attach"]
          /\ UNCHANGED <<up, runs, connectOpc, group, made, items, next, refused, torn>>
      BY <1>1 DEF Enter
    <2>4. QED
      BY <2>1, <2>a, <2>b, <2>3
  <1>2. CASE Attach(t)
    BY <1>2 DEF Attach
  <1>3. CASE Check(t)
    BY <1>3 DEF Check
  <1>4. CASE NewGroup(t)
    BY <1>4, OpcAssumption DEF NewGroup
  <1>5. CASE AddGroup(t)
    <2>1. torn' \in BOOLEAN
      BY <1>5 DEF AddGroup
    <2>2. \/ groups' = {group} \ {0} /\ current' = group
          \/ UNCHANGED <<groups, current>>
      BY <1>5 DEF AddGroup, NoGroup
    <2>a. current' \in 0..made
      BY <2>2
    <2>b. groups' \subseteq 1..made
      <3>1. group # 0 => group \in 1..made
        BY OpcAssumption
      <3>2. QED
        BY <2>2, <3>1
    <2>3. pc' = [pc EXCEPT ![t] = "items"]
          /\ UNCHANGED <<up, runs, attached, connectOpc, group, made, items, next, refused, raced>>
      BY <1>5 DEF AddGroup
    <2>4. QED
      BY <2>1, <2>a, <2>b, <2>3
  <1>6. CASE AddItem(t)
    <2>1. Len(ItemList) \in Nat \ {0}
      BY OpcAssumption
    <2>2. next[t] \in 1..Len(ItemList)
      OBVIOUS
    <2>3. next' = [next EXCEPT ![t] = IF LastItem(t) THEN 1 ELSE @ + 1]
      BY <1>6 DEF AddItem
    <2>4. next' \in [Threads -> 1..Len(ItemList)]
      BY <2>1, <2>2, <2>3 DEF LastItem
    <2>a. torn' \in BOOLEAN
      BY <1>6 DEF AddItem
    <2>b. connectOpc' \in BOOLEAN
      BY <1>6 DEF AddItem
    <2>c. refused' \in 0..MaxRefused
      BY <1>6, OpcAssumption DEF AddItem
    <2>d. ItemList[next[t]] \in ItemNames
      BY <2>2 DEF ItemNames
    <2>5. /\ items' = items \/ items' = [items EXCEPT ![ItemList[next[t]]] = IF @ = NoGroup THEN current ELSE @]
          /\ pc' = pc \/ pc' = [pc EXCEPT ![t] = "idle"]
          /\ UNCHANGED <<up, runs, attached, group, current, groups, made, raced>>
      BY <1>6 DEF AddItem
    <2>6. items' \in [ItemNames -> 0..made]
      BY <2>5, <2>d
    <2>7. QED
      BY <2>4, <2>5, <2>6, <2>a, <2>b, <2>c
  <1>7. QED
    BY <1>1, <1>2, <1>3, <1>4, <1>5, <1>6 DEF Connects

LEMMA OpcKeepsTypes == ASSUME OpcTypeOK, OpcNext PROVE OpcTypeOK'
  <1>1. CASE Wakes \/ Polls \/ PollEnds
    BY <1>1 DEF OpcTypeOK, Wakes, Polls, PollEnds, Goto
  <1>2. CASE Disconnects
    <2>1. raced' \in BOOLEAN /\ connectOpc' \in BOOLEAN
      BY <1>2 DEF Disconnects
    <2>2. /\ attached' \in 0..MaxRuns /\ current' \in 0..made /\ group' \in 0..made
          /\ groups' \subseteq 1..made /\ items' \in [ItemNames -> 0..made]
      BY <1>2, OpcAssumption DEF OpcTypeOK, Disconnects, Detach, Cleared, NoGroup
    <2>3. /\ pc' = [pc EXCEPT !["reader"] = "idle"]
          /\ UNCHANGED <<up, runs, made, next, refused, torn>>
      BY <1>2 DEF Disconnects, Goto
    <2>4. QED
      BY <2>1, <2>2, <2>3 DEF OpcTypeOK
  <1>3. CASE ServerStarts \/ ServerDies
    <2>1. up' \in BOOLEAN
      BY <1>3 DEF ServerStarts, ServerDies
    <2>2. runs' \in 0..MaxRuns /\ attached' \in 0..MaxRuns
      BY <1>3, OpcAssumption DEF OpcTypeOK, ServerStarts, ServerDies
    <2>3. UNCHANGED <<connectOpc, group, current, groups, made, items, pc, next, refused, raced, torn>>
      BY <1>3 DEF ServerStarts, ServerDies
    <2>4. QED
      BY <2>1, <2>2, <2>3 DEF OpcTypeOK
  <1>4. QED
    BY <1>1, <1>2, <1>3, ConnectsKeepsTypes DEF OpcNext

ReadItems == [crane : Rmgs, mode : 0..TopMode, talk : {"up", "down"}]

\* What an item of a console may say, and what one of a crane may ask for.
LEMMA ItemsSay ==
    /\ \A d \in RosSet, x \in 0..MaxCrane : CraneOf(d, x) \in 0..MaxCrane
    /\ \A asks \in ItemModes : PlanAsked(asks) \in Marks
  <1>1. ASSUME NEW d \in RosSet, NEW x \in 0..MaxCrane PROVE CraneOf(d, x) \in 0..MaxCrane
    BY DesksAssumption, ItemsAssumption DEF CraneOf
  <1>2. ASSUME NEW asks \in ItemModes PROVE PlanAsked(asks) \in Marks
    BY DesksAssumption DEF PlanAsked, Marks
  <1>3. QED
    BY <1>1, <1>2

LEMMA SwitchesKeepsTypes ==
    ASSUME DesksTypeOK, ItemsTypeOK, NEW d \in RosSet, NEW crane \in Rmgs, NEW asks \in ItemModes,
           NEW lost, Switches(d, crane, asks, lost)
    PROVE  /\ row' \in [RosSet -> SUBSET Marks] /\ quiet' \subseteq RosSet
           /\ shows' \in [Displayed -> {Nothing} \cup Rmgs \X Marks] /\ unsent' \subseteq Displayed
  <1> DEFINE left == Forgotten(d, crane)
             found == Found(d, crane, asks, left[d])
             sent == IF d \in quiet THEN {} ELSE found \ lost
  <1>1. /\ row' = [left EXCEPT ![d] = NewCells(@, asks)]
        /\ shows' = [x \in Displayed |-> IF x \in sent THEN <<crane, PlanAsked(asks)>> ELSE shows[x]]
        /\ unsent' = (unsent \cup found) \ sent
        /\ quiet' = quiet \ {d}
    BY DEF Switches
  <1>2. left \in [RosSet -> SUBSET Marks]
    BY DEF Forgotten, ItemsTypeOK
  <1>3. NewCells(left[d], asks) \subseteq Marks
    BY DesksAssumption DEF NewCells, Wanted, Marks
  <1>4. found \subseteq Displayed
    BY DEF Found
  <1> HIDE DEF left, found, sent
  <1>5. row' \in [RosSet -> SUBSET Marks]
    BY <1>1, <1>2, <1>3
  <1>6. shows' \in [Displayed -> {Nothing} \cup Rmgs \X Marks]
    BY <1>1, ItemsSay DEF DesksTypeOK
  <1>7. unsent' \subseteq Displayed /\ quiet' \subseteq RosSet
    BY <1>1, <1>4 DEF DesksTypeOK, ItemsTypeOK
  <1>8. QED
    BY <1>5, <1>6, <1>7

LEMMA BroadcastsKeepsTypes ==
    ASSUME ItemsTypeOK, NEW d \in RosSet, NEW crane, NEW state \in {"up", "down"}, NEW fails,
           Broadcasts(d, crane, state, fails)
    PROVE  /\ button' \in [RosSet -> {"none", "up", "down"}] /\ talks' \subseteq RosSet \X Devices
           /\ strays' \subseteq RosSet
  <1>1. button' = button \/ button' = [button EXCEPT ![d] = state]
    BY DEF Broadcasts
  <1>2. \/ talks' \subseteq talks
        \/ crane \in Devices /\ talks' = talks \cup {<<d, crane>>}
    BY DEF Broadcasts
  <1>3. strays' \subseteq strays \cup {d}
    BY DEF Broadcasts
  <1>4. QED
    BY <1>1, <1>2, <1>3 DEF ItemsTypeOK

LEMMA TurnKeepsTypes ==
    ASSUME DesksTypeOK, ItemsTypeOK, NEW d \in RosSet, NEW crane, NEW asks \in ItemModes,
           NEW state \in {"up", "down"}, NEW lost, NEW fails,
           KnownCrane(d, crane, asks, state, lost, fails)
    PROVE  /\ row' \in [RosSet -> SUBSET Marks] /\ quiet' \subseteq RosSet
           /\ button' \in [RosSet -> {"none", "up", "down"}] /\ talks' \subseteq RosSet \X Devices
           /\ read' \in [RosSet -> {Unread} \cup ReadItems] /\ strays' \subseteq RosSet
           /\ shows' \in [Displayed -> {Nothing} \cup Rmgs \X Marks] /\ unsent' \subseteq Displayed
  <1>1. crane \in Rmgs /\ Switches(d, crane, asks, lost) /\ Broadcasts(d, crane, state, fails)
    BY DEF KnownCrane
  <1>2. read' = [read EXCEPT ![d] = [crane |-> crane, mode |-> PlanAsked(asks), talk |-> state]]
    BY DEF KnownCrane
  <1>3. [crane |-> crane, mode |-> PlanAsked(asks), talk |-> state] \in ReadItems
    BY <1>1, ItemsSay DEF ReadItems, Marks
  <1>4. read' \in [RosSet -> {Unread} \cup ReadItems]
    BY <1>2, <1>3 DEF ItemsTypeOK, ReadItems
  <1>5. QED
    BY <1>1, <1>4, SwitchesKeepsTypes, BroadcastsKeepsTypes

LEMMA ItemsKeepsTypes ==
    ASSUME DesksTypeOK, ItemsTypeOK, ItemsNext PROVE DesksTypeOK' /\ ItemsTypeOK'
  <1>1. PICK d \in RosSet : Reads(d)
    BY DEF ItemsNext
  <1>2. PICK crane \in {CraneOf(d, x) : x \in 0..MaxCrane} :
          /\ \/ UnknownCrane(d, crane) /\ UNCHANGED misses
             \/ \E asks \in ItemModes, state \in (IF d \in Talkers THEN {"up", "down"} ELSE {"up"}) :
                   \/ KnownCrane(d, crane, asks, state, {}, FALSE) /\ UNCHANGED misses
                   \/ /\ Miss
                      /\ \/ \E y \in Displayed :
                               y[1] = d /\ KnownCrane(d, crane, asks, state, {y}, FALSE)
                         \/ d \in Talkers /\ KnownCrane(d, crane, asks, state, {}, TRUE)
          /\ driven' = [driven EXCEPT ![d] = crane]
    BY <1>1 DEF Reads
  <1>3. driven' \in [RosSet -> 0..MaxCrane]
    <2>1. crane \in 0..MaxCrane
      BY ItemsSay
    <2>2. QED
      BY <1>2, <2>1 DEF ItemsTypeOK
  <1>4. misses' \in 0..MaxMissed
    <2>1. UNCHANGED misses \/ Miss
      BY <1>2
    <2>2. QED
      BY <2>1, DesksAssumption DEF DesksTypeOK, Miss
  <1>5. CASE UnknownCrane(d, crane)
    <2>1. /\ row' = Forgotten(d, crane) /\ strays' \subseteq strays \cup {d}
          /\ UNCHANGED <<quiet, button, shows, talks, read, unsent>>
      BY <1>5 DEF UnknownCrane
    <2>2. row' \in [RosSet -> SUBSET Marks]
      BY <2>1 DEF Forgotten, ItemsTypeOK
    <2>3. QED
      BY <1>3, <1>4, <2>1, <2>2 DEF DesksTypeOK, ItemsTypeOK
  <1>6. ASSUME NEW asks \in ItemModes, NEW state \in {"up", "down"}, NEW lost, NEW fails,
               KnownCrane(d, crane, asks, state, lost, fails)
        PROVE  DesksTypeOK' /\ ItemsTypeOK'
    <2>1. /\ row' \in [RosSet -> SUBSET Marks] /\ quiet' \subseteq RosSet
          /\ button' \in [RosSet -> {"none", "up", "down"}] /\ talks' \subseteq RosSet \X Devices
          /\ read' \in [RosSet -> {Unread} \cup ReadItems] /\ strays' \subseteq RosSet
          /\ shows' \in [Displayed -> {Nothing} \cup Rmgs \X Marks] /\ unsent' \subseteq Displayed
      BY <1>6, TurnKeepsTypes
    <2>2. DesksTypeOK'
      BY <1>4, <2>1 DEF DesksTypeOK
    <2>3. ItemsTypeOK'
      BY <1>3, <2>1 DEF ItemsTypeOK, ReadItems
    <2>4. QED
      BY <2>2, <2>3
  <1>7. QED
    BY <1>2, <1>5, <1>6

-----------------------------------------------------------------------------
\* The best priority of a screen and the plan for it are there.
LEMMA BestTyped ==
    ASSUME NEW bits \in SUBSET DOMAIN Priority, NEW s \in Screens
    PROVE  Best[bits][s] \in 0..255 /\ PlanFor[bits][s] \in Marks
  <1> DEFINE set == SetModes(bits, s)
             ranks == {Priority[<<s, m>>] : m \in set}
             tops == {m \in set : Priority[<<s, m>>] = Best[bits][s]}
  <1>1. /\ Best[bits][s] = IF set = {} THEN 0
              ELSE CHOOSE p \in ranks : \A m \in set : Priority[<<s, m>>] <= p
        /\ PlanFor[bits][s] = IF set = {} THEN 0
              ELSE CHOOSE m \in set : /\ Priority[<<s, m>>] = Best[bits][s]
                                      /\ \A n \in set : Priority[<<s, n>>] = Best[bits][s] => n <= m
    BY DEF Best, PlanFor
  <1>2. set \subseteq 1..TopMode /\ \A m \in set : Priority[<<s, m>>] \in 0..255
    BY ModbusAssumption DEF SetModes
  <1> HIDE DEF set
  <1>3. CASE set = {}
    BY <1>1, <1>3, DesksAssumption DEF Marks
  <1>4. CASE set # {}
    <2>1. ranks \in SUBSET (0..255) /\ ranks # {}
      <3>1. ASSUME NEW p \in ranks PROVE p \in 0..255
        <4>1. PICK m \in set : p = Priority[<<s, m>>]
          OBVIOUS
        <4>2. QED
          BY <1>2, <4>1
      <3>2. ranks # {}
        BY <1>4
      <3> HIDE DEF ranks
      <3>3. QED
        BY <3>1, <3>2
    <2> HIDE DEF ranks
    <2>2. \E p \in ranks : \A q \in ranks : q <= p
      BY <2>1, 255 \in Nat, MaxExists
    <2>3. \E p \in ranks : \A m \in set : Priority[<<s, m>>] <= p
      BY <2>2 DEF ranks
    <2>4. Best[bits][s] \in ranks
      BY <1>1, <1>4, <2>3
    <2>5. tops \in SUBSET (0..TopMode) /\ tops # {}
      <3>1. \A m \in tops : m \in 0..TopMode
        BY <1>2, DesksAssumption
      <3>2. tops # {}
        BY <2>4 DEF ranks
      <3> HIDE DEF tops
      <3>3. QED
        BY <3>1, <3>2
    <2> HIDE DEF tops
    <2>6. \E m \in tops : \A n \in tops : n <= m
      BY <2>5, DesksAssumption, MaxExists
    <2>7. \E m \in set : /\ Priority[<<s, m>>] = Best[bits][s]
                         /\ \A n \in set : Priority[<<s, n>>] = Best[bits][s] => n <= m
      BY <2>6 DEF tops
    <2>8. PlanFor[bits][s] \in set
      BY <1>1, <1>4, <2>7
    <2>9. QED
      <3>1. PlanFor[bits][s] \in Marks
        <4>1. set \subseteq Marks
          BY <1>2, DesksAssumption DEF Marks
        <4>2. QED
          BY <2>8, <4>1
      <3>2. QED
        BY <2>1, <2>4, <3>1
  <1>5. QED
    BY <1>3, <1>4

LEMMA LeftTyped ==
    ASSUME ModbusTypeOK, NEW g \in Rmgs, NEW desk
    PROVE  /\ PrioritiesLeft(g, desk) \in [Screens -> 0..255]
           /\ CellsLeft(g, desk) \in [Rmgs -> SUBSET (Screens \X Marks)]
  BY DEF ModbusTypeOK, PrioritiesLeft, CellsLeft

LEMMA ModbusKeepsTypes ==
    ASSUME DesksTypeOK, ModbusTypeOK, ModbusNext PROVE DesksTypeOK' /\ ModbusTypeOK'
  <1>1. ASSUME NEW g \in Rmgs, Releases(g) PROVE DesksTypeOK' /\ ModbusTypeOK'
    BY <1>1 DEF DesksTypeOK, ModbusTypeOK, Releases
  <1>2. ASSUME NEW g \in Rmgs, NEW desk \in {0} \cup Desks, HalfReads(g, desk)
        PROVE  DesksTypeOK' /\ ModbusTypeOK'
    <2>1. PICK c \in Closings(g, desk) :
            /\ shows' = [x \in Displayed |-> IF x \in c.shut THEN Nothing ELSE shows[x]]
            /\ Reached(c.fails)
      BY <1>2 DEF HalfReads
    <2>2. /\ console' = [console EXCEPT ![g] = desk]
          /\ answered' = [answered EXCEPT ![g] = PrioritiesLeft(g, desk)]
          /\ cells' = CellsLeft(g, desk)
          /\ asked' = [asked EXCEPT ![g] = Unasked]
          /\ UNCHANGED unsent
      BY <1>2 DEF HalfReads
    <2>3. shows' \in [Displayed -> {Nothing} \cup Rmgs \X Marks]
      BY <2>1 DEF DesksTypeOK
    <2>4. misses' \in 0..MaxMissed
      BY <2>1, DesksAssumption DEF DesksTypeOK, Reached, Miss
    <2>5. ModbusTypeOK'
      BY <2>2, LeftTyped DEF ModbusTypeOK
    <2>6. QED
      BY <2>2, <2>3, <2>4, <2>5 DEF DesksTypeOK
  <1>3. ASSUME NEW g \in Rmgs, NEW desk \in {0} \cup Desks, NEW bits \in BitImages[g],
               FullyReads(g, desk, bits)
        PROVE  DesksTypeOK' /\ ModbusTypeOK'
    <2> DEFINE old == CellsLeft(g, desk)[g]
               prioLeft == PrioritiesLeft(g, desk)
               to == ToSend(g, desk, old, bits, prioLeft)
               plan == PlanFor[bits]
    <2>1. PICK c \in Closings(g, desk), lost \in {{}} \cup {{x} : x \in to} :
            /\ Reached(c.fails \/ lost # {})
            /\ shows' = [x \in Displayed |->
                    CASE x \in to \ lost -> <<g, plan[x[2]]>>
                      [] x \in c.shut \ (to \ lost) -> Nothing
                      [] OTHER -> shows[x]]
            /\ unsent' = (unsent \ to) \cup lost
      BY <1>3 DEF FullyReads
    <2>2. /\ console' = [console EXCEPT ![g] = desk]
          /\ answered' = [answered EXCEPT ![g] = Best[bits]]
          /\ cells' = [CellsLeft(g, desk) EXCEPT ![g] = NewRow(@, bits, prioLeft)]
          /\ asked' = [asked EXCEPT ![g] = IF desk = 0 THEN Unasked ELSE plan]
      BY <1>3 DEF FullyReads
    <2>3. bits \in SUBSET DOMAIN Priority
      BY ModbusAssumption
    <2>4. Best[bits] \in [Screens -> 0..255] /\ plan \in [Screens -> Marks]
      <3>1. \A s \in Screens : Best[bits][s] \in 0..255 /\ PlanFor[bits][s] \in Marks
        BY <2>3, BestTyped
      <3>2. DOMAIN Best[bits] = Screens /\ Best[bits] = [s \in DOMAIN Best[bits] |-> Best[bits][s]]
        BY <2>3 DEF Best
      <3>3. DOMAIN plan = Screens /\ plan = [s \in DOMAIN plan |-> plan[s]]
        BY <2>3 DEF PlanFor
      <3>4. QED
        BY <3>1, <3>2, <3>3
    <2>5. to \subseteq {x \in Displayed : x[2] \in Screens} /\ lost \subseteq to
      BY <2>1 DEF ToSend
    <2>6. NewRow(old, bits, prioLeft) \subseteq Screens \X Marks
      <3>1. bits \subseteq Screens \X Marks
        <4>1. bits \subseteq Screens \X (1..TopMode) /\ 1..TopMode \subseteq Marks
          BY <2>3, ModbusAssumption, DesksAssumption DEF Marks
        <4>2. QED
          BY <4>1
      <3>2. 0 \in Marks
        BY DesksAssumption DEF Marks
      <3>3. NewRow(old, bits, prioLeft) \subseteq bits \cup {<<s, 0>> : s \in Screens}
        BY DEF NewRow
      <3>4. QED
        BY <3>1, <3>2, <3>3
    <2> HIDE DEF to, plan, old, prioLeft
    <2>7. shows' \in [Displayed -> {Nothing} \cup Rmgs \X Marks]
      <3>1. ASSUME NEW x \in Displayed
            PROVE  (CASE x \in to \ lost -> <<g, plan[x[2]]>>
                      [] x \in c.shut \ (to \ lost) -> Nothing
                      [] OTHER -> shows[x]) \in {Nothing} \cup Rmgs \X Marks
        BY <2>4, <2>5 DEF DesksTypeOK
      <3>2. QED
        BY <2>1, <3>1
    <2>8. misses' \in 0..MaxMissed
      BY <2>1, DesksAssumption DEF DesksTypeOK, Reached, Miss
    <2>9. unsent' \subseteq Displayed
      BY <2>1, <2>5 DEF DesksTypeOK
    <2>10. cells' \in [Rmgs -> SUBSET (Screens \X Marks)]
      BY <2>2, <2>6, LeftTyped DEF old
    <2>11. ModbusTypeOK'
      BY <2>2, <2>4, <2>10 DEF ModbusTypeOK
    <2>12. QED
      BY <2>7, <2>8, <2>9, <2>11 DEF DesksTypeOK
  <1>4. QED
    BY <1>1, <1>2, <1>3 DEF ModbusNext, ReadsRegisters

-----------------------------------------------------------------------------
\* A step the stick asks for is one a camera knows, and is remembered x.
LEMMA StepTyped == ASSUME NEW value \in Values PROVE Step(value) \in 0..StepMax
  <1> DEFINE size == IF value < 0 THEN -value ELSE value
  <1>1. size \in 0..967
    BY DEF Values, ZoomMax
  <1>2. Step(value) = (8 * size) \div 967
    BY DEF Step, StepMax, ZoomMax
  <1> HIDE DEF size
  <1>3. \A n \in 0..967 : (8 * n) \div 967 \in 0..8
    OBVIOUS
  <1>4. QED
    BY <1>1, <1>2, <1>3 DEF StepMax

LEMMA RememberedTyped ==
    ASSUME NEW axis \in {"x", "y"}, NEW value \in Values, NEW old \in [Directions -> 0..StepMax]
    PROVE  Remembered(axis, value, old) \in [Directions -> 0..StepMax]
  <1>1. Step(value) \in 0..StepMax /\ 0 \in 0..StepMax
    BY StepTyped DEF StepMax
  <1>2. QED
    BY <1>1 DEF Remembered

LEMMA OperatesTypes ==
    ASSUME JoystickTypeOK, NEW first \in Commands, NEW second \in Commands, Operates(first, second)
    PROVE  /\ status' \in {"start", "stop"} /\ moving' \subseteq JoyCams
           /\ strayed' \subseteq JoyCams /\ dropped' \in 0..MaxDropped
  <1>1. status' = After(After(status, first), second)
    BY DEF Operates
  <1>2. status' \in {"start", "stop"}
    BY <1>1 DEF JoystickTypeOK, After, Anew, Commands
  <1>3. CameraAt(select) \subseteq JoyCams
    BY DEF CameraAt, JoyCams
  <1>4. UNCHANGED dropped \/ (dropped < MaxDropped /\ dropped' = dropped + 1)
    BY DEF Operates
  <1>5. dropped' \in 0..MaxDropped
    BY <1>4, JoystickAssumption DEF JoystickTypeOK
  <1>6. moving' \subseteq moving \cup CameraAt(select) /\ strayed' \subseteq strayed \cup CameraAt(select)
    BY DEF Operates
  <1>7. QED
    BY <1>2, <1>3, <1>5, <1>6 DEF JoystickTypeOK

LEMMA JoystickKeepsTypes == ASSUME JoystickTypeOK, JoystickNext PROVE JoystickTypeOK'
  <1>1. ASSUME NEW b \in Buttons, Selects(b) PROVE JoystickTypeOK'
    <2>1. select' = b /\ status' = status /\ strayed' = strayed \cup (moving \ CameraAt(b))
          /\ UNCHANGED <<page, steps, stick, moving, dropped>>
      BY <1>1 DEF Selects, AfterSelect
    <2>2. QED
      BY <2>1 DEF JoystickTypeOK
  <1>2. ASSUME NEW back \in BOOLEAN, TurnsPage(back) PROVE JoystickTypeOK'
    <2>1. page' \in 0..Pages \cup {1}
      BY <1>2, JoystickAssumption DEF JoystickTypeOK, TurnsPage, Turned
    <2>2. QED
      BY <1>2, <2>1 DEF JoystickTypeOK, TurnsPage
  <1>3. ASSUME NEW p \in Positions, Moves(p[1], p[2], p[3]) PROVE JoystickTypeOK'
    <2>1. p = <<p[1], p[2], p[3]>> /\ p[1] \in Values /\ p[2] \in Values
      BY JoystickAssumption
    <2>2. stick' \in Positions /\ UNCHANGED <<select, page>>
      BY <1>3, <2>1 DEF Moves
    <2>3. CASE UNCHANGED <<status, steps, moving, strayed, dropped>>
      BY <2>2, <2>3 DEF JoystickTypeOK
    <2>4. CASE ZoomsBy(p[3])
      <3>1. (IF p[3] # 0 THEN "start" ELSE "stop") \in Commands /\ "nothing" \in Commands
        BY DEF Commands
      <3>2. QED
        BY <2>2, <2>4, <3>1, OperatesTypes DEF JoystickTypeOK, ZoomsBy
    <2>5. CASE Pans(p[1], p[2])
      <3>1. Told("x", p[1]) \in Commands /\ Told("y", p[2]) \in Commands
        BY ToldCommands
      <3>2. Operates(Told("x", p[1]), Told("y", p[2]))
        BY <2>5 DEF Pans
      <3>3. /\ status' \in {"start", "stop"} /\ moving' \subseteq JoyCams
            /\ strayed' \subseteq JoyCams /\ dropped' \in 0..MaxDropped
        BY <3>1, <3>2, OperatesTypes
      <3>4. steps' = Remembered("y", p[2], Remembered("x", p[1], steps))
        BY <2>5 DEF Pans
      <3>5. steps' \in [Directions -> 0..StepMax]
        <4>1. Remembered("x", p[1], steps) \in [Directions -> 0..StepMax]
          BY <2>1, RememberedTyped DEF JoystickTypeOK
        <4>2. QED
          BY <2>1, <3>4, <4>1, RememberedTyped
      <3>6. QED
        BY <2>2, <3>3, <3>5 DEF JoystickTypeOK
    <2>6. QED
      BY <1>3, <2>3, <2>4, <2>5 DEF Moves
  <1>4. QED
    BY <1>1, <1>2, <1>3 DEF JoystickNext

-----------------------------------------------------------------------------
LEMMA TypesStep == TypeOK /\ [Next]_vars => TypeOK'
  <1> SUFFICES ASSUME TypeOK, [Next]_vars PROVE TypeOK'
    OBVIOUS
  <1> USE DEF TypeOK
  <1>1. CASE LinkNext /\ UNCHANGED <<opc, opcItems, modbusItems, joy>>
    BY <1>1, LinkKeepsTypes
       DEF opc, opcItems, modbusItems, joy, OpcTypeOK, DesksTypeOK, ItemsTypeOK, ModbusTypeOK, JoystickTypeOK
  <1>2. CASE OpcNext /\ UNCHANGED <<mode, faults, link, opcItems, modbusItems, joy>>
    BY <1>2, OpcKeepsTypes
       DEF link, opcItems, modbusItems, joy, LinkTypeOK, DesksTypeOK, ItemsTypeOK, ModbusTypeOK, JoystickTypeOK
  <1>3. CASE ItemsNext /\ UNCHANGED <<mode, faults, link, opc, modbusItems, joy>>
    BY <1>3, ItemsKeepsTypes DEF link, opc, modbusItems, joy, LinkTypeOK, OpcTypeOK, ModbusTypeOK, JoystickTypeOK
  <1>4. CASE /\ ModbusNext
             /\ UNCHANGED <<mode, faults, link, opc, driven, row, quiet, button, talks, read, strays, joy>>
    BY <1>4, ModbusKeepsTypes DEF link, opc, joy, LinkTypeOK, OpcTypeOK, ItemsTypeOK, JoystickTypeOK
  <1>5. CASE JoystickNext /\ UNCHANGED <<mode, faults, link, opc, opcItems, modbusItems>>
    BY <1>5, JoystickKeepsTypes
       DEF link, opc, opcItems, modbusItems, LinkTypeOK, OpcTypeOK, DesksTypeOK, ItemsTypeOK, ModbusTypeOK
  <1>6. CASE UNCHANGED vars
    BY <1>6 DEF vars, link, opc, opcItems, modbusItems, joy,
                LinkTypeOK, OpcTypeOK, DesksTypeOK, ItemsTypeOK, ModbusTypeOK, JoystickTypeOK
  <1>7. QED
    BY <1>1, <1>2, <1>3, <1>4, <1>5, <1>6 DEF Next

(* Every source keeps its tables within their types, for any servers,        *)
(* cameras, items, desks, cranes, bits, stick positions and bounds: a desk   *)
(* is bound to a known number, old values name modes there are, the items    *)
(* still to be added are in the list, and a step of the stick is one a       *)
(* camera knows.                                                             *)
THEOREM DataLinksTypes == Spec => []TypeOK
  BY TypesStart, TypesStep, PTL DEF Spec

-----------------------------------------------------------------------------
(* A turn of the OPC or of the Modbus reader leaves other desks alone: a     *)
(* screen changes only to a plan of the crane its desk drives from then on   *)
(* (ReadOpcDataProcess, ReadModbusDataProcess), or goes dark, in Modbus mode *)
(* only, because a crane has just left a desk with a screen on the same TV   *)
(* wall.                                                                     *)
TurnsKeepToTheirDesk ==
    [][\A x \in Displayed : shows'[x] # shows[x] =>
          \/ /\ mode = "opc items" /\ x[1] \in RosSet
             /\ shows'[x][1] = driven'[x[1]]
          \/ /\ mode = "modbus items" /\ shows'[x][1] \in Rmgs
             /\ console'[shows'[x][1]] = x[1]
          \/ /\ mode = "modbus items" /\ shows'[x] = Nothing
             /\ \E y \in Displayed, g \in Rmgs :
                  WallOf[y] = WallOf[x] /\ console[g] = y[1] /\ console'[g] # y[1]]_vars

LEMMA OpcTurnLocal ==
  ASSUME TypeOK, NEW d \in RosSet, Reads(d), NEW x \in Displayed, shows'[x] # shows[x]
  PROVE  x[1] = d /\ shows'[x][1] = driven'[d]
  <1>1. PICK crane \in {CraneOf(d, n) : n \in 0..MaxCrane} :
          /\ \/ UnknownCrane(d, crane) /\ UNCHANGED misses
             \/ \E kind \in ItemModes, state \in (IF d \in Talkers THEN {"up", "down"} ELSE {"up"}) :
                   \/ KnownCrane(d, crane, kind, state, {}, FALSE) /\ UNCHANGED misses
                   \/ /\ Miss
                      /\ \/ \E y \in Displayed :
                               y[1] = d /\ KnownCrane(d, crane, kind, state, {y}, FALSE)
                         \/ d \in Talkers /\ KnownCrane(d, crane, kind, state, {}, TRUE)
          /\ driven' = [driven EXCEPT ![d] = crane]
    BY DEF Reads
  <1>2. driven'[d] = crane
    BY <1>1 DEF TypeOK, ItemsTypeOK
  <1>3. PICK kind, lost : \E state, fails : KnownCrane(d, crane, kind, state, lost, fails)
    BY <1>1 DEF UnknownCrane
  <1>4. Switches(d, crane, kind, lost)
    BY <1>3 DEF KnownCrane
  <1> DEFINE found == Found(d, crane, kind, Forgotten(d, crane)[d])
             sent == IF d \in quiet THEN {} ELSE found \ lost
  <1>5. shows' = [y \in Displayed |-> IF y \in sent THEN <<crane, PlanAsked(kind)>> ELSE shows[y]]
    BY <1>4 DEF Switches
  <1>6. \A y \in found : y[1] = d
    BY DEF Found
  <1>7. sent \subseteq found
    OBVIOUS
  <1> HIDE DEF found, sent
  <1>8. x \in sent /\ shows'[x] = <<crane, PlanAsked(kind)>>
    BY <1>5
  <1> QED
    BY <1>2, <1>6, <1>7, <1>8

LEMMA ClosedLeft ==
  ASSUME TypeOK, NEW g \in Rmgs, NEW desk \in {0} \cup Desks, NEW x \in Closed(g, desk)
  PROVE  \E y \in Displayed : WallOf[y] = WallOf[x] /\ console[g] = y[1] /\ desk # y[1]
  <1>1. HandedOver(g, desk) /\ x \in UNION {OnWall[y] : y \in {z \in Displayed : z[1] = console[g]}}
    BY DEF Closed
  <1>2. PICK y \in Displayed : y[1] = console[g] /\ x \in OnWall[y]
    BY <1>1
  <1>3. WallOf[y] = WallOf[x]
    BY <1>2 DEF OnWall
  <1> QED
    BY <1>1, <1>2, <1>3 DEF HandedOver

LEMMA ModbusTurnLocal ==
  ASSUME TypeOK, NEW g \in Rmgs, ReadsRegisters(g), NEW x \in Displayed, shows'[x] # shows[x]
  PROVE  \/ shows'[x][1] = g /\ console'[g] = x[1]
         \/ /\ shows'[x] = Nothing
            /\ \E y \in Displayed :
                 WallOf[y] = WallOf[x] /\ console[g] = y[1] /\ console'[g] # y[1]
  <1>1. console \in [Rmgs -> {0} \cup Desks]
    BY DEF TypeOK, ModbusTypeOK
  <1>2. ASSUME NEW desk \in {0} \cup Desks, NEW shut, shut \subseteq Closed(g, desk),
               console' = [console EXCEPT ![g] = desk], x \in shut, shows'[x] = Nothing
        PROVE  /\ shows'[x] = Nothing
               /\ \E y \in Displayed :
                    WallOf[y] = WallOf[x] /\ console[g] = y[1] /\ console'[g] # y[1]
    <2>1. console'[g] = desk
      BY <1>1, <1>2
    <2> QED
      BY <1>2, <2>1, ClosedLeft
  <1>3. \A desk : \A c \in Closings(g, desk) : c.shut \subseteq Closed(g, desk)
    BY DEF Closings
  <1>4. ~Releases(g)
    BY DEF Releases
  <1>5. ASSUME NEW desk \in {0} \cup Desks, HalfReads(g, desk)
        PROVE  /\ shows'[x] = Nothing
               /\ \E y \in Displayed :
                    WallOf[y] = WallOf[x] /\ console[g] = y[1] /\ console'[g] # y[1]
    <2>1. PICK c \in Closings(g, desk) :
            shows' = [y \in Displayed |-> IF y \in c.shut THEN Nothing ELSE shows[y]]
      BY <1>5 DEF HalfReads
    <2>2. x \in c.shut /\ shows'[x] = Nothing
      BY <2>1
    <2>3. console' = [console EXCEPT ![g] = desk]
      BY <1>5 DEF HalfReads
    <2> QED
      BY <1>2, <1>3, <2>2, <2>3
  <1>6. ASSUME NEW desk \in {0} \cup Desks, NEW bits \in BitImages[g], FullyReads(g, desk, bits)
        PROVE  \/ shows'[x][1] = g /\ console'[g] = x[1]
               \/ /\ shows'[x] = Nothing
                  /\ \E y \in Displayed :
                       WallOf[y] = WallOf[x] /\ console[g] = y[1] /\ console'[g] # y[1]
    <2> DEFINE to == ToSend(g, desk, CellsLeft(g, desk)[g], bits, PrioritiesLeft(g, desk))
               plan == PlanFor[bits]
    <2>1. PICK c \in Closings(g, desk), lost \in {{}} \cup {{y} : y \in to} :
            shows' = [y \in Displayed |->
                        CASE y \in to \ lost -> <<g, plan[y[2]]>>
                          [] y \in c.shut \ (to \ lost) -> Nothing
                          [] OTHER -> shows[y]]
      BY <1>6 DEF FullyReads
    <2>2. \A y \in to : y[1] = desk
      BY DEF ToSend
    <2>3. console' = [console EXCEPT ![g] = desk]
      BY <1>6 DEF FullyReads
    <2> HIDE DEF to, plan
    <2>4. CASE x \in to \ lost
      <3>1. shows'[x] = <<g, plan[x[2]]>>
        BY <2>1, <2>4
      <3> QED
        BY <1>1, <2>2, <2>3, <2>4, <3>1
    <2>5. CASE x \in c.shut \ (to \ lost)
      <3>1. shows'[x] = Nothing
        BY <2>1, <2>5
      <3> QED
        BY <1>2, <1>3, <2>3, <2>5, <3>1
    <2>6. CASE x \notin to \ lost /\ x \notin c.shut \ (to \ lost)
      BY <2>1, <2>6
    <2> QED
      BY <2>4, <2>5, <2>6
  <1> QED
    BY <1>4, <1>5, <1>6 DEF ReadsRegisters

THEOREM TurnsKeepToTheirDeskHolds == Spec => TurnsKeepToTheirDesk
  <1> DEFINE Local(x) ==
        \/ /\ mode = "opc items" /\ x[1] \in RosSet
           /\ shows'[x][1] = driven'[x[1]]
        \/ /\ mode = "modbus items" /\ shows'[x][1] \in Rmgs
           /\ console'[shows'[x][1]] = x[1]
        \/ /\ mode = "modbus items" /\ shows'[x] = Nothing
           /\ \E y \in Displayed, g \in Rmgs :
                WallOf[y] = WallOf[x] /\ console[g] = y[1] /\ console'[g] # y[1]
  <1>1. ASSUME TypeOK, Next, NEW x \in Displayed, shows'[x] # shows[x] PROVE Local(x)
    <2>1. ASSUME UNCHANGED opcItems PROVE FALSE
      BY <1>1, <2>1 DEF opcItems
    <2>2. CASE mode = "opc items" /\ ItemsNext
      BY <1>1, <2>2, OpcTurnLocal DEF ItemsNext
    <2>3. CASE mode = "modbus items" /\ ModbusNext
      <3>1. PICK g \in Rmgs : ReadsRegisters(g)
        BY <2>3 DEF ModbusNext
      <3>2. \/ shows'[x][1] = g /\ console'[g] = x[1]
            \/ /\ shows'[x] = Nothing
               /\ \E y \in Displayed :
                    WallOf[y] = WallOf[x] /\ console[g] = y[1] /\ console'[g] # y[1]
        BY <1>1, <3>1, ModbusTurnLocal
      <3>3. CASE shows'[x][1] = g /\ console'[g] = x[1]
        BY <2>3, <3>3
      <3>4. CASE /\ shows'[x] = Nothing
                 /\ \E y \in Displayed :
                      WallOf[y] = WallOf[x] /\ console[g] = y[1] /\ console'[g] # y[1]
        <4>1. PICK y \in Displayed :
                WallOf[y] = WallOf[x] /\ console[g] = y[1] /\ console'[g] # y[1]
          BY <3>4
        <4> QED
          BY <2>3, <3>4, <4>1
      <3> QED
        BY <3>2, <3>3, <3>4
    <2> QED
      BY <1>1, <2>1, <2>2, <2>3 DEF Next
  <1>2. TypeOK /\ [Next]_vars => [\A x \in Displayed : shows'[x] # shows[x] => Local(x)]_vars
    BY <1>1
  <1> QED
    BY <1>2, DataLinksTypes, PTL DEF Spec, TurnsKeepToTheirDesk
=============================================================================
