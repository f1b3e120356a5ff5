------------------------------ MODULE FreeCuts ------------------------------
(***************************************************************************)
(* Free cuts (CClient::FreeCutScreen): cells of a crane's DB that name a   *)
(* camera for one window of a screen, whatever plan the screen shows.  An  *)
(* entry of m_MapFreeCutScreen remembers the camera and the console it was *)
(* last sent for, and the TV wall it was sent to, so that a restarted wall *)
(* can be given it again (SendOldFreeCutScreeninfo).                       *)
(*                                                                         *)
(* Plans of the crane (ScreenSwitch) fill the windows of their split; they *)
(* are here as far as free cuts depend on them.                            *)
(***************************************************************************)
EXTENDS Crane

CONSTANTS
    Cuts,      \* the entries of a crane (FREECUTSCREEN): [screen, index], index = window
    ScreenNum, \* nScreenNum: screens below it are looked at
    CutScreen, \* crane -> the screen of its last entry, whose split is noted
    Splits,    \* numbers of windows of the plans
    MaxRestarts \* bound: restarts of TV walls

ASSUME CutAssumption ==
    /\ Cuts \subseteq [screen : Nat \ {0}, index : Nat \ {0}]
    /\ ScreenNum \in Nat /\ CutScreen \in [Cranes -> Nat] /\ Splits \subseteq Nat \ {0}
    /\ MaxRestarts \in Nat

NoWall == 0
Dark   == <<0, 0>>
Plan(g) == <<g, 0>> \* a camera of a plan of crane g
Pictures == {Dark} \cup Cranes \X ({0} \cup Ipcs)
NoPlan   == [crane |-> 0, windows |-> 0]
MaxIndex == IF Cuts = {} THEN 0 ELSE CHOOSE n \in {k.index : k \in Cuts} : \A k \in Cuts : k.index <= n
PlanScreens == {k.screen : k \in Cuts}
\* FreeCutScreen's loop ends before the last screen.
Visited  == {k \in Cuts : k.screen < ScreenNum}

VARIABLES
    ipcIndex,    \* IPCIndex: crane -> entry -> camera, 0 at first
    switchGroup, \* SwitchGroup: crane -> entry -> console
    sentTo,      \* strIP, iPort: crane -> entry -> the console whose wall has it
    sentIpc,     \* sIPCPuid: crane -> entry -> the camera sent to it
    cutNum,      \* m_GroupScreenMap: crane -> the windows of its last plan on CutScreen
    savedPlan,   \* m_TvWallIp2CutMapInfo: console -> screen -> the plan sent last
    window,      \* console -> entry -> what the TV wall shows in that window
    latest,      \* history: console -> entry -> what arrived for that window last
    last,        \* history: crane -> entry -> the <<console, camera>> sent last
    late,        \* history: <<crane, entry>> whose last change did not reach its console
    restarts     \* TV walls restarted

memory == <<ipcIndex, switchGroup, sentTo, sentIpc>>
cuts   == <<memory, cutNum, savedPlan, window, latest, last, late, restarts>>

CutsTypeOK ==
    /\ ipcIndex \in [Cranes -> [Cuts -> {0} \cup Ipcs]]
    /\ switchGroup \in [Cranes -> [Cuts -> {0} \cup Consoles \cup Cranes]]
    /\ sentTo \in [Cranes -> [Cuts -> {NoWall} \cup WallConsoles]]
    /\ sentIpc \in [Cranes -> [Cuts -> {0} \cup Ipcs]]
    /\ cutNum \in [Cranes -> {MaxIndex} \cup Splits]
    /\ savedPlan \in [WallConsoles -> [PlanScreens -> {NoPlan} \cup [crane : Cranes, windows : Splits]]]
    /\ window \in [WallConsoles -> [Cuts -> Pictures]]
    /\ latest \in [WallConsoles -> [Cuts -> Pictures]]
    /\ last \in [Cranes -> [Cuts -> {Dark} \cup WallConsoles \X Ipcs]]
    /\ late \subseteq Cranes \X Cuts
    /\ restarts \in 0..MaxRestarts

PerEntry(v) == [g \in Cranes |-> [k \in Cuts |-> v]]
AllDark     == [c \in WallConsoles |-> [k \in Cuts |-> Dark]]

\* As read from the group files; the console is the file's ordinal at first.
CutsInit ==
    /\ ipcIndex = PerEntry(0) /\ sentTo = PerEntry(NoWall) /\ sentIpc = PerEntry(0)
    /\ switchGroup = [g \in Cranes |-> [k \in Cuts |-> g]]
    /\ cutNum = [g \in Cranes |-> MaxIndex]
    /\ savedPlan = [c \in WallConsoles |-> [s \in PlanScreens |-> NoPlan]]
    /\ window = AllDark /\ latest = AllDark
    /\ last = PerEntry(Dark) /\ late = {} /\ restarts = 0

-----------------------------------------------------------------------------
(* FreeCutScreenToTVwall, for one entry. *)

ChangedIpcOnly(g, k, img) == img.cuts[k] # 0 /\ img.cuts[k] # ipcIndex[g][k] \* mutant
Changed(g, k, img) ==
    \/ img.cuts[k] # 0 /\ img.cuts[k] # ipcIndex[g][k]
    \/ img.console # 0 /\ img.console # switchGroup[g][k]

\* A cut taken back keeps its camera; with no console the crane's own is taken.
CutIpc(g, k, img) == IF img.cuts[k] # 0 THEN img.cuts[k] ELSE ipcIndex[g][k]
CutConsole(g, img) == IF img.console # 0 THEN img.console ELSE g

Named(g, k, img) == <<g, CutIpc(g, k, img)>> \in Known
Handled(g, k, img) == k \in Visited /\ Changed(g, k, img)
Resolved(g, k, img) == Handled(g, k, img) /\ Named(g, k, img) /\ HasWall(CutConsole(g, img))
NewIpcIndex(g, k, img) ==
    IF \/ Handled(g, k, img) /\ ~Named(g, k, img)
       \/ Resolved(g, k, img) /\ img.cuts[k] # 0
    THEN img.cuts[k] ELSE ipcIndex[g][k]
NewSwitchGroup(g, k, img) ==
    IF \/ Handled(g, k, img) /\ img.console # 0 /\ (~Named(g, k, img) \/ Resolved(g, k, img))
       \/ Handled(g, k, img) /\ ~HasWall(CutConsole(g, img))
    THEN img.console ELSE switchGroup[g][k]

(* One poll of crane g: SwitchScreen sends the plan <<screen, windows>> the  *)
(* mode bits ask for, NoSwitch for none, when it or the console has changed; *)
(* then the free cuts are handled.                                           *)
NoSwitch == <<0, 0>>
SentPlan(g, img) ==
    IF HasWall(img.console) /\ (img.plan # plc[g].plan \/ img.console # bound[g])
    THEN img.plan ELSE NoSwitch
Split(g, img) ==
    LET plan == SentPlan(g, img)
    IN  IF plan # NoSwitch /\ plan[1] = CutScreen[g] THEN plan[2] ELSE cutNum[g]

\* Windows outside the split the crane last switched to are not sent.
Sent(g, k, img) == Resolved(g, k, img) /\ k.index <= Split(g, img)
CutMessages(g, img) == {<<k.index, "cut">> : k \in {x \in Cuts : Sent(g, x, img)}}

\* The poll that releases a crane closes everything on its console's wall.
AfterPlan(pictures, g, img) ==
    LET plan == SentPlan(g, img) IN
    IF img.console = 0 /\ HasWall(bound[g])
    THEN [pictures EXCEPT ![bound[g]] = [k \in Cuts |-> Dark]]
    ELSE IF plan = NoSwitch THEN pictures
    ELSE [pictures EXCEPT ![img.console] = [k \in Cuts |->
            IF k.screen # plan[1] THEN @[k]
            ELSE IF k.index <= plan[2] THEN Plan(g) ELSE Dark]]

CutsPoll(g, img, lost) ==
    LET plan == SentPlan(g, img)
        console == CutConsole(g, img)
        arrives(k) == Sent(g, k, img) /\ lost # <<k.index, "cut">>
        cutInto(pictures) == [c \in WallConsoles |-> [k \in Cuts |->
            IF c = console /\ arrives(k) THEN <<g, CutIpc(g, k, img)>> ELSE pictures[c][k]]]
    IN  /\ cutNum' = [cutNum EXCEPT ![g] = Split(g, img)]
        /\ savedPlan' = IF plan = NoSwitch THEN savedPlan
                        ELSE [savedPlan EXCEPT ![img.console][plan[1]] =
                                [crane |-> g, windows |-> plan[2]]]
        /\ window' = cutInto(AfterPlan(window, g, img))
        /\ latest' = cutInto(AfterPlan(latest, g, img))
        /\ ipcIndex' = [ipcIndex EXCEPT ![g] = [k \in Cuts |-> NewIpcIndex(g, k, img)]]
        /\ switchGroup' = [switchGroup EXCEPT ![g] = [k \in Cuts |-> NewSwitchGroup(g, k, img)]]
        /\ sentTo' = [sentTo EXCEPT ![g] = [k \in Cuts |->
                IF Resolved(g, k, img) THEN console ELSE @[k]]]
        /\ sentIpc' = [sentIpc EXCEPT ![g] = [k \in Cuts |->
                IF Resolved(g, k, img) THEN CutIpc(g, k, img) ELSE @[k]]]
        /\ last' = [last EXCEPT ![g] = [k \in Cuts |->
                IF arrives(k) THEN <<console, CutIpc(g, k, img)>> ELSE @[k]]]
        /\ late' = (late \ {<<g, k>> : k \in {x \in Cuts : arrives(x)}})
                     \cup {<<g, k>> : k \in {x \in Cuts : Resolved(g, x, img)
                                              /\ (~arrives(x) \/ img.console = 0)}}
        /\ UNCHANGED restarts

(* A TV wall restarts, and the keep-alive thread sends it the saved plans    *)
(* and then the free cuts, crane by crane (TvWallLink has the steps between).*)
SentAgainBelow(g, c, k) == sentTo[g][k] = c /\ k.index < cutNum[g] \* mutant: not the last window
SentAgain(g, c, k) == sentTo[g][k] = c /\ k.index <= cutNum[g]

Restored(c, k) ==
    LET cranes == {g \in Cranes : SentAgain(g, c, k)}
        plan == savedPlan[c][k.screen]
    IN  IF cranes # {}
        THEN LET g == CHOOSE g \in cranes : \A h \in cranes : h <= g IN <<g, sentIpc[g][k]>>
        ELSE IF plan # NoPlan /\ k.index <= plan.windows THEN Plan(plan.crane) ELSE Dark

WallRestarts(c) ==
    /\ restarts < MaxRestarts /\ restarts' = restarts + 1
    /\ window' = [window EXCEPT ![c] = [k \in Cuts |-> Restored(c, k)]]
    /\ UNCHANGED <<memory, cutNum, savedPlan, latest, last, late>>

\* A refresh reads the entries and the plans anew.
CutsRefresh ==
    /\ ipcIndex' = PerEntry(0) /\ sentTo' = PerEntry(NoWall) /\ sentIpc' = PerEntry(0)
    /\ switchGroup' = [g \in Cranes |-> [k \in Cuts |-> g]]
    /\ cutNum' = [g \in Cranes |-> MaxIndex]
    /\ savedPlan' = [c \in WallConsoles |-> [s \in PlanScreens |-> NoPlan]]
    /\ UNCHANGED <<window, latest, last, late, restarts>>

-----------------------------------------------------------------------------
(* The camera a DB names for a window is the one sent last for it, to the    *)
(* console the crane is driven from, through hand-overs, cuts taken back and *)
(* cameras or consoles the group files do not know; unless that change was   *)
(* noted while the window was outside the split, in the poll that releases   *)
(* the crane, or its message was lost (FreeCutScreenToTVwall).               *)
FreeCutsCurrent ==
    \A g \in Cranes : \A k \in Visited :
        (HasWall(bound[g]) /\ <<g, plc[g].cuts[k]>> \in Known /\ <<g, k>> \notin late)
            => last[g][k] = <<bound[g], plc[g].cuts[k]>>

(* A window whose last picture is a free cut shows it again when its TV wall *)
(* has restarted, if no other crane's entry remembers that wall for the      *)
(* window and the entry was not noted without arriving                       *)
(* (SendOldFreeCutScreeninfo).                                               *)
CutsRestored ==
    [][\A c \in WallConsoles, k \in Cuts, g \in Cranes :
          (/\ WallRestarts(c)
           /\ {h \in Cranes : sentTo[h][k] = c} = {g}
           /\ latest[c][k][1] = g /\ latest[c][k][2] # 0
           /\ <<g, k>> \notin late /\ k.index <= cutNum[g])
              => window'[c][k] = latest[c][k]]_cuts

(* "When a TV wall reconnects after a break, send it the latest free-cut     *)
(* information" (SendOldFreeCutScreeninfo): while one crane alone is driven  *)
(* from a console, a window of its split goes on to show the camera its DB   *)
(* names, once that was the one sent for it last.                            *)
RestoredIsLatest ==
    \A c \in WallConsoles, k \in Cuts, g \in Cranes :
        (/\ {h \in Cranes : bound[h] = c} = {g} /\ k.index <= cutNum[g]
         /\ latest[c][k] = <<g, plc[g].cuts[k]>>)
            => window[c][k] = latest[c][k]
=============================================================================
