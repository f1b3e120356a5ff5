---------------------------- MODULE ScreenSwitch ----------------------------
(***************************************************************************)
(* The switch-over and screen-mode logic of the PLC reader thread          *)
(* (CClient::ReadPLCDataProcess and what it calls to switch screens).      *)
(*                                                                         *)
(* One data block (DB) per crane is read in turn.  Its switch value names  *)
(* the console the crane is driven from, 0 for none; its mode bits say,    *)
(* for every screen of that console, which modes are asked for.  The       *)
(* reader picks a mode per screen and sends the crane's plan for it        *)
(* (SCREEN_CUT then MAP_IPC) to the TV wall that owns the screen, and      *)
(* saves the plan so that a restarted TV wall can be given it again.       *)
(*                                                                         *)
(* A poll is one action: the reader holds m_lockClient throughout, so no   *)
(* other thread of the library sees it half done (ClientThreads models the *)
(* locks, TvWallLink the sends one by one).                                *)
(***************************************************************************)
EXTENDS Integers, Sequences, FiniteSets

CONSTANTS
    NumCranes,    \* cranes 1..NumCranes have a DB (m_GroupDBMap), read in that order
    Consoles,     \* console numbers of Group_*.ini; they share their numbers with the cranes
    Screens,      \* screen ids 1..screen_num of a console
    ModeMax,      \* screen_mode: modes are 0..ModeMax, 0 is the initial state
    PlcScreenAdd, \* <<screen, mode>> pairs with a PLC bit (m_PlcScreenAddMap)
    Priority,     \* priority of each of those pairs
    Plans,        \* <<crane, screen, mode>> with a split and cameras (m_GroupPCScreen)
    Group2Pc,     \* <<console, screen>> -> the TV wall (ip, port) showing it
    FreeModes,    \* crane -> its free-mode points, each [screen, mode] (mFreeModeMap)
    HeightOn,     \* the cranes that switch with the hoist height (m_switchWithHeigt)
    Heights,      \* the hoist heights a DB may hold, 0 when it was never written
    HeightModes,  \* crane -> height -> the points in whose range it is (m_heightScrrenModeInfo)
    DBImages      \* crane -> the images its PLC may hold (all of them, or fewer for TLC)

Cranes == 1..NumCranes
Modes  == 0..ModeMax

\* Screens stay below 16: the 32*32 BYTES that memset clears of a table of
\* 32*32 unsigned shorts hold the modes of the screens 0 to 15 only.
ASSUME ConfigAssumption ==
    /\ NumCranes \in 1..31
    /\ Consoles \subseteq Nat \ {0}
    /\ Screens \subseteq 1..15
    /\ ModeMax \in 0..31
    /\ PlcScreenAdd \subseteq Screens \X Modes
    /\ Priority \in [PlcScreenAdd -> 0..255]
    /\ Plans \subseteq Cranes \X Screens \X Modes
    /\ DOMAIN Group2Pc \subseteq Consoles \X Screens
    /\ FreeModes \in [Cranes -> Seq([screen : Screens, mode : Modes])]
    /\ HeightOn \subseteq Cranes /\ 0 \in Heights
    /\ HeightModes \in [HeightOn -> [Heights -> Seq([screen : Screens, mode : Modes])]]

Displays == DOMAIN Group2Pc
\* What a screen shows, or would be sent again: a plan, or nothing (crane 0).
Picture  == [crane : {0} \cup Cranes, mode : Modes]
Nothing  == [crane |-> 0, mode |-> 0]
\* One DB as read: the switch value, the mode bits and free-mode bits that are
\* set, the hoist height.
Image(c) == [console : {0} \cup Consoles, bits : SUBSET PlcScreenAdd,
             free : SUBSET DOMAIN FreeModes[c], height : Heights]
Blank    == [console |-> 0, bits |-> {}, free |-> {}, height |-> 0]

ASSUME ImageAssumption ==
    DBImages \in [Cranes -> SUBSET UNION {Image(c) : c \in Cranes}]
        /\ \A c \in Cranes : DBImages[c] \subseteq Image(c)

VARIABLES
    enablePriority, \* EnalbePriority of General.ini, read once by InitData
    connect,        \* m_bConnect
    turn,           \* the crane whose DB the pass reads next
    refresh,        \* groupDataRefresh
    bound,          \* m_stGroupSwitchState: crane -> console it was last seen on
    state,          \* m_MapScreenState: crane -> the <<screen, mode>> cells equal to 1
    prio,           \* m_mapPriority: crane -> screen -> priority last answered
    first,          \* mGroupSwitchFirst
    oldHeight,      \* m_oldScreenModeMap: crane -> the <<screen, mode>> of its last height
    saved,          \* m_TvWallIp2CutMapInfo: display -> plan saved for a TV wall restart
    shown,          \* display -> what the TV wall shows by our messages
    plc             \* history: crane -> the DB as last read

vars == <<enablePriority, connect, turn, refresh, bound, state, prio, first,
          oldHeight, saved, shown, plc>>

TypeOK ==
    /\ enablePriority \in BOOLEAN
    /\ connect \in BOOLEAN
    /\ turn \in Cranes
    /\ refresh \in BOOLEAN
    /\ bound \in [Cranes -> {0} \cup Consoles]
    /\ state \in [Cranes -> SUBSET (Screens \X Modes)]
    /\ prio \in [Cranes -> [Screens -> 0..255]]
    /\ first \in [Cranes -> BOOLEAN]
    /\ oldHeight \in [Cranes -> SUBSET (Screens \X Modes)]
    /\ saved \in [Displays -> Picture]
    /\ shown \in [Displays -> Picture]
    /\ DOMAIN plc = Cranes /\ \A c \in Cranes : plc[c] \in Image(c)

Init ==
    /\ enablePriority \in BOOLEAN
    /\ connect = FALSE
    /\ turn = 1
    /\ refresh = FALSE
    /\ bound = [c \in Cranes |-> 0]
    /\ state = [c \in Cranes |-> {}]
    /\ prio = [c \in Cranes |-> [s \in Screens |-> 0]]
    /\ first = [c \in Cranes |-> TRUE]
    /\ oldHeight = [c \in Cranes |-> {}]
    /\ saved = [d \in Displays |-> Nothing]
    /\ shown = [d \in Displays |-> Nothing]
    /\ plc = [c \in Cranes |-> Blank]

-----------------------------------------------------------------------------
(* The mode a screen answers. *)

SetModes(img, s) == {m \in Modes : <<s, m>> \in img.bits}

\* The scan keeps a set mode when its priority is at least the best so far,
\* and every set mode when priorities are off: ties go to the largest mode.
Best(img, s) ==
    LET set == SetModes(img, s)
    IN  {m \in set : \A n \in set :
            IF enablePriority
            THEN \/ Priority[<<s, n>>] < Priority[<<s, m>>]
                 \/ Priority[<<s, n>>] = Priority[<<s, m>>] /\ n <= m
            ELSE n <= m}

TopMode(img, s) == IF SetModes(img, s) = {} THEN 0 ELSE CHOOSE m \in Best(img, s) : TRUE
TopPriority(img, s) ==
    IF SetModes(img, s) = {} THEN 0 ELSE Priority[<<s, TopMode(img, s)>>]

-----------------------------------------------------------------------------
(* SwitchScreen for one screen: "on" is the set of its modes whose old      *)
(* value is 1, p the priority it last answered.                             *)

MappedModes(s) == {m \in Modes : <<s, m>> \in PlcScreenAdd}

\* With priorities on, nothing is sent while the best priority stays the same.
Held(img, s, p) == enablePriority /\ TopPriority(img, s) # 0 /\ TopPriority(img, s) = p

\* The old values once the scan is over; an unmapped mode 0 keeps its mark
\* "initial state sent", every other unmapped mode is cleared.
Scanned(img, s, on) ==
    SetModes(img, s) \cup (IF 0 \in MappedModes(s) THEN {} ELSE on \cap {0})

ModeSwitch(img, s, on, p) ==
    /\ ~Held(img, s, p)
    /\ SetModes(img, s) # on \cap MappedModes(s)
    /\ enablePriority => TopPriority(img, s) # 0

\* No mode is set and the initial state has not been sent since one was.
BackToInitial(img, s, on, p) ==
    /\ ~Held(img, s, p)
    /\ SetModes(img, s) = {}
    /\ ModeSwitch(img, s, on, p) \/ 0 \notin Scanned(img, s, on)

SwitchedState(img, s, on, p) ==
    (Scanned(img, s, on) \ (IF ModeSwitch(img, s, on, p) THEN {0} ELSE {}))
        \cup (IF BackToInitial(img, s, on, p) THEN {0} ELSE {})

SwitchedPriority(img, s, p) == IF Held(img, s, p) THEN p ELSE TopPriority(img, s)

\* The modes handed to ScreenSwitch2TVWALL, in no order: at most one.
SwitchSends(img, s, on, p) ==
    IF ModeSwitch(img, s, on, p) \/ BackToInitial(img, s, on, p)
    THEN {TopMode(img, s)} ELSE {}

-----------------------------------------------------------------------------
(* FreeModeSwitch for one screen of crane c: its set points in file order.  *)

FreeOn(c, img, s) == {i \in img.free : FreeModes[c][i].screen = s}
\* The points from the first whose mode is not the screen's state: each of
\* them takes the screen over from the one before it.
FreeTaken(c, img, s, on) ==
    {i \in FreeOn(c, img, s) :
        \E j \in FreeOn(c, img, s) : j <= i /\ FreeModes[c][j].mode \notin on}
LastPoint(points) == {i \in points : \A j \in points : j <= i}

FreeState(c, img, s, on) ==
    IF FreeTaken(c, img, s, on) = {} THEN on
    ELSE {FreeModes[c][i].mode : i \in LastPoint(FreeTaken(c, img, s, on))}

\* Of the plans sent one after the other, the last that is configured stays.
FreeSends(c, img, s, on) ==
    {FreeModes[c][i].mode :
        i \in LastPoint({j \in FreeTaken(c, img, s, on) :
                            <<c, s, FreeModes[c][j].mode>> \in Plans})}

-----------------------------------------------------------------------------
(* SwitchScreenHeight: the points of a height that were none of the last one *)
(* are sent in file order; of those of a screen the last configured stays.   *)

HeightPoints(c, img) == IF c \in HeightOn THEN HeightModes[c][img.height] ELSE <<>>

NewHeight(c, img) ==
    IF c \notin HeightOn THEN oldHeight[c]
    ELSE {<<HeightPoints(c, img)[i].screen, HeightPoints(c, img)[i].mode>> :
             i \in DOMAIN HeightPoints(c, img)}

HeightSends(c, img, s) ==
    LET point == HeightPoints(c, img)
        sent  == {i \in DOMAIN point : /\ point[i].screen = s
                                       /\ <<s, point[i].mode>> \notin oldHeight[c]
                                       /\ <<c, s, point[i].mode>> \in Plans}
    IN  {point[i].mode : i \in LastPoint(sent)}

-----------------------------------------------------------------------------
(* One poll of a crane. *)

\* A changed switch value resets the old values of the crane, and of the
\* crane with the number of the console left, unless the crane is released.
BoundStateKept(c, k) == state \* mutant: the reset is dropped
BoundState(c, k) ==
    IF bound[c] = k THEN state
    ELSE [x \in Cranes |-> IF x = c \/ (k # 0 /\ x = bound[c]) THEN {} ELSE state[x]]

ClearPriorityNever(c, k) == prio[c] \* mutant: the call is dropped
ClearPriority(c, k) == IF bound[c] = k THEN prio[c] ELSE [s \in Screens |-> 0]

\* CHANGE_MODE goes to each TV wall that shows a screen of the released
\* console and closes every picture on that wall.
CloseAllIpcInGroupOnMove(c, k) == \* mutant: the call left in the code as a comment
    IF bound[c] = 0 \/ k = bound[c] THEN {}
    ELSE {d \in Displays : \E s \in Screens :
             <<bound[c], s>> \in Displays /\ Group2Pc[<<bound[c], s>>] = Group2Pc[d]}
CloseAllIpcInGroup(c, k) ==
    IF bound[c] = 0 \/ k # 0 THEN {}
    ELSE {d \in Displays : \E s \in Screens :
             <<bound[c], s>> \in Displays /\ Group2Pc[<<bound[c], s>>] = Group2Pc[d]}

\* Saved, though not sent, while the crane that has the console's number has
\* not been through SwitchScreen yet.
FirstSwitch(k) == k \in Cranes /\ first[k]

\* What ScreenSwitch2TVWALL makes of the modes sent for display d: a picture
\* when d is a screen of the console and the plan is configured.
NewPictures(c, k, d, modes) ==
    {[crane |-> c, mode |-> m] : m \in {n \in modes : d[1] = k /\ <<c, d[2], n>> \in Plans}}

\* Old values of one screen, as a set of modes.
Row(cells, s) == {m \in Modes : <<s, m>> \in cells}
Next1Late(c) == IF c > NumCranes THEN 1 ELSE c + 1 \* mutant: wraps one late
Next1(c) == IF c = NumCranes THEN 1 ELSE c + 1

\* Of one screen: its modes marked before the switch, and afterwards; the
\* priority answered; the modes sent.  A free-mode bit blocks SwitchScreen.
OldRow(c, img, s) == Row(BoundState(c, img.console)[c], s)
OldPriority(c, img, s) == ClearPriority(c, img.console)[s]
NewRow(c, img, s) ==
    IF img.free # {} THEN FreeState(c, img, s, OldRow(c, img, s))
    ELSE SwitchedState(img, s, OldRow(c, img, s), OldPriority(c, img, s))
NewPriority(c, img, s) ==
    IF img.free # {} THEN OldPriority(c, img, s)
    ELSE SwitchedPriority(img, s, OldPriority(c, img, s))
Sends(c, img, s) ==
    IF img.free # {} THEN FreeSends(c, img, s, OldRow(c, img, s))
    ELSE SwitchSends(img, s, OldRow(c, img, s), OldPriority(c, img, s))
NewFirst(c, img) == IF img.free # {} THEN first ELSE [first EXCEPT ![c] = FALSE]
New(c, img, d) == NewPictures(c, img.console, d, Sends(c, img, d[2]))
NewByHeight(c, img, d) == NewPictures(c, img.console, d, HeightSends(c, img, d[2]))

\* The pictures of a poll that are kept for display d, and that reach it: the
\* switch comes before the height, which finds the crane past its first switch.
Kept(c, img, d) ==
    LET byHeight == NewByHeight(c, img, d)
    IN  IF byHeight # {} THEN byHeight ELSE New(c, img, d)
Sent(c, img, d) ==
    LET k        == img.console
        byHeight == NewByHeight(c, img, d)
    IN  IF byHeight # {} /\ ~(k \in Cranes /\ NewFirst(c, img)[k]) THEN byHeight
        ELSE IF FirstSwitch(k) THEN {} ELSE New(c, img, d)
Latest(pics, pic) == IF pics = {} THEN pic ELSE CHOOSE p \in pics : TRUE

HandleImage(c, img) ==
    LET k == img.console
    IN  /\ bound' = [bound EXCEPT ![c] = k]
        /\ state' = [BoundState(c, k) EXCEPT
                        ![c] = UNION {{s} \X NewRow(c, img, s) : s \in Screens}]
        /\ prio' = [prio EXCEPT ![c] = [s \in Screens |-> NewPriority(c, img, s)]]
        /\ first' = NewFirst(c, img)
        /\ oldHeight' = [oldHeight EXCEPT ![c] = NewHeight(c, img)]
        /\ saved' = [d \in Displays |->
                       IF refresh /\ c = NumCranes THEN Nothing
                       ELSE Latest(Kept(c, img, d), saved[d])]
        /\ shown' = [d \in Displays |->
                       Latest(Sent(c, img, d),
                              IF d \in CloseAllIpcInGroup(c, k) THEN Nothing ELSE shown[d])]

\* A crane that was and is on no console is skipped.  After the last crane of
\* the pass a requested refresh re-reads the group files (InitGroupData) and
\* so forgets the saved plans.
Poll(img) ==
    /\ connect
    /\ plc' = [plc EXCEPT ![turn] = img]
    /\ turn' = Next1(turn)
    /\ refresh' = (refresh /\ turn # NumCranes)
    /\ IF bound[turn] = 0 /\ img.console = 0
       THEN /\ saved' = IF refresh /\ turn = NumCranes
                        THEN [d \in Displays |-> Nothing] ELSE saved
            /\ UNCHANGED <<bound, state, prio, first, oldHeight, shown>>
       ELSE HandleImage(turn, img)
    /\ UNCHANGED <<enablePriority, connect>>

\* A failed read drops the connection and ends the pass.
ReadFails ==
    /\ connect
    /\ connect' = FALSE
    /\ turn' = 1
    /\ UNCHANGED <<enablePriority, refresh, bound, state, prio, first, oldHeight, saved,
                   shown, plc>>

\* Login of the reconnect thread: no old value is reset.
Login ==
    /\ ~connect
    /\ connect' = TRUE
    /\ UNCHANGED <<enablePriority, turn, refresh, bound, state, prio, first, oldHeight, saved,
                   shown, plc>>

groupConfigureRefreshCall ==
    /\ refresh' = TRUE
    /\ UNCHANGED <<enablePriority, connect, turn, bound, state, prio, first, oldHeight, saved,
                   shown, plc>>

Next ==
    \/ \E img \in DBImages[turn] : Poll(img)
    \/ ReadFails
    \/ Login
    \/ groupConfigureRefreshCall

Spec == Init /\ [][Next]_vars

-----------------------------------------------------------------------------
(* What the polls promise. *)

\* Crane c does not switch with the height, and is not in free mode, nor leaving
\* one with priorities on (ModeAnswered below shows what that does).
Regular(c) ==
    c \notin HeightOn /\ plc[c].free = {} /\ (enablePriority => FreeModes[c] = <<>>)

\* A picture of a crane that is on the display's console is the plan of the
\* mode the crane's DB asks for most.
UpToDate(pic, d) ==
    (pic.crane # 0 /\ bound[pic.crane] = d[1])
        => pic.mode = TopMode(plc[pic.crane], d[2])

(* Whatever happened before - cranes moved between consoles, released and    *)
(* taken again, old values reset on behalf of another crane, connection      *)
(* lost, free mode entered and left - a picture of a crane that is on the    *)
(* console is up to date: SwitchScreen misses no change of its bits.         *)
ShownIsCurrent ==
    \A d \in Displays :
        shown[d].crane # 0 /\ Regular(shown[d].crane) => UpToDate(shown[d], d)

(* The same of the plan kept for a TV wall restart, also while switches are  *)
(* saved but not sent: a restart never brings back an older mode.            *)
SavedIsCurrent ==
    \A d \in Displays :
        saved[d].crane # 0 /\ Regular(saved[d].crane) => UpToDate(saved[d], d)

(* A poll reaches no other console: a display changes only to a plan of the  *)
(* polled crane on the console its DB names, or goes dark because that crane *)
(* was released from a console on the same TV wall.                          *)
PollKeepsToItsConsole ==
    [][\A d \in Displays : shown'[d] # shown[d] =>
          \/ shown'[d].crane = turn /\ plc'[turn].console = d[1]
          \/ /\ shown'[d] = Nothing /\ plc'[turn].console = 0
             /\ \E s \in Screens : /\ <<bound[turn], s>> \in Displays
                                   /\ Group2Pc[<<bound[turn], s>>] = Group2Pc[d]]_vars

(* "according to this value it is decided which console's screens to show    *)
(* on" (ReadPLCDataProcess): a crane alone on a console, outside free mode   *)
(* and past the first-switch suppression, is on every screen of it.          *)
BoundCraneOnAir ==
    \A d \in Displays : \A c \in Cranes :
        (bound[c] = d[1] /\ d[1] \notin Cranes /\ \A x \in Cranes \ {c} : bound[x] # d[1])
            => shown[d].crane = c

(* "pick out the highest priority to answer" (SwitchScreen): outside free    *)
(* mode a picture of a crane on its console is up to date, whatever the      *)
(* priorities are.                                                           *)
ModeAnswered ==
    \A d \in Displays :
        shown[d].crane # 0 /\ plc[shown[d].crane].free = {} => UpToDate(shown[d], d)
=============================================================================
