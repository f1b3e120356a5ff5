---------------------------- MODULE CameraControl ---------------------------
(***************************************************************************)
(* The cameras of a crane in one poll: the PTZ buttons of the selected     *)
(* ones (IpcPtzOperation), the zoom of the others by the hoist's place     *)
(* (IpcZoomOperation) and the cameras that follow the spreader             *)
(* (IpcPtzFollowOperation).                                                *)
(*                                                                         *)
(* What a camera does is here too, as it is what all of this is for: a     *)
(* command reaches it directly (axis-cgi) or through each TV wall of a     *)
(* console; its answer is not looked at.  Pan, tilt and zoom run until     *)
(* they are stopped, pan and tilt together.                                *)
(***************************************************************************)
EXTENDS Crane

CONSTANTS
    ToCam,        \* mPtzCommandToCam: PTZSENDTOCAM of General.ini
    Special,      \* mPtzCommandSendSpecialMap: <<crane, ipc>> -> 0 or 1
    ResetCams,    \* mZoomMualReset: <<crane, ipc>> whose zoom is reset when selected
    ZoomTable,    \* <<crane, ipc>> -> <<feet, height, double>> -> zoom
    MinHeight,    \* the lowest height of that table
    FollowTable,  \* <<crane, ipc>> -> cell -> preset position, 0 where none is given
    MaxFeet, MaxHeight \* ZOOMFEETHEIGHTMAX

NoZoom  == -1   \* no zoom configured, remembered or known
Manual  == -2   \* wherever the operator left it
Home    == -3   \* the preset position "home"
Buttons == 1..6 \* UP DOWN LEFT RIGHT ZOOM_ADD ZOOM_REDUCE
Axis(b) == IF b <= 4 THEN "pantilt" ELSE "zoom"
AtRest  == [pantilt |-> 0, zoom |-> 0]

ZoomCams   == DOMAIN ZoomTable
FollowCams == DOMAIN FollowTable
ZoomValues == UNION {{ZoomTable[x][p] : p \in DOMAIN ZoomTable[x]} : x \in ZoomCams}
Points     == {0} \cup UNION {{FollowTable[x][c] : c \in DOMAIN FollowTable[x]} : x \in FollowCams}

ASSUME CameraAssumption ==
    /\ ToCam \in BOOLEAN
    /\ DOMAIN Special \subseteq Known /\ \A x \in DOMAIN Special : Special[x] \in {0, 1}
    /\ ResetCams \subseteq Known /\ ZoomCams \subseteq Known /\ FollowCams \subseteq Known
    /\ ZoomValues \subseteq Nat /\ Points \subseteq Nat
    /\ MaxFeet \in Nat /\ MaxHeight \in Nat /\ MinHeight \in Int

VARIABLES
    selected,    \* m_bZoomAuto: crane -> the ipcs last seen selected
    ptzState,    \* m_stPtzState: crane -> ipc -> the buttons remembered
    zoomState,   \* m_GroupZoomState: crane -> ipc -> zoom, NoZoom also when there is no entry
    followState, \* m_stPtzPresentPosition: crane -> ipc -> position, NoZoom without an entry
    moving,      \* camera -> axis -> the button whose motion it makes, 0 at rest
    zoomAt,      \* camera -> the zoom it is at
    pointAt,     \* camera -> the position it is at
    missed,      \* history: <<crane, ipc, kind>> whose last automatic message did not arrive
    steady       \* history: <<crane, ipc>> worked by one button at a time, none lost

camera == <<selected, ptzState, zoomState, followState, moving, zoomAt, pointAt, missed, steady>>

Automatic == {"zoom", "follow"}

CameraTypeOK ==
    /\ selected \in [Cranes -> SUBSET Ipcs]
    /\ ptzState \in [Cranes -> [Ipcs -> SUBSET Buttons]]
    /\ zoomState \in [Cranes -> [Ipcs -> ZoomValues \cup {NoZoom}]]
    /\ followState \in [Cranes -> [Ipcs -> Points \cup {NoZoom}]]
    /\ moving \in [Cranes -> [Ipcs -> [pantilt : 0..4, zoom : {0, 5, 6}]]]
    /\ zoomAt \in [Cranes -> [Ipcs -> ZoomValues \cup {0, NoZoom, Manual}]]
    /\ pointAt \in [Cranes -> [Ipcs -> Points \cup {Home, NoZoom, Manual}]]
    /\ missed \subseteq Cranes \X Ipcs \X Automatic
    /\ steady \subseteq Cranes \X Ipcs

Each(v) == [g \in Cranes |-> [i \in Ipcs |-> v]]

CameraInit ==
    /\ selected = [g \in Cranes |-> {}]
    /\ ptzState = Each({}) /\ zoomState = Each(NoZoom) /\ followState = Each(NoZoom)
    /\ moving = Each(AtRest) /\ zoomAt = Each(NoZoom) /\ pointAt = Each(NoZoom)
    /\ missed = {} /\ steady = Cranes \X Ipcs

-----------------------------------------------------------------------------
(* Which way a command goes. *)

IsSpecial(g, i, v) == <<g, i>> \in DOMAIN Special /\ Special[<<g, i>>] = v

\* To the camera itself, by way of a TV wall, or both.
PtzByCam(g, i)  == IF ToCam THEN ~IsSpecial(g, i, 0) ELSE IsSpecial(g, i, 1)
PtzByWall(g, i) == ToCam => IsSpecial(g, i, 0)
ZoomByCam(g, i) == IsSpecial(g, i, 1) \/ (ToCam /\ <<g, i>> \notin DOMAIN Special)

PtzArrives(g, i, console)  == PtzByCam(g, i) \/ (PtzByWall(g, i) /\ HasWall(console))
ZoomArrives(g, i, console) == ZoomByCam(g, i) \/ HasWall(console)
\* The reset of the zoom takes the crane's own number for the console.
ResetArrives(g) == ToCam \/ HasWall(g)

-----------------------------------------------------------------------------
(* IpcPtzOperation. *)

\* A camera newly selected that the group files do not name ends the loop.
Unnamed(g, img) == {i \in img.sel \ selected[g] : <<g, i>> \notin Known}
Reached(g, img) == {i \in Ipcs : \A j \in Unnamed(g, img) : i < j}

NowSelected(g, img) ==
    LET reached == Reached(g, img) IN (selected[g] \ reached) \cup (img.sel \cap reached)

PtzChangesPressed(g, i, img) == \* mutant: a release goes unseen
    img.buttons[i] \ ptzState[g][i] # {}
PtzChanges(g, i, img) == img.buttons[i] # ptzState[g][i]
\* The lowest button that is pressed, or was: it alone is started or stopped.
LowestOf(set) == CHOOSE b \in set : \A x \in set : b <= x
Button(g, i, img) == LowestOf(img.buttons[i] \cup ptzState[g][i])

PtzMoves(g, i, img) ==
    LET b == Button(g, i, img)
    IN  [moving[g][i] EXCEPT ![Axis(b)] = IF b \in img.buttons[i] THEN b ELSE 0]

-----------------------------------------------------------------------------
(* The hoist's place, and IpcZoomOperation. *)

\* The low byte is taken as a signed char and or-ed in, and so from 128 on it
\* makes the height negative.
HoistHeight(img) == IF img.height % 256 < 128 THEN img.height ELSE (img.height % 256) - 256

\* Below the table's lowest height its cell is read out of bounds: anything.
OutOfTable(img) == img.feet # 0 /\ HoistHeight(img) < MinHeight

\* The table of the twin-lift mode is looked up first, the other one then.
ZoomOf(g, i, img, wild) ==
    LET place(mode) == <<img.feet, HoistHeight(img), mode>>
        table == ZoomTable[<<g, i>>]
    IN  IF OutOfTable(img) THEN wild
        ELSE IF place(img.double) \in DOMAIN table THEN table[place(img.double)]
        ELSE IF place(FALSE) \in DOMAIN table THEN table[place(FALSE)]
        ELSE NoZoom

\* From here on, now is NowSelected: IpcPtzOperation came first.
AutoZoomAlways(i, now) == TRUE \* mutant: a selected camera is zoomed too
AutoZoom(i, now) == i \notin now
\* What was sent is forgotten when a camera is newly selected.
KnownZoomKept(g, i, now) == zoomState[g][i] \* mutant: it is not
KnownZoom(g, i, now) == IF i \in now \ selected[g] THEN NoZoom ELSE zoomState[g][i]
ZoomChanges(g, i, img, now, wild) ==
    /\ <<g, i>> \in ZoomCams /\ AutoZoom(i, now)
    /\ ZoomOf(g, i, img, wild) \notin {NoZoom, KnownZoom(g, i, now)}

-----------------------------------------------------------------------------
(* IpcPtzFollowOperation: rows of the table overlap by one height. *)

InRange(img) == img.feet \in 1..MaxFeet /\ HoistHeight(img) \in -19..MaxHeight
Cell(img) == img.feet * MaxHeight + HoistHeight(img)
FollowPoint(g, i, img) ==
    IF Cell(img) \in DOMAIN FollowTable[<<g, i>>] THEN FollowTable[<<g, i>>][Cell(img)] ELSE 0
FollowChanges(g, i, img) ==
    <<g, i>> \in FollowCams /\ InRange(img) /\ FollowPoint(g, i, img) # followState[g][i]
\* Called for the first time with no position given, a camera goes home;
\* later it is sent to the position called "0".
Called(g, i, img) ==
    IF followState[g][i] = NoZoom /\ FollowPoint(g, i, img) = 0
    THEN Home ELSE FollowPoint(g, i, img)

-----------------------------------------------------------------------------
(* One poll: the three operations in turn, for every camera of the crane.    *)

\* The commands it makes.
CameraMessages(g, img, wild) ==
    LET now == NowSelected(g, img)
        pressed == {i \in Reached(g, img) \cap img.sel : PtzChanges(g, i, img)}
        zoomed == {i \in Ipcs : ZoomChanges(g, i, img, now, wild)}
        called == {i \in Ipcs : FollowChanges(g, i, img)}
    IN  {<<i, "reset">> : i \in {j \in now \ selected[g] : <<g, j>> \in ResetCams}}
        \cup {<<i, "ptz">> : i \in pressed} \cup {<<i, "zoom">> : i \in zoomed}
        \cup {<<i, "follow">> : i \in called}
Arrives(g, i, kind, console) ==
    CASE kind = "reset"  -> ResetArrives(g)
      [] kind = "ptz"    -> PtzArrives(g, i, console)
      [] kind = "zoom"   -> ZoomArrives(g, i, console)
      [] kind = "follow" -> TRUE

\* What a cell read out of bounds may hold.
WildZooms(img) == IF OutOfTable(img) THEN ZoomValues \cup {NoZoom} ELSE {NoZoom}

\* The operator works one button at a time and keeps the camera selected over it.
OneButton(g, i, img) ==
    LET before == IF i \in plc[g].sel THEN plc[g].buttons[i] ELSE {}
        now    == IF i \in img.sel THEN img.buttons[i] ELSE {}
    IN  /\ Cardinality(before \cup now) <= 1
        /\ before # {} => i \in img.sel

CameraPoll(g, img, sent, lost, wild) ==
    LET got == {x \in sent \ {lost} : Arrives(g, x[1], x[2], img.console)}
        now == NowSelected(g, img)
        reached == Reached(g, img)
    IN  /\ selected' = [selected EXCEPT ![g] = now]
        /\ ptzState' = [ptzState EXCEPT ![g] = [i \in Ipcs |->
                IF <<i, "ptz">> \in sent THEN img.buttons[i] ELSE @[i]]]
        /\ zoomState' = [zoomState EXCEPT ![g] = [i \in Ipcs |->
                IF <<i, "zoom">> \in sent THEN ZoomOf(g, i, img, wild) ELSE KnownZoom(g, i, now)]]
        /\ followState' = [followState EXCEPT ![g] = [i \in Ipcs |->
                IF <<i, "follow">> \in sent THEN FollowPoint(g, i, img) ELSE @[i]]]
        /\ moving' = [moving EXCEPT ![g] = [i \in Ipcs |->
                IF <<i, "ptz">> \in got THEN PtzMoves(g, i, img) ELSE @[i]]]
        /\ zoomAt' = [zoomAt EXCEPT ![g] = [i \in Ipcs |->
                IF moving'[g][i].zoom # 0 THEN Manual
                ELSE IF <<i, "zoom">> \in got THEN ZoomOf(g, i, img, wild)
                ELSE IF <<i, "reset">> \in got THEN 0 ELSE @[i]]]
        /\ pointAt' = [pointAt EXCEPT ![g] = [i \in Ipcs |->
                IF moving'[g][i].pantilt # 0 THEN Manual
                ELSE IF <<i, "follow">> \in got THEN Called(g, i, img) ELSE @[i]]]
        /\ missed' = (missed \ {<<g, x[1], x[2]>> : x \in got})
                       \cup {<<g, x[1], x[2]>> : x \in {y \in sent \ got : y[2] \in Automatic}}
        /\ steady' = {x \in steady : x[1] # g \/
                (/\ OneButton(g, x[2], img) /\ x[2] \in reached
                 /\ <<x[2], "ptz">> \notin sent \ got)}

-----------------------------------------------------------------------------
(* As long as a camera's buttons are worked one at a time, each while the    *)
(* camera is selected, and no command of theirs is lost, the camera makes    *)
(* the motion of the button held, and none when none is (IpcPtzOperation).   *)
HandFollowed ==
    \A g \in Cranes, i \in Ipcs :
        LET held == IF i \in plc[g].sel THEN plc[g].buttons[i] ELSE {}
        IN  <<g, i>> \in steady =>
              \A a \in {"pantilt", "zoom"} :
                moving[g][i][a] = IF \E b \in held : Axis(b) = a
                                  THEN CHOOSE b \in held : TRUE ELSE 0

(* "manual: the function is off" (IpcZoomOperation): the hoist does not      *)
(* change the zoom of a camera the operator has selected, from the very poll *)
(* it is selected in.                                                        *)
ManualKeepsZoom ==
    [][\A g \in Cranes, i \in Ipcs :
          (<<g, i>> \in Known /\ i \in plc'[g].sel /\ i \in selected'[g]) =>
              zoomAt'[g][i] \in {zoomAt[g][i], 0, Manual}]_<<plc, camera>>

(* A camera that is not selected is at the zoom given for the hoist's place, *)
(* also after the operator had it, and a following camera at the position    *)
(* given for it, unless the message was lost or found no TV wall, the height *)
(* was outside the tables, or the camera was moved or left moving by hand.   *)
HoistFollowed ==
    \A g \in Cranes, i \in Ipcs :
        LET img == plc[g]
        IN  (~OutOfTable(img) /\ bound[g] # 0) =>
              /\ (/\ <<g, i>> \in ZoomCams /\ i \notin img.sel \cup selected[g]
                  /\ ZoomOf(g, i, img, NoZoom) # NoZoom
                  /\ <<g, i, "zoom">> \notin missed /\ moving[g][i].zoom = 0)
                    => zoomAt[g][i] = ZoomOf(g, i, img, NoZoom)
              /\ (/\ <<g, i>> \in FollowCams /\ InRange(img)
                  /\ <<g, i, "follow">> \notin missed /\ pointAt[g][i] \notin {Home, Manual})
                    => pointAt[g][i] = FollowPoint(g, i, img)
=============================================================================
