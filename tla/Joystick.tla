------------------------------ MODULE Joystick ------------------------------
(***************************************************************************)
(* The joystick of JjhAlarmDll (JoystickManager), a library the host loads *)
(* instead of PlcConnect: buttons choose a camera and page through plans,  *)
(* the stick pans, tilts and zooms.  One string, ptzStatus, stands for     *)
(* whether anything moves, whichever camera or axis it is.                 *)
(*                                                                         *)
(* The reader of alarms in the same library is never started, so that      *)
(* PuidGet always leaves the camera to the button's.                       *)
(***************************************************************************)
EXTENDS Integers

CONSTANTS
    Button,    \* m_Index2IpcMap: button -> its camera
    Pages,     \* m_iScreenTotal
    Positions, \* bound: places <<x, y, z>> of the stick
    MaxDropped \* bound: messages that do not arrive

StepMax == 8   \* STEP_LEN_MAX
ZoomMax == 967 \* AXIS_ZOOM_MAX
Values  == -ZoomMax..ZoomMax
Buttons == 1..4
Directions == {"up", "down", "left", "right"}

ASSUME JoystickAssumption ==
    /\ DOMAIN Button \subseteq Buttons /\ Pages \in Nat /\ MaxDropped \in Nat
    /\ Positions \subseteq Values \X Values \X Values

VARIABLES
    select,   \* m_iIpcSelect
    page,     \* m_iBtnCount
    status,   \* ptzStatus
    steps,    \* m_OldCmdState: direction -> the step sent last
    stick,    \* the stick's <<x, y, z>>
    moving,   \* cameras whose last command that arrived is a start
    strayed,  \* history: cameras left while they moved, or whose stop was lost
    dropped

joy == <<select, page, status, steps, stick, moving, strayed, dropped>>

Middle  == <<0, 0, 0>>
JoyCams == {Button[b] : b \in DOMAIN Button}

JoystickTypeOK ==
    /\ select \in Buttons /\ page \in 0..Pages \cup {1}
    /\ status \in {"start", "stop"}
    /\ steps \in [Directions -> 0..StepMax]
    /\ stick \in Positions \cup {Middle}
    /\ moving \subseteq JoyCams /\ strayed \subseteq JoyCams /\ dropped \in 0..MaxDropped

JoystickInit ==
    /\ select = 1 /\ page = 1 /\ status = "stop" /\ stick = Middle
    /\ steps = [d \in Directions |-> 0]
    /\ moving = {} /\ strayed = {} /\ dropped = 0

-----------------------------------------------------------------------------
(* Buttons. *)

AfterSelectStop == "stop" \* mutant: the new camera starts afresh
AfterSelect == status

CameraAt(b) == {Button[k] : k \in {b} \cap DOMAIN Button}

Selects(b) ==
    /\ select' = b /\ status' = AfterSelect
    /\ strayed' = strayed \cup (moving \ CameraAt(b))
    /\ UNCHANGED <<page, steps, stick, moving, dropped>>

Turned(back) ==
    IF back THEN IF page <= 1 THEN Pages ELSE page - 1
    ELSE IF page >= Pages THEN 1 ELSE page + 1

\* The plan of the page is sent to its TV wall.
TurnsPage(back) ==
    /\ page' = Turned(back)
    /\ UNCHANGED <<select, status, steps, stick, moving, strayed, dropped>>

-----------------------------------------------------------------------------
(* The stick. *)

\* (STEP_LEN_MAX*value)/AXIS_ZOOM_MAX, without its sign: 0 near the middle.
Step(value) == (StepMax * (IF value < 0 THEN -value ELSE value)) \div ZoomMax

\* A movement to the right is remembered as one to the left.
Direction(axis, value) ==
    IF axis = "x" THEN "left" ELSE IF value < 0 THEN "up" ELSE "down"
Compared(axis, value) ==
    IF axis = "x" /\ value > 0 THEN "right" ELSE Direction(axis, value)
Opposites(axis) == IF axis = "x" THEN <<"left", "right">> ELSE <<"up", "down">>

\* The direction whose step is set, and what the camera is told: one axis.
Stopped(axis) ==
    LET o == Opposites(axis) IN IF steps[o[1]] # 0 THEN {o[1]}
                                ELSE IF steps[o[2]] # 0 THEN {o[2]} ELSE {}
Told(axis, value) ==
    IF Step(value) = 0 THEN IF Stopped(axis) = {} THEN "nothing" ELSE "stop"
    ELSE IF steps[Compared(axis, value)] # Step(value) THEN "start" ELSE "nothing"
Remembered(axis, value, old) ==
    [d \in Directions |->
        IF Step(value) = 0 /\ d \in Stopped(axis) THEN 0
        ELSE IF Told(axis, value) = "start" /\ d = Direction(axis, value) THEN Step(value)
        ELSE old[d]]

\* A command that says what the last one said is not sent.
Anew(before, command) == command \notin {"nothing", before}
After(before, command) == IF Anew(before, command) THEN command ELSE before

\* Two commands in a row to the selected camera; one may not arrive.
Operates(first, second) ==
    LET command == <<first, second>>
        between == After(status, first)
        sent    == {i \in {1, 2} : Anew(<<status, between>>[i], command[i])}
        camera  == CameraAt(select)
    IN  \E lost \in {{}} \cup {{i} : i \in sent} :
        LET last == IF sent \ lost = {} THEN "nothing"
                    ELSE command[CHOOSE i \in sent \ lost : \A j \in sent \ lost : j <= i]
        IN  /\ status' = After(between, second)
            /\ IF lost = {} THEN UNCHANGED dropped
               ELSE dropped < MaxDropped /\ dropped' = dropped + 1
            /\ moving' = CASE last = "start" -> moving \cup camera
                           [] last = "stop"  -> moving \ camera
                           [] OTHER -> moving
            /\ strayed' = IF last = "stop" THEN strayed \ camera
                          ELSE IF \E i \in lost : command[i] = "stop" THEN strayed \cup camera
                          ELSE strayed

ZoomsBy(z) ==
    /\ Operates(IF z # 0 THEN "start" ELSE "stop", "nothing")
    /\ UNCHANGED steps

Pans(x, y) ==
    /\ Operates(Told("x", x), Told("y", y))
    /\ steps' = Remembered("y", y, Remembered("x", x, steps))

Moves(x, y, z) ==
    /\ stick' = <<x, y, z>>
    /\ IF CameraAt(select) = {} THEN UNCHANGED <<status, steps, moving, strayed, dropped>>
       ELSE IF x = 0 /\ y = 0 THEN ZoomsBy(z) ELSE Pans(x, y)
    /\ UNCHANGED <<select, page>>

JoystickNext ==
    \/ \E b \in Buttons : Selects(b)
    \/ \E back \in BOOLEAN : TurnsPage(back)
    \/ \E p \in Positions : Moves(p[1], p[2], p[3])

-----------------------------------------------------------------------------
(* With the stick back in its middle every camera has been told to stop,     *)
(* whatever it did before and in however many steps it came back, unless it  *)
(* was left for another while it moved or its stop was lost (DealZoomOperate,*)
(* OperatePtz).                                                              *)
StickRests == stick = Middle => moving \subseteq strayed
=============================================================================
