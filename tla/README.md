# PLCManager in TLA+

PLCManager connects the PLCs of a port's cranes with the video walls of its remote-control
consoles. A crane's PLC says, in a data block (DB) it keeps, which console drives the crane and
what the operator there wants to see; the program reads the DBs and has the TV walls of that
console show the crane's cameras. This directory models the parts of it in which order, timing
and failure matter, checks them with TLC and proves some of the results with TLAPS.

Paths are relative to `src/PLCManager`; `Client.cpp` and `Client.h` are those of
`PlcConnect/PlcConnect`, `PlcTextDlg.*` those of `PlcText/PlcText`.

## The system

| Part | State it keeps | Operations | Talks to |
| --- | --- | --- | --- |
| PLC reader (`CClient::ReadPLCDataProcess`, thread `RunGetPlcData`) | console a crane was last seen on, old values of its mode bits, last priority per screen, first-switch flags, saved plans | reads each DB in turn; screen switch, free mode, switching with the hoist height, free cut, cameras, presets; refresh of the group files | PLC (nodave), TV walls through the host's callback |
| Keep-alive thread (`RunKeepAlive`, `DealKeepAlive`) | last state answered by each TV wall | heartbeat to each wall; sends a restarted wall its saved plans | TV walls through the callback; shares `m_lockClient`, `groupDataLock` and the saved plans with the reader |
| Reconnect thread (`RunReConnect`, `Login`) | connection flag and handles of a client | logs in again when the connection is lost | PLC; `m_lockClient` |
| Host PlcText (`CPlcTextDlg`) | threads, watchdog, camera state read from MySQL | starts and stops everything; `SetIpcState`, `HeartBeet`; daily restart; watchdog | the SDK's exports; HTTP client |
| Daemon Angel and ShareDaemon | a run flag shared by the processes | starts PlcText when there is no such process | Windows |
| PTZ, zoom, follow (`IpcPtzOperation` and its two siblings) | buttons, zoom and position last sent per camera, cameras selected | buttons of the DB to cameras; zoom and position by the hoist's place for cameras not selected | cameras directly or by way of TV walls |
| Preset points (`PresetPointCall`) | points still to be called, failures counted, whether the way back was made | calls, retries, way back | cameras (HTTP) |
| Free cuts (`FreeCutScreen`, `SendOldFreeCutScreeninfo`) | per cell: camera, console, TV wall it was sent to | one camera into one window; resent to a restarted wall | TV walls; the keep-alive thread |
| Camera state reporting (`SetIpcState`, `CheckWriteIpcState`) | last state stored per camera and server | writes online bits into DBs and registers | PLC, Modbus servers; `m_lockClient` |
| Modbus mode (`ReadModbusDataProcess`) | console per crane, old values, priorities answered | the same decisions from registers, one client per server | libmodbus |
| OPC mode (`ReadOpcDataProcess`, `RunReConnectOpc`) | COM server object, group, items; crane per console, talk buttons | connects, reads items, switches, connects talks | OPC toolkit, broadcast system (HTTP) |
| Joystick (`JoystickManager` of JjhAlarmDll, which the host may load instead) | selected camera, page, `ptzStatus`, steps sent last | buttons, pan, tilt and zoom | TV walls |
| HTTP client (`httpClient`) | one request with its answer and timer | synchronous request over an asynchronous socket | TV walls, cameras |
| ConfigSet, PlcServer, As300SDK, alarm reader of JjhAlarmDll, old copies, vendored libraries | | | not modelled, see below |

What makes it hard: four threads, two locks taken in both orders, threads killed with
`TerminateThread` while holding them, TV walls that restart and lose messages nobody acknowledges,
a PLC whose values may jump between any two polls, decisions made on differences to values that
six paths reset or overwrite, requests whose result is dropped though what they were for is
remembered, an OPC connection made and taken down by two threads without a lock, and a supervision
that starts and closes the program from three sides at once.

What makes each part right:

- switching: no change of the DB is missed by what a wall shows; a poll touches only its console;
- TV wall link: an old plan never comes back; a restarted wall gets its plans;
- threads: exclusion across killed threads, nothing uses freed clients, shutting down ends, the
  reader is not starved, a refresh is carried out;
- supervision: one process serves, silence is ended, somebody serves again;
- cameras: buttons are followed and released, the hoist leaves cameras worked by hand alone and
  takes the others up again, preset calls end in success or after seven failures;
- free cuts: the camera sent last is the one the DB names, and it comes back with a restarted wall;
- connections: they come back; registers say what was last reported; no OPC item outlives its group;
- Modbus and OPC: what registers and items ask for is shown; a button let go ends the talk;
- joystick: a stick let go leaves no camera moving.

## Modules

| Module | What it models |
| --- | --- |
| `ScreenSwitch` | one crane's poll as one action: switch-over, modes and priorities, free mode, hoist height, `CHANGE_MODE`, saved plans |
| `MCScreenSwitch` | its constants for TLC |
| `ScreenSwitchProofs` | theorems about `ScreenSwitch` |
| `TvWallLink` | reader and keep-alive thread against the TV walls, message by message |
| `WallMemory` | what the link promises about the pictures; `TvWallLink` implements it |
| `ClientThreads` | the four threads, both locks, stop order and kills |
| `ClientThreadsProofs` | theorems about `ClientThreads` |
| `Supervision` | watchdog, daily restart, operator and daemon |
| `Crane` | what the operations of a poll share: cranes, consoles, cameras, messages that get lost |
| `CameraControl`, `PresetPoints`, `FreeCuts` | three operations of a poll, each with the cameras, walls or windows it works on |
| `CranePoll`, `MCCranePoll` | one poll made of the three, with refreshes and restarts of walls; constants |
| `PlcLink` | PLC and Modbus connections, and the camera states written over them |
| `OpcLink` | the OPC connection: COM object, group, items, two threads |
| `Desks` | consoles with pictures, which the next two share |
| `OpcItems`, `ModbusItems` | what the OPC and Modbus readers make of what they read |
| `Joystick` | the joystick of JjhAlarmDll |
| `DataLinks`, `MCDataLinks` | the sources a site may be set up with, of which one is started; constants |
| `DataLinksProofs`, `ModbusProofs` | theorems about `DataLinks`, those about Modbus mode apart |
| `TvWallLinkProofs`, `SupervisionProofs`, `CranePollProofs` | theorems about the module of the name |
| `Numbers` | lemmas on largest and smallest numbers that other modules of theorems use |

`PROJECT.json` maps every definition to its lines.

### ScreenSwitch

A poll holds `m_lockClient` from the first DB to the last, so nobody sees it half done, and the
sends it makes are synchronous: one action per DB (`Poll`) is what others can observe. It
contains the whole of the branch of `ReadPLCDataProcess` that has to do with screens: the
skipping of cranes on no console, `CloseAllIpcInGroup`, `ClearPriority`, the resets of old values
(`BoundState`), `FreeModeSwitch`, `SwitchScreen` (`Held`, `ModeSwitch`, `BackToInitial`), the
first-switch suppression and the saving in `ScreenSwitch2TVWALL`, `SwitchScreenHeight` (which
comes after the switch of the same poll, so that its picture stays and finds the crane past its
first switch), and, after the last crane, a requested `InitGroupData`. `m_MapScreenState[c]` is the set of its cells equal to 1. A plan is
the pair of the crane and mode it was configured for; its split and camera list are data no
property looks at. `plc` is a history variable: the DB as last read.

Assumed: screens are numbered below 16 (where the `memset` of 32*32 bytes resets everything); a
DB's console number is one of `Consoles`; a TV wall in this module does not restart and loses
nothing (that is `TvWallLink`'s subject). The steps of a poll for cameras, text bars and presets
are left out, as they touch none of this state, and so are free cuts, which lay single cameras
over the picture a screen has (`CranePoll` has them). A height stands for the points whose range it is in,
kept for each crane that has the option (`HeightOn`) in the order of the group file.

### TvWallLink and WallMemory

Steps are the stretches between two HTTP requests. `GetPlcDataInfo` is `ReaderLocks`,
any number of switches (`ReaderSwitches`, `ReaderSendsCut`, `ReaderSendsMap`, `ReaderSaves`) and
`ReaderUnlocks`, or a refresh with `groupDataLock` inside `m_lockClient`. `RunKeepAlive` takes
`groupDataLock`, asks each wall, takes `m_lockClient`, compares the wall's state, resends from a
copy, and releases. A wall answers heartbeats with a state of its present life. Plans are
numbered as they are asked for, so that an old one can be told from a new one. A lost heartbeat
also stands for an answer that is ignored since its index is not the last one sent.

`WallMemory` states the promise with two variables: each half of what a screen shows is nothing
or has become the plan asked for last. The run's `NeverAnOlderPlan` is `WallMemory!Spec` under
the mapping (asked, shows) <- (asked, display).

Not in it: `SendOldFreeCutScreeninfo` (in `FreeCuts`), and `DealKeepAlive` called by the host
through `HeartBeet` (in `ClientThreads` as far as locks go). Walls with several displays per screen count as one.

### ClientThreads

`pc` says where each thread is with regard to the locks; what a thread does there is abstracted.
`main` walks through `OnDestroy` and `~CClientManager`: clear the flag of a thread (for the
reader, that of another one, as the code does), wait a second, kill it. A killed thread stays
where it is with the locks it holds. `heapOrphaned` is Windows' part: a thread killed inside the
allocator leaves the heap lock taken, and the main thread, which allocates and frees after the
host's own thread was stopped, can hang on that; nothing else can stop it.

### Supervision

Processes are slots 1..MaxProcs. The watchdog's loop is two steps, as it reads the clock before
the heartbeat, and the difference is taken modulo 2^Width. `Restart` creates a successor and then
closes its own process. The daemon looks for any process of the name, hung ones included.

### CranePoll: CameraControl, PresetPoints, FreeCuts

`Poll(g)` is the rest of a poll of crane g's DB after the screens: `CameraPoll`, `PresetPoll` and
`CutsPoll`, in the order of `ReadPLCDataProcess`, as one action, since `m_lockClient` is held and
the requests are synchronous. What these operations remember is disjoint, so that each module
has its own variables; what they share (`bound`, the console of the last poll, and `plc`, the DB as
last read) is in `Crane`. The modules model what a message does to the camera or wall it reaches, as
the properties are about that: a camera moves until told to stop, pan and tilt together, and is at the
zoom or position sent last unless moved by hand. At most one message of a poll is lost.

- `CameraControl`: `IpcPtzOperation` with its quirks (one command for a change of several buttons,
  by the lowest bit; a camera without a name ends the loop; the reset of the zoom takes the crane's
  number for the console's), `IpcZoomOperation` with `AutoZoom`, the two tables and the height put
  together from signed chars (`OutOfTable` reads anything: `WildZooms`), `IpcPtzFollowOperation`.
- `PresetPoints`: `PresetPointCall`, whose counter of failures is shared by calls and ways back. A
  request that fails is one whose answer did not come.
- `FreeCuts`: `FreeCutScreen` and `FreeCutScreenToTVwall`, entry by entry, with the branches for
  cameras and consoles that are not found, and `SendOldFreeCutScreeninfo`. Plans (`ScreenSwitch`)
  are here as far as free cuts depend on them: they fill windows and set the split.

### DataLinks: PlcLink, OpcLink, OpcItems, ModbusItems, Joystick

A site is set up with one source (`mode`), and only its threads are started; the others keep their
initial state. OPC and Modbus are taken in two halves, the connection and what is made of the data:
they meet only in that an item may read as 0 and a request may fail, which the second half allows at
any time.

- `PlcLink`: `Login`/`LoginModbus` once a second for each client, a read that fails as the only sign
  of a lost connection, and `SetIpcState`, which stores a state before it is written and does not
  look at the result. `vain` is the set of cameras whose last write failed or was wiped out.
- `OpcLink`: the steps of `opcServerConnect`, which the reconnect thread (going by `mConnectOpc`) and
  the reader (going by the COM object) carry out without a lock, and `opcServerDisconnect`. A group is
  a number; disconnecting deletes the server's groups with their items. `raced` marks the ways in
  which the threads are known to meet.
- `OpcItems`: the loop over the consoles: hand-over, `OpcSwitchScreen`, `Broadcast`. All screens of a
  console have the same mode, so one row of old values stands for all.
- `ModbusItems`: the loop over the cranes: hand-over with `CloseAllIpcInGroup` and `ClearPriority`,
  `SwitchScreenModbus`. A release is only noted. The second request of a turn may fail (`HalfReads`).
- `Joystick`: `ptzStatus` is one for all cameras and axes, and a command equal to it is not sent;
  `steps` are the entries of `m_OldCmdState`, where a step to the right is stored as one to the left.
  Two commands of one movement (pan, then tilt), of which one may be lost, are one action.

## Runs

| Run | Shows | Instance |
| --- | --- | --- |
| `screen_switch` | `ShownIsCurrent`, `SavedIsCurrent`, `PollKeepsToItsConsole` | 2 cranes, consoles 2 (which has a crane's number) and 3, one screen, modes 0..2 ranked, priorities on and off, a free-mode point, a hoist with two heights |
| `hand_over` (violation) | `BoundCraneOnAir` | console 3 shared by two cranes |
| `tied_modes` (violation) | `ModeAnswered` | two modes of equal priority |
| `tv_wall_link` | `SeenWallsInStep`, `NeverAnOlderPlan`, `RestartedWallsRestored` | 2 walls of 2 screens, 2 switches, a crash per wall, 1 loss, 1 refresh |
| `lost_resend` (violation) | `LatestInformationSent` | 1 wall, 1 crash, 1 loss |
| `refresh_deadlock` (violation) | `RefreshCarriedOut` | 1 wall, 1 refresh |
| `client_threads` | stable tables, nothing outlives the clients, shutdown ends, the reader keeps reading | all four threads |
| `supervision` | `OneInstance`, `SilenceEnds`, `KeptRunning` | 2 processes, clock 0..3, timeout 1 |
| `supervision_early` (violation) | `ClosedOnlyWhenSilent` | the same |
| `crane_poll` | `HandFollowed`, `HoistFollowed`, `ManualKeepsZoom`, `CalledOrGivenUp`, `CallsSettle`, `FreeCutsCurrent`, `CutsRestored` | 2 cranes, 2 consoles with a wall each, 3 camera numbers of which one has no camera, 2 windows, 1 lost message, 1 refresh, 1 restart |
| `free_cut_resend` (violation) | `RestoredIsLatest` | the same, free cuts only |
| `data_links` | `StateOnPlc`, `LinkComesBack`; `ItemsUsable`, `OpcComesBack`; `OpcShown`, `TalkEnds`; `ModbusShown`; `StickRests` | 2 servers, 1 camera, 3 faults; 3 OPC items, server started 3 times, 1 item refused; 2 consoles, 2 cranes, 3 modes, 1 message lost; 4 buttons, 10 places of the stick, 1 message lost |

Why the bounds are enough. `ScreenSwitch`: the interplay is between a crane, another crane on
the same console and the crane that has the console's number: two cranes and console 2 give all
three. Screens do not interact but through a shared TV wall, modes only through ranks: two ranked
modes besides the initial one. Crane 1's DB takes every value there is at one height; crane 2 has
the free-mode point and the hoist, which goes up on console 2 alone to keep the run short. `TvWallLink`: an old plan
and a new one need two switches, a wall's memory one restart, the loop's order two walls and two
screens. `ClientThreads` is not bounded. `Supervision`: a successor and its predecessor; the clock
passes the timeout and the restart time.

`crane_poll`: a site uses one part of the DB at a time (`Parts`), as what the parts remember does not
meet; refreshes and restarts concern preset points and free cuts only (`FileParts`). Buttons: two of
different axes, alone and together, on a camera commanded directly and one commanded by way of the
walls, with the camera that has no name between them; the hoist: two heights in range, one of them
with two containers, one that wraps, and no place. `MaxLosses` 1: a second loss can only hide what
the first one shows. Calls: eight polls in a row, each with any set of failures, is what seven
retries need. Free cuts: a camera without a name, a cut taken back, a hand-over to another console
and to one shared with crane 2, a plan with fewer windows.

`data_links`: two servers, as what is stored is per server and what is reported goes to all;
`MaxFaults` 3 covers a lost connection, a refused login and a failed write. `MaxRuns` 3: a server that
dies twice; `MaxGroups` 6: a group per connection and more when threads meet; `MaxRefused` 1. Number
3 (`MaxCrane`) is a crane that is not configured. `ItemModes`: none, one without a plan for crane 2,
and one out of range; `BitImages`: all bits for crane 1, one for crane 2, whose turns matter
by what they close and reset. `MaxMissed` 1. `Positions`: rest, zoom, one axis, both, both with zoom,
inside the dead band of one axis; two of three cameras on different buttons are the same one.
`MaxDropped` 1.

Deadlock is not checked where the system may stop: the bounded counters run out, the program
shuts down, or two threads wait for each other (which `refresh_deadlock` shows).

### Fairness

- `TvWallLink`: a thread between requests goes on (weak). Both threads sleep without locks
  between rounds, so a waiter gets the lock at last (strong). A crashed wall is started again.
- `ClientThreads`: threads go on (weak), the reader gets a lock that is released again and again
  (strong), the main thread goes on, as its waits are bounded by a second (weak). No fairness for
  the user's actions.
- `CranePoll` has none: its properties are of safety.
- `PlcLink`: both threads go round for ever, so a login that is possible is made and a read over a
  dead connection fails at last (weak). Nothing makes a server reachable. A login refused for
  ever is ruled out by the bound of faults only.
- `OpcLink`: both threads go round for ever (weak for their steps, together, as a thread is always in
  one place). Nothing makes the server start.
- `Supervision`: threads and the daemon go on; `CreateProcess` by the daemon does not fail
  for ever (strong); no fairness for crashes, hangs, clock or operator.

### What the violation runs found

Each is a property quoted from a comment of the code, and what the code does instead:
`hand_over` (a release darkens the console another crane is bound to, and its old values hide
that), `tied_modes` (the priority is compared instead of the mode), `lost_resend` (a resend nobody
checks), `refresh_deadlock` (both locks in both orders), `supervision_early` (unsigned difference
of a newer heartbeat), `free_cut_resend` (old free cuts sent after, and over, current ones). `findings` in `PROJECT.json` quotes the lines.

## Proofs

Every invariant and action property of the passing runs is a theorem, for every value of the
constants the modules' ASSUMEs allow, and so is the refinement `NeverAnOlderPlan`. Where a run finds
what a comment promises violated, a theorem says what is left of the promise:

| Violation run | What is proved instead |
| --- | --- |
| `hand_over` | `AloneOnAir`: a crane with a console and TV walls of its own is on every screen of the console |
| `refresh_deadlock` | `ChainsNeedRefreshHolds`: nothing but a refresh makes threads wait in a circle; `DeadlockForEver`: that circle is never left |
| `supervision_early` | `EarlyOnlyIfOvertaken`: only a heartbeat written between the watchdog's two readings closes a process that is not silent; `SilentOrOvertakenClosed`: a silence is always found |
| `lost_resend` | `SeenWallsShowLatestHolds`: with no message of the keep-alive thread lost and no refresh, a seen wall shows the plans asked for last |
| `tied_modes` | `ShownIsCurrentHolds`, for modes that do not tie |
| `free_cut_resend` | `CutsRestoredHolds`, for walls that one crane's entry remembers |

The properties of these theorems that no run checks are stated in the proof modules, next to their
theorem; TLC found each of them to hold on the constants of its component's run before it was proved.

`ClientThreadsProofs` proves, for the module as it stands (its constants are any five distinct
names), that `ClientThreads`' specification keeps `TypeOK`, `MutualExclusion` (which no run repeats),
`KeeperTablesStable` and `NoThreadOutlivesClients`. None of them is inductive alone. The
inductive invariant adds who owns a lock: a thread, live or killed, in a place guarded by
`m_lockClient` is its owner, and the same of `groupDataLock` for the reader
building and the keep-alive thread beating; exclusion follows from the owner being one thread. For the last
theorem it adds that the threads of the stop order before `main` are no longer alive and that the
clients are freed only at the end. `TerminateThread` leaves `pc` and the locks alone, which is
why the argument covers killed threads.

`ChainsNeedRefreshHolds` and `LocksLostOnlyByKillHolds` are by `WaitInv`, the other half of what `IInv`
says of the locks: one has a holder only while that thread, live or killed, is where it works under
it (`LocksInUse`); the reader is on its way to rebuild only while a refresh is asked for
(`RebuildsAsked`); and a thread that is gone elsewhere than at the head of its loop was killed in its
turn of the stop order (`KilledInTurn`, for which `StopsOnce` says that main stops each thread once).
`DeadlockForEver` goes from there: `Deadlocked` is kept by every step, kills included.

`ScreenSwitchProofs` proves of `ScreenSwitch`, for any number of cranes, consoles, screens (up to
15), modes, TV walls and any DB contents:

- `TypeCorrect`: the tables of the reader stay in their ranges;
- `PollsKeepToTheirConsole`: `PollKeepsToItsConsole`, from the types and what a poll sends;
- `ShownIsCurrentHolds`, `SavedIsCurrentHolds`: pictures, shown and saved, are current, if the
  configuration is `Ranked` (mode 0 has no PLC bit; the modes of a screen have priorities of their
  own, above 0) and `AllPlanned` (each crane has a plan for each mode it can ask for on each
  display). `tied_modes` shows that the first is needed; without a plan nothing is sent
  for a mode and its old value is marked all the same. The constants of `screen_switch` meet both.

- `AloneOnAir`: a crane whose console and TV walls no other crane is ever driven from, and which is
  never in free mode, is on every screen of that console from the poll that finds it there until it
  leaves, in the mode its bits ask for.

The two about currency are not inductive: that a screen shows the mode its DB asks for does not say that the
next change of the DB will be seen. `IInv` adds what the old values say. With priorities off
(`PlainRow`, `PlainPic`): the old values are modes with PLC bits or the mark of the initial state,
or the single mode free mode left there, and the picture is the largest of them; so equal old
values mean an equal top mode. With priorities on (`RankedRow`, `RankedPic`): the answered priority
is the highest of the old values, and the picture is the one mode that has it; the initial mark
stands alone with priority 0. No old values at all (after a reset) never pass for unchanged:
`SwitchAnswers` says a switch then sends. `FirstDark` covers pictures that were saved but held
back by the first switch. The proof goes from one screen (`PlainSwitch`, `RankedSwitch`, `FreePic`) to
one picture (`PicStep`) to the poll (`HandleStep`). `MaxExists` of `Numbers`, from
well-founded induction on the naturals, gives the best mode and the last free-mode point.
`AloneOnAir` adds to `IInv` that the pictures on the console of the crane are its own (`AirInv`): a
take-over leaves no old values, so that it sends to every screen (`TakeOverSends`), and another
crane's poll changes screens of other TV walls only.

`DataLinksProofs` proves of `DataLinks`, for any servers, cameras, consoles, cranes, plans, buttons
and bounds:

- `DataLinksTypes`: the types, source by source: a desk is bound to a known number, old values name
  modes there are, the items still to be added are those of the list, a step of the stick is one a
  camera knows. `ItemList` is a sequence of item names and the places of the stick are within the range
  of its axes (`OpcAssumption`, `JoystickAssumption`), as the ini file and the device give them.
- `TurnsKeepToTheirDeskHolds`: in OPC and Modbus mode a screen changes only to a plan of the crane its
  desk drives from then on, or goes dark because a crane has just left a desk on the same TV wall. It
  needs the types alone; each of its three cases occurs in `data_links`.
- `StateOnPlcHolds`: by `LinkInv`, what is stored is always what was last heard (both change only
  while connected), and a register not in `vain` says what is stored. A client not of the mode is
  never connected, which is why a report leaves it alone.
- `ItemsUsableHolds`: by `OpcInv`, a current group is the program's own and one the server has, so that
  items go to no other; and where a new one is made there was none, so no item is left behind.
- `OpcShownHolds`, `TalkEndsHolds`: by `ItemsInv`. A picture that is due and not sent must have been
  sent before; that follows since old values, where there are any, are of the crane the console
  drives and of the mode last read (`DeskInv`), and a hand-over leaves none. A console that has not
  strayed is connected to the crane it drives only, and its button is down (`TalkInv`); it is
  `driven`, not the connection, that a button let go takes its crane from. In Modbus mode no OPC item
  is read, and no crane has number 0, so the pictures that mode sends are not claimed anything of.
- `StickRestsHolds`: by `JoyInv`, what moves and has not strayed is the selected camera, and only
  while `ptzStatus` says start. `OperatesKeeps` goes through two commands in a row, one of which may
  be lost.

`ModbusProofs` proves of `DataLinks`, for any cranes, desks, screens, plans, walls and bits, and any
priorities:

- `ModbusShownHolds`: a screen shows the mode its crane asks for, where its modes have priorities of
  their own and `ClearPriority` reaches it (`Clear`). `ModbusShown` says nothing of what the next turn
  will find, so `ModbusInv` adds it for each crane and screen (`RowInv`): once a mode was asked for,
  the priority answered is that mode's, and the old values have it on top, or a hand-over of another
  crane emptied them (`Fits`); a crane with a desk that was not yet asked has neither (`Fresh`). A
  screen that is not sent asks for what it asked for before (`UnsentIsOld`), and one found fresh is
  always sent (`FreshIsSent`); the three kinds of turn are `ReleaseKept`, `HalfReadKept` and
  `FullReadKept`. With the other sources no mode is ever asked for by a register.

`TvWallLinkProofs` proves of `TvWallLink`, for any number of walls, screens, switches, crashes,
losses and refreshes:

- `SeenWallsInStepHolds`, by `LinkInv`. What a wall shows while a switch or a resend is half done is
  no picture that is saved, so the invariant says how far each has got (`ScreenInv`): a screen the reader
  is about to send (`Pending`) has the half sent already, one the resend has not come to
  (`Resending`) is not claimed, all others are in step. This needs who holds the locks (`LocksInv`),
  that no state of a wall is known from a life it has not reached (`LivesInv`), and that what is sent
  is what was asked for last (`PlansInv`).
- `SeenWallsShowLatestHolds`: without a refresh what is saved is what was asked for last, except on the
  screens the reader is switching (`AskedInv`); with `SeenWallsInStep`, and no message lost, this gives
  the plan asked for last on every screen of a wall whose life is known, whenever `m_lockClient` is
  free: the whole way from switch to resend.
- `NeverAnOlderPlanHolds`: every step is one of `WallMemory` or leaves its variables alone. Where
  messages are concerned, by `PlansInv`, which says that the copy resent is of plans asked for last
  as long as the reader is kept out by the lock (`SentIsAsked`).

`SupervisionProofs` proves `OneInstanceHolds`, for any timeout, restart time, clock and number of
processes. `OneInv` adds when there can be a second process at all: none is there when the daemon
decides to start one; until the restart time, at most one; the restart thread that is about to start
one is that of the only process, and no process that ended has such a thread.

About the watchdog it proves `EarlyOnlyIfOvertaken` and `SilentOrOvertakenClosed`, by `ReadingsInv`: no
reading of the clock and no heartbeat lies ahead of the clock. So the difference modulo 2^Width is
the true one, or, if the heartbeat was written after the reading, far above the timeout (`SpanIs`,
from `Remainder`). The only bound this takes, `MaxTime + Timeout < 2^Width`, says that the clock does not
wrap: the code takes milliseconds in 64 bits. `OutageForEver` shows that what `KeptRunning`
excepts is real: a process that hangs in `OnDestroy` is a running one to the daemon, and nothing in the
system starts another.

`CranePollProofs` proves of `CranePoll`, for any cranes, cameras, consoles, tables, lists, entries and
DB contents:

- `CranePollTypes`: what is remembered of cameras, calls and free cuts is of configured ones;
- `HandFollowedHolds`: by `HandInv`, the buttons remembered of a camera worked one at a time are
  those held, so that what changed is one button and its axis (`Moves`);
- `HoistFollowedHolds`, `ManualKeepsZoomHolds`: by `HoistInv`, a selected camera has no zoom
  remembered, and what is remembered of the others is where they are, unless a message was missed; so
  an unchanged zoom need not be sent. `PointGiven` tells positions from "none sent yet".
- `CalledOrGivenUpHolds`, `CallsSettleHolds`: by `PointsInv`, as long as a point is to be called,
  every poll that asked for it in a row has failed and is counted, so that the seventh is the last;
- `FreeCutsCurrentHolds`, `CutsRestoredHolds`: by `CutsInv`. An entry that names a known camera and a
  console with a wall, and is not `late`, was sent as it stands (`EntryInv`), which is why one that
  did not change need not be; and the last picture of a window, if it is a free cut of the crane
  whose entry has that wall, is that of its entry (`ResendInv`).

Only model-checked: the liveness properties (`RestartedWallsRestored`, `ReaderKeepsReading`,
`ShutdownEnds`, `SilenceEnds`, `KeptRunning`, `LinkComesBack`, `OpcComesBack`), as fairness speaks of
ENABLED, which is out of the prover's reach. The two currency theorems of `ScreenSwitchProofs` claim nothing of a
crane that switches with the height, nor, with priorities on, of one with free-mode points: for these
the code keeps no such promise.

## Plan

Done: switching, the TV wall link, threads, supervision; then cameras, preset points and free cuts,
the connections, Modbus and OPC mode, the joystick. Left, in this order:

1. Several Modbus servers that disagree (the manager's priorities shared by clients with old values of
   their own); zoom and PTZ from OPC items and Modbus registers.
2. The stop order of the threads of OPC and Modbus mode.
3. Theorems: what a restart of the program itself leaves on the walls; the two halves of OPC mode and
   the Modbus turn against abstract specifications of their own, as `WallMemory` is for the walls.

## Not modelled

Of the parts modelled:

- the text bar, the data viewer and other display; the heartbeat the program writes to a PLC; the
  built-in Modbus server (which only serves what it is given);
- PTZ and zoom from Modbus registers and OPC items, which repeat those of PLC mode with other sources;
- a second Modbus client with values that differ from the first one's (`ModbusItems` has one);
- stopping the threads of Modbus and OPC mode; `ClientThreads` has those of PLC mode;
- the host's `HeartBeet` as a second caller of `DealKeepAlive`: a data race on tables being rebuilt,
  with no outcome to state a property of.

Whole parts:

- the alarm reader of JjhAlarmDll: dead code at this commit (`JjhAlarmDll.cpp` 14 to 16 are commented
  out), so that its two threads never run;
- the HTTP client: one request and its answer, with no state between two; what becomes of a request
  is a choice in the modules that make them;
- ConfigSet (an editor of ini files), PlcServer (a test tool), As300SDK glue: user interface and
  wrappers without state of interest;
- old copies (`PlcConnect.2017.1.06`, `OPC调试版`, `JjhAlarmDll.2017.9.20`), not built;
- vendored code (libmodbus, curl, MySQL, json, BugTrap, AX_API, the OPC toolkit's headers), logging,
  and the parsing of ini files, whose contents are the CONSTANTS.

The program's own logic is a small part of the tree, most of which is headers of libraries, earlier
copies and user interface. Of `PlcConnect/PlcConnect/Client.cpp`, which holds that logic, about half
is mapped; the rest is parsing, messages put together character by character, logging and what is
listed above.
