----------------------------- MODULE TvWallLink -----------------------------
(***************************************************************************)
(* Keeping the TV walls in step: the PLC reader, which switches screens and*)
(* saves each plan, the keep-alive thread, which asks every TV wall for a  *)
(* heartbeat and sends a restarted one its saved plans again, and the TV   *)
(* walls, which crash, boot and may not get a message.                     *)
(*                                                                         *)
(* A message is one synchronous HTTP request made from the thread itself   *)
(* (SendInfo2TVWALLServer calls the host back); whether it arrived is      *)
(* never looked at.  Steps are the stretches between two such requests.    *)
(*                                                                         *)
(* Plans are numbered in the order they are asked for, so that an old plan *)
(* sent late can be told from the new one; a switch here is one that is    *)
(* sent (ScreenSwitch models those that are only saved).                   *)
(***************************************************************************)
EXTENDS Integers, FiniteSets

CONSTANTS
    NumWalls,     \* TV walls 1..NumWalls (ip, port), visited in that order
    NumScreens,   \* screens 1..NumScreens of each
    MaxAsks,      \* bound: switches made
    MaxCrashes,   \* bound: crashes of each TV wall
    MaxLosses,    \* bound: messages of the keep-alive thread that get lost
    MaxRefreshes  \* bound: refreshes of the group configuration asked for

ASSUME LinkAssumption ==
    /\ NumWalls \in Nat \ {0} /\ NumScreens \in Nat \ {0}
    /\ MaxAsks \in Nat /\ MaxCrashes \in Nat /\ MaxLosses \in Nat /\ MaxRefreshes \in Nat

Walls   == 1..NumWalls
Screens == 1..NumScreens
NoPlan  == 0
Plans   == 0..MaxAsks
Reader  == "reader"      \* RunGetPlcData
Keeper  == "keeper"      \* RunKeepAlive
NoOne   == "none"
Nowhere == [wall |-> 1, screen |-> 1, plan |-> NoPlan]

VARIABLES
    lockClient,    \* who holds m_lockClient
    groupDataLock, \* who holds groupDataLock
    rpc,           \* where the reader is
    job,           \* the switch the reader is making
    kpc,           \* where the keep-alive thread is
    kwall,         \* the wall its loop is at
    kscreen,       \* the screen SendOldScreeninfo's loop is at
    reply,         \* the state the wall's heartbeat reply carried, 0 without one
    copy,          \* SendOldScreeninfo's copy (by value) of the wall's saved plans
    saved,         \* ScreenId2CutMap of each wall
    tvState,       \* iTvState of each wall, 0 when not known
    groupDataRefresh,
    life,          \* wall -> which life it is in: the state it answers heartbeats with
    up,            \* wall -> does it run
    display,       \* wall -> screen -> [cut, map]: what it shows
    asks, asked,   \* history: switches made; wall -> screen -> the plan asked for last
    losses, refreshes

reader == <<rpc, job>>
keeper == <<kpc, kwall, kscreen, reply, copy>>
tables == <<saved, tvState>>
wall   == <<life, up, display>>
count  == <<asks, asked, losses, refreshes>>
locks  == <<lockClient, groupDataLock>>
vars   == <<locks, reader, keeper, tables, groupDataRefresh, wall, count>>

Dark    == [s \in Screens |-> [cut |-> NoPlan, map |-> NoPlan]]
NoPlans == [s \in Screens |-> NoPlan]

TypeOK ==
    /\ lockClient \in {Reader, Keeper, NoOne}
    /\ groupDataLock \in {Reader, Keeper, NoOne}
    /\ rpc \in {"sleep", "reading", "cut", "map", "save", "init", "load"}
    /\ job \in [wall : Walls, screen : Screens, plan : Plans]
    /\ kpc \in {"sleep", "ask", "lock", "check", "cut", "map", "next"}
    /\ kwall \in Walls /\ kscreen \in Screens
    /\ reply \in 0..MaxCrashes + 1
    /\ copy \in [Screens -> Plans]
    /\ saved \in [Walls -> [Screens -> Plans]]
    /\ tvState \in [Walls -> 0..MaxCrashes + 1]
    /\ groupDataRefresh \in BOOLEAN
    /\ life \in [Walls -> 1..MaxCrashes + 1]
    /\ up \in [Walls -> BOOLEAN]
    /\ display \in [Walls -> [Screens -> [cut : Plans, map : Plans]]]
    /\ asks \in Plans /\ asked \in [Walls -> [Screens -> Plans]]
    /\ losses \in 0..MaxLosses /\ refreshes \in 0..MaxRefreshes

Init ==
    /\ lockClient = NoOne /\ groupDataLock = NoOne
    /\ rpc = "sleep" /\ job = Nowhere
    /\ kpc = "sleep" /\ kwall = 1 /\ kscreen = 1 /\ reply = 0 /\ copy = NoPlans
    /\ saved = [w \in Walls |-> NoPlans]
    /\ tvState = [w \in Walls |-> 0]
    /\ groupDataRefresh = FALSE
    /\ life = [w \in Walls |-> 1]
    /\ up = [w \in Walls |-> TRUE]
    /\ display = [w \in Walls |-> Dark]
    /\ asks = 0 /\ asked = [w \in Walls |-> NoPlans]
    /\ losses = 0 /\ refreshes = 0

-----------------------------------------------------------------------------
(* A message about one half of a screen: a wall that is down does not get it. *)

Delivered(w, s, half, p) ==
    display' = IF up[w] THEN [display EXCEPT ![w][s][half] = p] ELSE display

\* From the reader, and from the keep-alive thread, whose message may be lost.
ReaderSends(w, s, half, p) == Delivered(w, s, half, p) /\ UNCHANGED losses
KeeperSends(w, s, half, p) ==
    \/ Delivered(w, s, half, p) /\ UNCHANGED losses
    \/ losses < MaxLosses /\ losses' = losses + 1 /\ UNCHANGED display

-----------------------------------------------------------------------------
(* The PLC reader: GetPlcDataInfo holds m_lockClient over the whole pass.   *)

ReaderLocks ==
    /\ rpc = "sleep" /\ lockClient = NoOne
    /\ rpc' = "reading" /\ lockClient' = Reader
    /\ UNCHANGED <<groupDataLock, job, keeper, tables, groupDataRefresh, wall, count>>

\* The DB asks for another plan on a screen: ScreenSwitch2TVWALL begins.
ReaderSwitches(w, s) ==
    /\ rpc = "reading" /\ asks < MaxAsks
    /\ rpc' = "cut" /\ asks' = asks + 1
    /\ job' = [wall |-> w, screen |-> s, plan |-> asks + 1]
    /\ asked' = [asked EXCEPT ![w][s] = asks + 1]
    /\ UNCHANGED <<locks, keeper, tables, groupDataRefresh, wall, losses, refreshes>>

ReaderSendsCut ==
    /\ rpc = "cut" /\ rpc' = "map"
    /\ ReaderSends(job.wall, job.screen, "cut", job.plan)
    /\ UNCHANGED <<locks, job, keeper, tables, groupDataRefresh, life, up, asks, asked, refreshes>>

ReaderSendsMap ==
    /\ rpc = "map" /\ rpc' = "save"
    /\ ReaderSends(job.wall, job.screen, "map", job.plan)
    /\ UNCHANGED <<locks, job, keeper, tables, groupDataRefresh, life, up, asks, asked, refreshes>>

ReaderSaves ==
    /\ rpc = "save" /\ rpc' = "reading"
    /\ saved' = [saved EXCEPT ![job.wall][job.screen] = job.plan]
    /\ job' = Nowhere
    /\ UNCHANGED <<locks, keeper, tvState, groupDataRefresh, wall, count>>

ReaderUnlocks ==
    /\ rpc = "reading" /\ ~groupDataRefresh
    /\ rpc' = "sleep" /\ lockClient' = NoOne
    /\ UNCHANGED <<groupDataLock, job, keeper, tables, groupDataRefresh, wall, count>>

\* A refresh was asked for: InitGroupData locks groupDataLock, with
\* m_lockClient held, and builds every table anew.
ReaderRefreshes ==
    /\ rpc = "reading" /\ groupDataRefresh
    /\ rpc' = "init"
    /\ UNCHANGED <<locks, job, keeper, tables, groupDataRefresh, wall, count>>

ReaderInits ==
    /\ rpc = "init" /\ groupDataLock = NoOne
    /\ rpc' = "load" /\ groupDataLock' = Reader
    /\ saved' = [w \in Walls |-> NoPlans]
    /\ tvState' = [w \in Walls |-> 0]
    /\ UNCHANGED <<lockClient, job, keeper, groupDataRefresh, wall, count>>

\* The files are read; the flag is reset and the pass ends.
ReaderLoaded ==
    /\ rpc = "load" /\ rpc' = "sleep"
    /\ groupDataLock' = NoOne /\ lockClient' = NoOne
    /\ groupDataRefresh' = FALSE
    /\ UNCHANGED <<job, keeper, tables, wall, count>>

-----------------------------------------------------------------------------
(* The keep-alive thread: RunKeepAlive holds groupDataLock over DealKeepAlive. *)

KeeperWakes ==
    /\ kpc = "sleep" /\ groupDataLock = NoOne
    /\ kpc' = "ask" /\ groupDataLock' = Keeper /\ kwall' = 1
    /\ UNCHANGED <<lockClient, reader, kscreen, reply, copy, tables, groupDataRefresh, wall, count>>

\* The heartbeat, without m_lockClient; its answer tells the wall's life.
KeeperAsks ==
    /\ kpc = "ask" /\ kpc' = "lock"
    /\ \/ reply' = (IF up[kwall] THEN life[kwall] ELSE 0) /\ UNCHANGED losses
       \/ losses < MaxLosses /\ losses' = losses + 1 /\ reply' = 0
    /\ UNCHANGED <<locks, reader, kwall, kscreen, copy, tables, groupDataRefresh, wall,
                   asks, asked, refreshes>>

KeeperLocksNothing == \* mutant: m_lockClient is not waited for
    /\ kpc = "lock" /\ kpc' = "check" /\ lockClient' = Keeper
    /\ UNCHANGED <<groupDataLock, reader, kwall, kscreen, reply, copy, tables,
                   groupDataRefresh, wall, count>>
KeeperLocks ==
    /\ kpc = "lock" /\ lockClient = NoOne
    /\ kpc' = "check" /\ lockClient' = Keeper
    /\ UNCHANGED <<groupDataLock, reader, kwall, kscreen, reply, copy, tables,
                   groupDataRefresh, wall, count>>

\* A first answer, or another state than the last one: the saved plans are
\* sent again, from a copy taken now.
RestartedOnce == reply # 0 /\ tvState[kwall] = 0 \* mutant: the new state is not compared
Restarted == reply # 0 /\ reply # tvState[kwall]
HasPlanAfter(plans, from) == {s \in Screens : s > from /\ plans[s] # NoPlan} \* mutant
HasPlan(plans, from) == {s \in Screens : s >= from /\ plans[s] # NoPlan}
Lowest(screens) == CHOOSE s \in screens : \A x \in screens : s <= x

KeeperChecks ==
    /\ kpc = "check"
    /\ IF Restarted
       THEN /\ copy' = saved[kwall]
            /\ tvState' = [tvState EXCEPT ![kwall] = reply]
            /\ IF HasPlan(saved[kwall], 1) = {}
               THEN kpc' = "next" /\ UNCHANGED kscreen
               ELSE kpc' = "cut" /\ kscreen' = Lowest(HasPlan(saved[kwall], 1))
       ELSE kpc' = "next" /\ UNCHANGED <<copy, tvState, kscreen>>
    /\ UNCHANGED <<locks, reader, kwall, reply, saved, groupDataRefresh, wall, count>>

KeeperSendsCut ==
    /\ kpc = "cut" /\ kpc' = "map"
    /\ KeeperSends(kwall, kscreen, "cut", copy[kscreen])
    /\ UNCHANGED <<locks, reader, kwall, kscreen, reply, copy, tables, groupDataRefresh,
                   life, up, asks, asked, refreshes>>

KeeperSendsMap ==
    /\ kpc = "map"
    /\ KeeperSends(kwall, kscreen, "map", copy[kscreen])
    /\ IF HasPlan(copy, kscreen + 1) = {}
       THEN kpc' = "next" /\ UNCHANGED kscreen
       ELSE kpc' = "cut" /\ kscreen' = Lowest(HasPlan(copy, kscreen + 1))
    /\ UNCHANGED <<locks, reader, kwall, reply, copy, tables, groupDataRefresh,
                   life, up, asks, asked, refreshes>>

\* m_lockClient is released for each wall, groupDataLock after the last one.
LastWallPassed == kwall > NumWalls \* mutant: one wall too many
LastWall == kwall = NumWalls
KeeperUnlocks ==
    /\ kpc = "next" /\ lockClient' = NoOne
    /\ reply' = 0 /\ copy' = NoPlans /\ kscreen' = 1
    /\ IF LastWall
       THEN kpc' = "sleep" /\ groupDataLock' = NoOne /\ UNCHANGED kwall
       ELSE kpc' = "ask" /\ kwall' = kwall + 1 /\ UNCHANGED groupDataLock
    /\ UNCHANGED <<reader, tables, groupDataRefresh, wall, count>>

-----------------------------------------------------------------------------
(* The TV walls and the operator. *)

Crashes(w) ==
    /\ up[w] /\ life[w] <= MaxCrashes
    /\ up' = [up EXCEPT ![w] = FALSE]
    /\ display' = [display EXCEPT ![w] = Dark]
    /\ UNCHANGED <<locks, reader, keeper, tables, groupDataRefresh, life, count>>

Boots(w) ==
    /\ ~up[w]
    /\ up' = [up EXCEPT ![w] = TRUE]
    /\ life' = [life EXCEPT ![w] = life[w] + 1]
    /\ UNCHANGED <<locks, reader, keeper, tables, groupDataRefresh, display, count>>

\* The flag is set from the host's thread with no lock.
groupConfigureRefreshCall ==
    /\ refreshes < MaxRefreshes
    /\ groupDataRefresh' = TRUE /\ refreshes' = refreshes + 1
    /\ UNCHANGED <<locks, reader, keeper, tables, wall, asks, asked, losses>>

ReaderWorks ==
    \/ \E w \in Walls, s \in Screens : ReaderSwitches(w, s)
    \/ ReaderSendsCut \/ ReaderSendsMap \/ ReaderSaves
    \/ ReaderUnlocks \/ ReaderRefreshes \/ ReaderLoaded
KeeperWorks ==
    KeeperAsks \/ KeeperChecks \/ KeeperSendsCut \/ KeeperSendsMap \/ KeeperUnlocks

Next ==
    \/ ReaderLocks \/ ReaderWorks \/ ReaderInits
    \/ KeeperWakes \/ KeeperLocks \/ KeeperWorks
    \/ \E w \in Walls : Crashes(w) \/ Boots(w)
    \/ groupConfigureRefreshCall

Spec == Init /\ [][Next]_vars

(* A thread that can run does (weak fairness); one that waits for a lock     *)
(* which is released again and again gets it at last (strong fairness: both  *)
(* threads sleep without it between two rounds); a crashed wall is started   *)
(* again; a message or heartbeat is not lost for ever (MaxLosses).           *)
FairSpec ==
    /\ Spec
    /\ WF_vars(ReaderWorks) /\ WF_vars(KeeperWorks)
    /\ SF_vars(ReaderLocks) /\ SF_vars(ReaderInits)
    /\ SF_vars(KeeperWakes) /\ SF_vars(KeeperLocks)
    /\ \A w \in Walls : WF_vars(Boots(w))

-----------------------------------------------------------------------------
(* With m_lockClient free and no message of the keep-alive thread lost, a    *)
(* wall whose life is the one last seen shows exactly what is saved for it:  *)
(* every switch and resend is complete, whichever way crashes fell between   *)
(* their messages, and a crash that came too late is one still to be seen.   *)
SeenWallsInStep ==
    \A w \in Walls :
        (lockClient = NoOne /\ losses = 0 /\ up[w] /\ tvState[w] = life[w])
            => \A s \in Screens :
                 saved[w][s] # NoPlan
                   => display[w][s] = [cut |-> saved[w][s], map |-> saved[w][s]]

(* The program implements WallMemory: no resend, from a copy of the saved    *)
(* plans, ever puts an older plan on a screen than the one asked for last.   *)
Memory == INSTANCE WallMemory WITH shows <- display
NeverAnOlderPlan == Memory!Spec

(* Unless a message of the keep-alive thread is lost or a refresh is asked   *)
(* for, every screen comes to show the plan saved for it, and keeps it, once *)
(* switches and crashes are over.                                            *)
InStep == \A w \in Walls, s \in Screens :
    saved[w][s] # NoPlan => display[w][s] = [cut |-> saved[w][s], map |-> saved[w][s]]
RestartedWallsRestored == [](losses = 0 /\ refreshes = 0) => <>[]InStep

(* "when a tv_wall has restarted, send it the latest switch and video        *)
(* information" (DealKeepAlive): the same whatever is lost.                  *)
LatestInformationSent == <>[]InStep

(* The group configuration is "refreshed online" (Client.h): a refresh asked *)
(* for is carried out.                                                       *)
RefreshCarriedOut == groupDataRefresh ~> ~groupDataRefresh
=============================================================================
