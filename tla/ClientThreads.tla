---------------------------- MODULE ClientThreads ----------------------------
(***************************************************************************)
(* The threads of the SDK in PLC mode, the two locks they share, and the   *)
(* order in which the host stops and frees everything.                     *)
(*                                                                         *)
(* m_lockClient guards the clients and everything they keep about a crane; *)
(* groupDataLock guards the tables read from the group files.  Every stop  *)
(* clears a flag, waits a second for the thread to end and then kills it   *)
(* with TerminateThread: a killed thread keeps the locks it holds.         *)
(***************************************************************************)
EXTENDS Naturals, Sequences

CONSTANTS
    Reader,    \* RunGetPlcData
    ReConnect, \* RunReConnect
    Keeper,    \* RunKeepAlive
    Info,      \* the host's CPlcTextDlg::Run: HeartBeet and SetIpcState
    NoOne

Threads == {Reader, ReConnect, Keeper, Info}

ASSUME ThreadAssumption ==
    /\ Reader # ReConnect /\ Reader # Keeper /\ Reader # Info
    /\ ReConnect # Keeper /\ ReConnect # Info /\ Keeper # Info
    /\ NoOne \notin Threads

\* The order of OnDestroy and then of ~CClientManager.
StopOrder == <<Info, ReConnect, Reader, Keeper>>

VARIABLES
    lockClient,    \* who holds m_lockClient
    groupDataLock, \* who holds groupDataLock
    pc,            \* where each thread is; a killed one stays there
    alive,         \* threads that neither ended nor were killed
    run,           \* thread -> the flag its loop tests
    groupDataRefresh,
    main,          \* "running", then which thread the main thread is stopping, then "done"
    asking,        \* has the flag of that thread been cleared
    clients,       \* do the clients and the manager exist
    heapOrphaned   \* was a thread killed inside the allocator, with its lock (external)

host == <<alive, run, main, asking, clients, heapOrphaned>>
vars == <<lockClient, groupDataLock, pc, groupDataRefresh, host>>

Places == {"loop",      \* at the head of the loop, no lock held
           "want",      \* in m_lockClient.acquire()
           "work",      \* m_lockClient held
           "rebuild",   \* the reader in groupDataLock.acquire() of InitGroupData
           "build",     \* the reader in InitGroupData, both locks held
           "table",     \* the keeper in groupDataLock.acquire()
           "beat",      \* in DealKeepAlive, between two walls or in a heartbeat request
           "wantBeat",  \* in DealKeepAlive, in m_lockClient.acquire()
           "workBeat"}  \* in DealKeepAlive, m_lockClient held
PlacesOf(t) ==
    IF t = Reader THEN {"loop", "want", "work", "rebuild", "build"}
    ELSE IF t = ReConnect THEN {"loop", "want", "work"}
    ELSE IF t = Keeper THEN {"loop", "table", "beat", "wantBeat", "workBeat"}
    ELSE {"loop", "want", "work", "beat", "wantBeat", "workBeat"}

TypeOK ==
    /\ lockClient \in Threads \cup {NoOne}
    /\ groupDataLock \in Threads \cup {NoOne}
    /\ pc \in [Threads -> Places]
    /\ \A t \in Threads : pc[t] \in PlacesOf(t)
    /\ alive \in SUBSET Threads
    /\ run \in [Threads -> BOOLEAN]
    /\ groupDataRefresh \in BOOLEAN
    /\ main \in 0..5
    /\ asking \in BOOLEAN
    /\ clients \in BOOLEAN
    /\ heapOrphaned \in BOOLEAN

\* main = 0 while the program runs, 1..4 while it stops StopOrder[main], 5 at the end.
Init ==
    /\ lockClient = NoOne /\ groupDataLock = NoOne
    /\ pc = [t \in Threads |-> "loop"]
    /\ alive = Threads
    /\ run = [t \in Threads |-> TRUE]
    /\ groupDataRefresh = FALSE
    /\ main = 0 /\ asking = FALSE
    /\ clients = TRUE /\ heapOrphaned = FALSE

-----------------------------------------------------------------------------
(* Steps of a thread. *)

Goes(t, from, to) == t \in alive /\ pc[t] = from /\ pc' = [pc EXCEPT ![t] = to]

\* GetPlcDataInfo, RunReConnect, SetIpcState: acquire, work, release.
WantsEither(t) == \* mutant: the keeper takes m_lockClient first
    /\ run[t]
    /\ Goes(t, "loop", "want")
    /\ UNCHANGED <<lockClient, groupDataLock, groupDataRefresh, host>>
Wants(t) ==
    /\ t \in {Reader, ReConnect, Info} /\ run[t]
    /\ Goes(t, "loop", "want")
    /\ UNCHANGED <<lockClient, groupDataLock, groupDataRefresh, host>>

Locks(t) ==
    /\ lockClient = NoOne /\ lockClient' = t
    /\ Goes(t, "want", "work")
    /\ UNCHANGED <<groupDataLock, groupDataRefresh, host>>

\* The reader releases only when no refresh is asked for.
Unlocks(t) ==
    /\ lockClient' = NoOne
    /\ t = Reader => ~groupDataRefresh
    /\ Goes(t, "work", "loop")
    /\ UNCHANGED <<groupDataLock, groupDataRefresh, host>>

\* ReadPLCDataProcess calls InitGroupData: groupDataLock inside m_lockClient.
Refreshes ==
    /\ groupDataRefresh
    /\ Goes(Reader, "work", "rebuild")
    /\ UNCHANGED <<lockClient, groupDataLock, groupDataRefresh, host>>

LocksTables ==
    /\ groupDataLock = NoOne /\ groupDataLock' = Reader
    /\ Goes(Reader, "rebuild", "build")
    /\ UNCHANGED <<lockClient, groupDataRefresh, host>>

TablesBuilt ==
    /\ groupDataLock' = NoOne /\ groupDataRefresh' = FALSE
    /\ Goes(Reader, "build", "work")
    /\ UNCHANGED <<lockClient, host>>

\* RunKeepAlive: m_lockClient inside groupDataLock.
KeeperWakes ==
    /\ run[Keeper]
    /\ Goes(Keeper, "loop", "table")
    /\ UNCHANGED <<lockClient, groupDataLock, groupDataRefresh, host>>

KeeperLocksNoTables == \* mutant: DealKeepAlive without groupDataLock
    /\ Goes(Keeper, "table", "beat")
    /\ UNCHANGED <<lockClient, groupDataLock, groupDataRefresh, host>>
KeeperLocksTables ==
    /\ groupDataLock = NoOne /\ groupDataLock' = Keeper
    /\ Goes(Keeper, "table", "beat")
    /\ UNCHANGED <<lockClient, groupDataRefresh, host>>

\* The exported HeartBeet runs DealKeepAlive without groupDataLock.
InfoBeats ==
    /\ run[Info]
    /\ Goes(Info, "loop", "beat")
    /\ UNCHANGED <<lockClient, groupDataLock, groupDataRefresh, host>>

\* DealKeepAlive, per TV wall: heartbeat request, lock, look at it, release.
BeatAnswered(t) ==
    /\ Goes(t, "beat", "wantBeat")
    /\ UNCHANGED <<lockClient, groupDataLock, groupDataRefresh, host>>

BeatLocks(t) ==
    /\ lockClient = NoOne /\ lockClient' = t
    /\ Goes(t, "wantBeat", "workBeat")
    /\ UNCHANGED <<groupDataLock, groupDataRefresh, host>>

BeatKeepsLock(t) == \* mutant: an early return without release()
    /\ Goes(t, "workBeat", "beat")
    /\ UNCHANGED <<lockClient, groupDataLock, groupDataRefresh, host>>
BeatUnlocks(t) ==
    /\ lockClient' = NoOne
    /\ Goes(t, "workBeat", "beat")
    /\ UNCHANGED <<groupDataLock, groupDataRefresh, host>>

BeatEnds(t) ==
    /\ Goes(t, "beat", "loop")
    /\ groupDataLock' = IF t = Keeper THEN NoOne ELSE groupDataLock
    /\ UNCHANGED <<lockClient, groupDataRefresh, host>>

\* The loop finds its flag cleared.
Ends(t) ==
    /\ t \in alive /\ ~run[t] /\ pc[t] = "loop"
    /\ alive' = alive \ {t}
    /\ UNCHANGED <<lockClient, groupDataLock, pc, run, groupDataRefresh, main, asking, clients,
                   heapOrphaned>>

-----------------------------------------------------------------------------
(* The main thread. *)

groupConfigureRefreshCall ==
    /\ main = 0
    /\ groupDataRefresh' = TRUE
    /\ UNCHANGED <<lockClient, groupDataLock, pc, host>>

OnDestroy ==
    /\ main = 0 /\ main' = 1
    /\ UNCHANGED <<lockClient, groupDataLock, pc, alive, run, groupDataRefresh, asking, clients,
                   heapOrphaned>>

\* StopGetPlcData clears m_bReConnect, the flag of the other thread.
FlagOf(t) == IF t = Reader THEN ReConnect ELSE t

\* Between the host's stop and those of the manager OnDestroy allocates.
ClearsFlag ==
    /\ main \in 1..4 /\ ~asking
    /\ main = 2 => ~heapOrphaned
    /\ asking' = TRUE
    /\ run' = [run EXCEPT ![FlagOf(StopOrder[main])] = FALSE]
    /\ UNCHANGED <<lockClient, groupDataLock, pc, alive, groupDataRefresh, main, clients,
                   heapOrphaned>>

\* A thread at work may be inside the allocator when it is killed.
Allocating == {"work", "build", "beat", "workBeat"}
Orphans(t) == IF t \in alive /\ pc[t] \in Allocating THEN {heapOrphaned, TRUE} ELSE {heapOrphaned}

\* WaitForSingleObject returns because the thread ended, or after a second,
\* and then the thread is killed wherever it is.
StoppedOrLeft == \* mutant: no TerminateThread after the wait
    /\ main \in 1..4 /\ asking
    /\ asking' = FALSE /\ main' = main + 1
    /\ UNCHANGED <<lockClient, groupDataLock, pc, alive, run, groupDataRefresh, clients,
                   heapOrphaned>>
StoppedByItself == \* mutant: waits INFINITE instead of a second
    /\ main \in 1..4 /\ asking /\ StopOrder[main] \notin alive
    /\ asking' = FALSE /\ main' = main + 1
    /\ UNCHANGED <<lockClient, groupDataLock, pc, alive, run, groupDataRefresh, clients,
                   heapOrphaned>>
Stopped ==
    /\ main \in 1..4 /\ asking
    /\ asking' = FALSE /\ main' = main + 1
    /\ alive' = alive \ {StopOrder[main]}
    /\ heapOrphaned' \in Orphans(StopOrder[main])
    /\ UNCHANGED <<lockClient, groupDataLock, pc, run, groupDataRefresh, clients>>

\* The end of ~CClientManager: releases the clients, without m_lockClient.
Frees ==
    /\ main = 5 /\ clients /\ ~heapOrphaned
    /\ clients' = FALSE
    /\ UNCHANGED <<lockClient, groupDataLock, pc, alive, run, groupDataRefresh, main, asking,
                   heapOrphaned>>

ThreadStep(t) ==
    \/ Wants(t) \/ Locks(t) \/ Unlocks(t) \/ Ends(t)
    \/ t \in {Keeper, Info} /\ (BeatAnswered(t) \/ BeatLocks(t) \/ BeatUnlocks(t) \/ BeatEnds(t))
    \/ t = Reader /\ (Refreshes \/ LocksTables \/ TablesBuilt)
    \/ t = Keeper /\ (KeeperWakes \/ KeeperLocksTables)
    \/ t = Info /\ InfoBeats
MainStops == ClearsFlag \/ Stopped \/ Frees

Next ==
    \/ \E t \in Threads : ThreadStep(t)
    \/ groupConfigureRefreshCall \/ OnDestroy \/ MainStops

Spec == Init /\ [][Next]_vars

(* Every thread that can run does; the reader, waiting in acquire(), gets a  *)
(* lock that is released again and again; the main thread goes through with  *)
(* a stop once begun, its waits being bounded.                               *)
FairSpec ==
    /\ Spec
    /\ \A t \in Threads : WF_vars(ThreadStep(t))
    /\ SF_vars(Locks(Reader))
    /\ WF_vars(MainStops)

-----------------------------------------------------------------------------
(* Where a thread holds m_lockClient, and where it reads or rebuilds the     *)
(* tables behind groupDataLock.                                              *)
Critical  == {"work", "rebuild", "build", "workBeat"}
InTables(t) == t = Keeper /\ pc[t] \in {"beat", "wantBeat", "workBeat"}

(* Never two threads in the sections m_lockClient guards, dead ones included *)
(* - a thread killed there shuts the others out instead of being joined.     *)
MutualExclusion ==
    \A t, u \in Threads : pc[t] \in Critical /\ pc[u] \in Critical => t = u

(* InitGroupData never rebuilds the TV wall tables under the keep-alive      *)
(* thread's loop over them, though that loop lets go of m_lockClient between *)
(* two walls.                                                                *)
KeeperTablesStable == ~(pc[Reader] = "build" /\ InTables(Keeper))

(* No thread of the library or of the host outlives the clients: whatever    *)
(* was killed or ended on its own, none is left to touch freed memory.       *)
NoThreadOutlivesClients == ~clients => alive = {}

(* Shutting down comes to an end, though killed threads may keep both locks *)
(* for ever and a refresh may have deadlocked two of them: nothing the main  *)
(* thread does needs those.  The one thing that can stop it is the allocator *)
(* lock of a thread that was killed while allocating.                        *)
ShutdownEnds == (main # 0) ~> (~clients \/ heapOrphaned)

(* As long as nobody asks for a refresh or shuts down, the reader gets its   *)
(* turn again and again, whatever the three others do with m_lockClient.     *)
ReaderKeepsReading ==
    [](main = 0 /\ ~groupDataRefresh) => []<>(pc[Reader] = "work")
=============================================================================
