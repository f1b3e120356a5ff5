------------------------ MODULE ClientThreadsProofs ------------------------
(***************************************************************************)
(* Proofs about ClientThreads: the invariants hold in every behaviour, with*)
(* any interleaving of the threads and a stop or a kill at any point.      *)
(***************************************************************************)
EXTENDS ClientThreads, TLAPS

(* A thread in a section m_lockClient guards is the holder of the lock: also *)
(* a dead one, for a killed thread keeps its place and its locks.            *)
LockHeld == \A t \in Threads : pc[t] \in Critical => lockClient = t

(* The same of groupDataLock and its two sections.                           *)
TablesHeld ==
    /\ InTables(Keeper) => groupDataLock = Keeper
    /\ pc[Reader] = "build" => groupDataLock = Reader

(* Threads are stopped in order, the clients freed after the last of them.   *)
StoppedInOrder ==
    /\ \A i \in 1..4 : i < main => StopOrder[i] \notin alive
    /\ ~clients => main = 5

IInv == TypeOK /\ LockHeld /\ TablesHeld /\ StoppedInOrder

LEMMA StopsAll == Threads = {StopOrder[i] : i \in 1..4}
  <1>1. /\ StopOrder[1] = Info /\ StopOrder[2] = ReConnect
        /\ StopOrder[3] = Reader /\ StopOrder[4] = Keeper
    BY DEF StopOrder
  <1>2. 1..4 = {1, 2, 3, 4}
    OBVIOUS
  <1> QED
    BY <1>1, <1>2 DEF Threads

LEMMA StopsOnce == \A i, j \in 1..4 : StopOrder[i] = StopOrder[j] => i = j
  <1>1. /\ StopOrder[1] = Info /\ StopOrder[2] = ReConnect
        /\ StopOrder[3] = Reader /\ StopOrder[4] = Keeper
    BY DEF StopOrder
  <1>2. 1..4 = {1, 2, 3, 4}
    OBVIOUS
  <1> QED
    BY <1>1, <1>2, ThreadAssumption

LEMMA InitInv == Init => IInv
  <1> SUFFICES ASSUME Init PROVE IInv
    OBVIOUS
  <1>1. \A t \in Threads : pc[t] \in PlacesOf(t)
    <2> SUFFICES ASSUME NEW t \in Threads PROVE pc[t] \in PlacesOf(t)
      OBVIOUS
    <2>1. pc[t] = "loop"
      BY DEF Init
    <2> QED
      BY <2>1 DEF PlacesOf
  <1>2. pc \in [Threads -> Places] /\ run \in [Threads -> BOOLEAN]
    BY DEF Init, Places
  <1>3. /\ lockClient \in Threads \cup {NoOne} /\ groupDataLock \in Threads \cup {NoOne}
        /\ alive \in SUBSET Threads
        /\ groupDataRefresh \in BOOLEAN /\ asking \in BOOLEAN /\ clients \in BOOLEAN
        /\ heapOrphaned \in BOOLEAN
    BY DEF Init
  <1>4. main \in 0..5
    BY DEF Init
  <1>5. TypeOK
    BY <1>1, <1>2, <1>3, <1>4, Zenon DEF TypeOK
  <1>6. LockHeld /\ TablesHeld
    BY ThreadAssumption DEF Init, LockHeld, TablesHeld, InTables, Critical, Threads
  <1>7. StoppedInOrder
    BY DEF Init, StoppedInOrder
  <1> QED
    BY <1>5, <1>6, <1>7 DEF IInv

(* One lemma per part; in each a step of the proof per action.               *)
(* A thread that goes to a place of its own leaves pc well typed.            *)
LEMMA GoesType ==
  ASSUME TypeOK, NEW t \in Threads, NEW from, NEW to \in Places, to \in PlacesOf(t),
         Goes(t, from, to)
  PROVE  pc' \in [Threads -> Places] /\ \A u \in Threads : pc'[u] \in PlacesOf(u)
  BY DEF TypeOK, Goes

LEMMA TypeStep == TypeOK /\ [Next]_vars => TypeOK'
  <1> SUFFICES ASSUME TypeOK, [Next]_vars PROVE TypeOK'
    OBVIOUS
  <1>1. ASSUME NEW t \in Threads, Wants(t) PROVE TypeOK'
    <2>1. "want" \in PlacesOf(t) /\ "want" \in Places
      BY <1>1, ThreadAssumption DEF Wants, PlacesOf, Places
    <2> QED
      BY <1>1, <2>1, GoesType DEF Wants, TypeOK, host
  <1>2. ASSUME NEW t \in Threads, Locks(t) PROVE TypeOK'
    <2>1. "work" \in PlacesOf(t) /\ "work" \in Places
      BY <1>2 DEF Locks, Goes, TypeOK, PlacesOf, Places
    <2> QED
      BY <1>2, <2>1, GoesType DEF Locks, TypeOK, host
  <1>3. ASSUME NEW t \in Threads, Unlocks(t) PROVE TypeOK'
    <2>1. "loop" \in PlacesOf(t) /\ "loop" \in Places
      BY DEF PlacesOf, Places
    <2> QED
      BY <1>3, <2>1, GoesType DEF Unlocks, TypeOK, host
  <1>4. ASSUME NEW t \in Threads, Ends(t) PROVE TypeOK'
    BY <1>4 DEF Ends, TypeOK
  <1>5. ASSUME NEW t \in {Keeper, Info}, BeatAnswered(t) PROVE TypeOK'
    <2>1. t \in Threads /\ "wantBeat" \in PlacesOf(t) /\ "wantBeat" \in Places
      BY ThreadAssumption DEF PlacesOf, Places, Threads
    <2> QED
      BY <1>5, <2>1, GoesType DEF BeatAnswered, TypeOK, host
  <1>6. ASSUME NEW t \in {Keeper, Info}, BeatLocks(t) PROVE TypeOK'
    <2>1. t \in Threads /\ "workBeat" \in PlacesOf(t) /\ "workBeat" \in Places
      BY ThreadAssumption DEF PlacesOf, Places, Threads
    <2> QED
      BY <1>6, <2>1, GoesType DEF BeatLocks, TypeOK, host
  <1>7. ASSUME NEW t \in {Keeper, Info}, BeatUnlocks(t) PROVE TypeOK'
    <2>1. t \in Threads /\ "beat" \in PlacesOf(t) /\ "beat" \in Places
      BY ThreadAssumption DEF PlacesOf, Places, Threads
    <2> QED
      BY <1>7, <2>1, GoesType DEF BeatUnlocks, TypeOK, host
  <1>8. ASSUME NEW t \in {Keeper, Info}, BeatEnds(t) PROVE TypeOK'
    <2>1. t \in Threads /\ "loop" \in PlacesOf(t) /\ "loop" \in Places
      BY DEF PlacesOf, Places, Threads
    <2> QED
      BY <1>8, <2>1, GoesType DEF BeatEnds, TypeOK, host
  <1>9. CASE Refreshes \/ LocksTables \/ TablesBuilt
    <2>1. /\ Reader \in Threads
          /\ {"rebuild", "build", "work"} \subseteq PlacesOf(Reader) \cap Places
      BY DEF PlacesOf, Places, Threads
    <2> QED
      BY <1>9, <2>1, GoesType DEF Refreshes, LocksTables, TablesBuilt, TypeOK, host
  <1>10. CASE KeeperWakes \/ KeeperLocksTables
    <2>1. /\ Keeper \in Threads
          /\ {"table", "beat"} \subseteq PlacesOf(Keeper) \cap Places
      BY ThreadAssumption DEF PlacesOf, Places, Threads
    <2> QED
      BY <1>10, <2>1, GoesType DEF KeeperWakes, KeeperLocksTables, TypeOK, host
  <1>11. CASE InfoBeats
    <2>1. Info \in Threads /\ "beat" \in PlacesOf(Info) /\ "beat" \in Places
      BY ThreadAssumption DEF PlacesOf, Places, Threads
    <2> QED
      BY <1>11, <2>1, GoesType DEF InfoBeats, TypeOK, host
  <1>12. CASE groupConfigureRefreshCall \/ OnDestroy \/ ClearsFlag \/ Stopped \/ Frees
    <2>1. UNCHANGED <<lockClient, groupDataLock, pc>>
      BY <1>12 DEF groupConfigureRefreshCall, OnDestroy, ClearsFlag, Stopped, Frees
    <2>2. alive' \in SUBSET Threads /\ run' \in [Threads -> BOOLEAN]
      BY <1>12 DEF groupConfigureRefreshCall, OnDestroy, ClearsFlag, Stopped, Frees, TypeOK, host
    <2>3. main' \in 0..5
      BY <1>12 DEF groupConfigureRefreshCall, OnDestroy, ClearsFlag, Stopped, Frees, TypeOK, host
    <2>4. heapOrphaned' \in BOOLEAN
      BY <1>12, Zenon DEF groupConfigureRefreshCall, OnDestroy, ClearsFlag, Stopped, Frees, TypeOK,
         host, Orphans
    <2>5. /\ groupDataRefresh' \in BOOLEAN /\ asking' \in BOOLEAN
          /\ clients' \in BOOLEAN
      BY <1>12, Zenon
      DEF groupConfigureRefreshCall, OnDestroy, ClearsFlag, Stopped, Frees, TypeOK, host
    <2> QED
      BY <2>1, <2>2, <2>3, <2>4, <2>5, Zenon DEF TypeOK
  <1>13. CASE UNCHANGED vars
    BY <1>13, Zenon DEF vars, host, TypeOK
  <1> QED
    BY <1>1, <1>2, <1>3, <1>4, <1>5, <1>6, <1>7, <1>8, <1>9, <1>10, <1>11, <1>12, <1>13
    DEF Next, ThreadStep, MainStops

LEMMA LockStep == TypeOK /\ LockHeld /\ [Next]_vars => LockHeld'
  <1> SUFFICES ASSUME TypeOK, LockHeld, [Next]_vars PROVE LockHeld'
    OBVIOUS
  <1> USE ThreadAssumption DEF TypeOK, LockHeld, Critical, Goes, host
  <1>1. ASSUME NEW t \in Threads, Wants(t) PROVE LockHeld'
    BY <1>1 DEF Wants
  <1>2. ASSUME NEW t \in Threads, Locks(t) \/ BeatLocks(t) PROVE LockHeld'
    BY <1>2 DEF Locks, BeatLocks
  <1>3. ASSUME NEW t \in Threads, Unlocks(t) \/ BeatUnlocks(t) PROVE LockHeld'
    BY <1>3 DEF Unlocks, BeatUnlocks
  <1>4. ASSUME NEW t \in Threads, BeatAnswered(t) \/ BeatEnds(t) \/ Ends(t) PROVE LockHeld'
    BY <1>4 DEF BeatAnswered, BeatEnds, Ends
  <1>5. CASE Refreshes \/ LocksTables \/ TablesBuilt
    BY <1>5 DEF Refreshes, LocksTables, TablesBuilt, Threads
  <1>6. CASE KeeperWakes \/ KeeperLocksTables \/ InfoBeats
    BY <1>6 DEF KeeperWakes, KeeperLocksTables, InfoBeats
  <1>7. CASE groupConfigureRefreshCall \/ OnDestroy \/ ClearsFlag \/ Stopped \/ Frees
    BY <1>7 DEF groupConfigureRefreshCall, OnDestroy, ClearsFlag, Stopped, Frees
  <1>8. CASE UNCHANGED vars
    BY <1>8 DEF vars, host
  <1> QED
    BY <1>1, <1>2, <1>3, <1>4, <1>5, <1>6, <1>7, <1>8 DEF Next, ThreadStep, MainStops, Threads

LEMMA TablesStep == TypeOK /\ TablesHeld /\ [Next]_vars => TablesHeld'
  <1> SUFFICES ASSUME TypeOK, TablesHeld, [Next]_vars PROVE TablesHeld'
    OBVIOUS
  <1> USE ThreadAssumption
      DEF TypeOK, TablesHeld, InTables, Goes, host, Threads, PlacesOf
  <1>1. ASSUME NEW t \in Threads, Wants(t) \/ Locks(t) \/ Unlocks(t) \/ Ends(t)
        PROVE TablesHeld'
    BY <1>1 DEF Wants, Locks, Unlocks, Ends
  <1>2. ASSUME NEW t \in {Keeper, Info}, BeatAnswered(t) \/ BeatLocks(t) \/ BeatUnlocks(t)
        PROVE TablesHeld'
    BY <1>2 DEF BeatAnswered, BeatLocks, BeatUnlocks
  <1>3. ASSUME NEW t \in {Keeper, Info}, BeatEnds(t) PROVE TablesHeld'
    BY <1>3 DEF BeatEnds
  <1>4. CASE Refreshes \/ LocksTables \/ TablesBuilt
    BY <1>4 DEF Refreshes, LocksTables, TablesBuilt
  <1>5. CASE KeeperWakes \/ KeeperLocksTables \/ InfoBeats
    BY <1>5 DEF KeeperWakes, KeeperLocksTables, InfoBeats
  <1>6. CASE groupConfigureRefreshCall \/ OnDestroy \/ ClearsFlag \/ Stopped \/ Frees
    BY <1>6 DEF groupConfigureRefreshCall, OnDestroy, ClearsFlag, Stopped, Frees
  <1>7. CASE UNCHANGED vars
    BY <1>7 DEF vars, host
  <1> QED
    BY <1>1, <1>2, <1>3, <1>4, <1>5, <1>6, <1>7 DEF Next, ThreadStep, MainStops

LEMMA StopStep == TypeOK /\ StoppedInOrder /\ [Next]_vars => StoppedInOrder'
  <1> SUFFICES ASSUME TypeOK, StoppedInOrder, [Next]_vars PROVE StoppedInOrder'
    OBVIOUS
  <1> USE DEF TypeOK, StoppedInOrder
  <1>1. CASE Stopped
    BY <1>1 DEF Stopped
  <1>2. ASSUME NEW t \in Threads, Ends(t) PROVE StoppedInOrder'
    BY <1>2 DEF Ends
  <1>3. CASE Frees
    BY <1>3 DEF Frees
  <1>4. CASE OnDestroy
    BY <1>4 DEF OnDestroy
  <1>5. ASSUME UNCHANGED <<alive, main, clients>> PROVE StoppedInOrder'
    BY <1>5
  <1>6. CASE groupConfigureRefreshCall \/ ClearsFlag \/ UNCHANGED vars
    BY <1>5, <1>6 DEF groupConfigureRefreshCall, ClearsFlag, vars, host
  <1>7. ASSUME NEW t \in Threads, ThreadStep(t), ~Ends(t) PROVE StoppedInOrder'
    BY <1>5, <1>7 DEF ThreadStep, Wants, Locks, Unlocks, BeatAnswered, BeatLocks, BeatUnlocks,
       BeatEnds, Refreshes, LocksTables, TablesBuilt, KeeperWakes, KeeperLocksTables,
       InfoBeats, host
  <1> QED
    BY <1>1, <1>2, <1>3, <1>4, <1>6, <1>7 DEF Next, MainStops

LEMMA Inductive == IInv /\ [Next]_vars => IInv'
  BY TypeStep, LockStep, TablesStep, StopStep DEF IInv

LEMMA Invariance == Spec => []IInv
  BY InitInv, Inductive, PTL DEF Spec

(* Every variable keeps to the values described for it.                      *)
THEOREM TypeCorrect == Spec => []TypeOK
  <1>1. IInv => TypeOK
    BY DEF IInv
  <1> QED
    BY <1>1, Invariance, PTL

(* The sections guarded by m_lockClient exclude each other, whoever is killed*)
(* where.                                                                    *)
THEOREM MutualExclusionHolds == Spec => []MutualExclusion
  <1>1. IInv => MutualExclusion
    BY DEF IInv, LockHeld, MutualExclusion
  <1> QED
    BY <1>1, Invariance, PTL

(* InitGroupData never rebuilds the tables under the keep-alive thread.      *)
THEOREM KeeperTablesStableHolds == Spec => []KeeperTablesStable
  <1>1. IInv => KeeperTablesStable
    BY ThreadAssumption DEF IInv, TablesHeld, KeeperTablesStable
  <1> QED
    BY <1>1, Invariance, PTL

(* When the clients are freed every thread has ended or been killed.         *)
THEOREM NoThreadOutlivesClientsHolds == Spec => []NoThreadOutlivesClients
  <1>1. IInv => NoThreadOutlivesClients
    <2> SUFFICES ASSUME IInv, ~clients, NEW t \in Threads PROVE t \notin alive
      BY DEF NoThreadOutlivesClients, IInv, TypeOK
    <2>1. main = 5
      BY DEF IInv, StoppedInOrder
    <2>2. PICK i \in 1..4 : t = StopOrder[i]
      BY StopsAll
    <2> QED
      BY <2>1, <2>2 DEF IInv, StoppedInOrder
  <1> QED
    BY <1>1, Invariance, PTL

-----------------------------------------------------------------------------
(* Who waits for whom.                                                       *)

\* The other half of LockHeld and TablesHeld: a lock has a holder only while
\* that thread is in a section of the lock.
LocksInUse ==
    /\ \A t \in Threads : lockClient = t => pc[t] \in Critical
    /\ groupDataLock \in {Reader, Keeper, NoOne}
    /\ groupDataLock = Reader => pc[Reader] = "build"
    /\ groupDataLock = Keeper => InTables(Keeper)

\* The reader is in or before InitGroupData only while a refresh is asked for.
RebuildsAsked == pc[Reader] \in {"rebuild", "build"} => groupDataRefresh

\* A thread that is gone elsewhere than at the head of its loop was killed there.
KilledInTurn ==
    \A i \in 1..4 : StopOrder[i] \notin alive /\ pc[StopOrder[i]] # "loop" => i < main

WaitInv == IInv /\ LocksInUse /\ RebuildsAsked /\ KilledInTurn

LEMMA WaitStart == Init => WaitInv
  <1> SUFFICES ASSUME Init PROVE WaitInv
    OBVIOUS
  <1>1. LocksInUse
    BY ThreadAssumption DEF Init, LocksInUse, Threads
  <1>2. RebuildsAsked
    BY DEF Init, RebuildsAsked, Threads
  <1>3. KilledInTurn
    BY StopsAll DEF Init, KilledInTurn
  <1>4. QED
    BY <1>1, <1>2, <1>3, InitInv DEF WaitInv

LEMMA LocksInUseStep == TypeOK /\ LocksInUse /\ [Next]_vars => LocksInUse'
  <1> SUFFICES ASSUME TypeOK, LocksInUse, [Next]_vars PROVE LocksInUse'
    OBVIOUS
  <1> USE ThreadAssumption
      DEF TypeOK, LocksInUse, InTables, Critical, Goes, host, Threads, PlacesOf
  <1>1. ASSUME NEW t \in Threads, Wants(t) \/ Ends(t) PROVE LocksInUse'
    BY <1>1 DEF Wants, Ends
  <1>2. ASSUME NEW t \in Threads, Locks(t) PROVE LocksInUse'
    BY <1>2 DEF Locks
  <1>3. ASSUME NEW t \in Threads, Unlocks(t) PROVE LocksInUse'
    BY <1>3 DEF Unlocks
  <1>4. ASSUME NEW t \in {Keeper, Info}, BeatAnswered(t) \/ BeatEnds(t) PROVE LocksInUse'
    BY <1>4 DEF BeatAnswered, BeatEnds
  <1>5. ASSUME NEW t \in {Keeper, Info}, BeatLocks(t) \/ BeatUnlocks(t) PROVE LocksInUse'
    BY <1>5 DEF BeatLocks, BeatUnlocks
  <1>6. CASE Refreshes \/ LocksTables \/ TablesBuilt
    BY <1>6 DEF Refreshes, LocksTables, TablesBuilt
  <1>7. CASE KeeperWakes \/ KeeperLocksTables \/ InfoBeats
    BY <1>7 DEF KeeperWakes, KeeperLocksTables, InfoBeats
  <1>8. CASE groupConfigureRefreshCall \/ OnDestroy \/ ClearsFlag \/ Stopped \/ Frees
    BY <1>8 DEF groupConfigureRefreshCall, OnDestroy, ClearsFlag, Stopped, Frees
  <1>9. CASE UNCHANGED vars
    BY <1>9 DEF vars, host
  <1> QED
    BY <1>1, <1>2, <1>3, <1>4, <1>5, <1>6, <1>7, <1>8, <1>9 DEF Next, ThreadStep, MainStops

LEMMA RebuildsStep == TypeOK /\ RebuildsAsked /\ [Next]_vars => RebuildsAsked'
  <1> SUFFICES ASSUME TypeOK, RebuildsAsked, [Next]_vars PROVE RebuildsAsked'
    OBVIOUS
  <1> USE ThreadAssumption DEF TypeOK, RebuildsAsked, Goes, host, Threads
  <1>1. ASSUME NEW t \in Threads, Wants(t) \/ Locks(t) \/ Unlocks(t) \/ Ends(t)
        PROVE  RebuildsAsked'
    BY <1>1 DEF Wants, Locks, Unlocks, Ends
  <1>2. ASSUME NEW t \in {Keeper, Info},
               BeatAnswered(t) \/ BeatLocks(t) \/ BeatUnlocks(t) \/ BeatEnds(t)
        PROVE  RebuildsAsked'
    BY <1>2 DEF BeatAnswered, BeatLocks, BeatUnlocks, BeatEnds
  <1>3. CASE Refreshes \/ LocksTables \/ TablesBuilt
    BY <1>3 DEF Refreshes, LocksTables, TablesBuilt
  <1>4. CASE KeeperWakes \/ KeeperLocksTables \/ InfoBeats
    BY <1>4 DEF KeeperWakes, KeeperLocksTables, InfoBeats
  <1>5. CASE groupConfigureRefreshCall \/ OnDestroy \/ ClearsFlag \/ Stopped \/ Frees
    BY <1>5 DEF groupConfigureRefreshCall, OnDestroy, ClearsFlag, Stopped, Frees
  <1>6. CASE UNCHANGED vars
    BY <1>6 DEF vars, host
  <1> QED
    BY <1>1, <1>2, <1>3, <1>4, <1>5, <1>6 DEF Next, ThreadStep, MainStops

LEMMA KilledStep == TypeOK /\ KilledInTurn /\ [Next]_vars => KilledInTurn'
  <1> SUFFICES ASSUME TypeOK, KilledInTurn, [Next]_vars PROVE KilledInTurn'
    OBVIOUS
  <1>1. \A i \in 1..4 : StopOrder[i] \in Threads
    BY StopsAll
  <1>2. main \in 0..5
    BY DEF TypeOK
  <1>3. ASSUME NEW t \in Threads, NEW from, NEW to, Goes(t, from, to), UNCHANGED host
        PROVE  KilledInTurn'
    BY <1>1, <1>3 DEF KilledInTurn, Goes, TypeOK, host
  <1>4. ASSUME NEW t \in Threads, Ends(t) PROVE KilledInTurn'
    BY <1>1, <1>4 DEF KilledInTurn, Ends, TypeOK
  <1>5. CASE Stopped
    <2>1. /\ main \in 1..4 /\ main' = main + 1 /\ UNCHANGED pc
          /\ alive' = alive \ {StopOrder[main]}
      BY <1>5 DEF Stopped
    <2>2. ASSUME NEW i \in 1..4, StopOrder[i] \notin alive', pc[StopOrder[i]] # "loop"
          PROVE  i < main + 1
      <3>1. StopOrder[i] \notin alive \/ i = main
        BY <2>1, <2>2, StopsOnce
      <3>2. QED
        BY <2>1, <2>2, <3>1 DEF KilledInTurn
    <2>3. QED
      BY <2>1, <2>2 DEF KilledInTurn
  <1>6. CASE OnDestroy
    BY <1>1, <1>2, <1>6 DEF KilledInTurn, OnDestroy
  <1>7. CASE groupConfigureRefreshCall \/ ClearsFlag \/ Frees \/ UNCHANGED vars
    BY <1>7 DEF KilledInTurn, groupConfigureRefreshCall, ClearsFlag, Frees, vars, host
  <1>8. ASSUME NEW t \in Threads, ThreadStep(t), ~Ends(t) PROVE KilledInTurn'
    BY <1>3, <1>8 DEF ThreadStep, Wants, Locks, Unlocks, BeatAnswered, BeatLocks, BeatUnlocks,
       BeatEnds, Refreshes, LocksTables, TablesBuilt, KeeperWakes, KeeperLocksTables, InfoBeats,
       Threads
  <1> QED
    BY <1>4, <1>5, <1>6, <1>7, <1>8 DEF Next, MainStops

LEMMA WaitStep == WaitInv /\ [Next]_vars => WaitInv'
  BY Inductive, LocksInUseStep, RebuildsStep, KilledStep DEF WaitInv, IInv

LEMMA WaitInvariance == Spec => []WaitInv
  BY WaitStart, WaitStep, PTL DEF Spec

\* Thread t waits in acquire() for a lock that u holds.
Waits(t, u) ==
    /\ t # u
    /\ \/ pc[t] \in {"want", "wantBeat"} /\ lockClient = u
       \/ pc[t] \in {"rebuild", "table"} /\ groupDataLock = u

(* A thread that others wait for waits itself only while a refresh is asked  *)
(* for, and then it is the reader that waits for the keep-alive thread       *)
(* (InitGroupData within GetPlcDataInfo) or the other way round (DealKeep-   *)
(* Alive within RunKeepAlive): without a refresh no two, three or four       *)
(* threads ever wait for each other in a circle.                             *)
ChainsNeedRefresh ==
    \A t, u, v \in Threads :
        Waits(t, u) /\ Waits(u, v) => groupDataRefresh /\ {u, v} = {Reader, Keeper}
THEOREM ChainsNeedRefreshHolds == Spec => []ChainsNeedRefresh
  <1>1. ASSUME WaitInv, NEW t \in Threads, NEW u \in Threads, NEW v \in Threads,
               Waits(t, u), Waits(u, v)
        PROVE  groupDataRefresh /\ {u, v} = {Reader, Keeper}
    <2> USE ThreadAssumption
    <2>0. IInv /\ LocksInUse /\ RebuildsAsked
      BY <1>1 DEF WaitInv
    <2>1. ASSUME NEW x \in Threads
          PROVE  /\ pc[x] = "rebuild" => x = Reader
                 /\ pc[x] = "table" => x = Keeper
                 /\ pc[x] \in {"want", "wantBeat", "table"} => pc[x] \notin Critical
                 /\ pc[x] = "want" => x # Keeper
      BY <2>0 DEF IInv, TypeOK, PlacesOf, Critical, Threads
    <2>2. CASE lockClient = u
      <3>1. pc[u] = "rebuild" /\ groupDataLock = v
        BY <1>1, <2>0, <2>1, <2>2 DEF Waits, LocksInUse
      <3>2. u = Reader
        BY <2>1, <3>1
      <3>3. v = Keeper
        BY <1>1, <2>0, <3>1, <3>2 DEF Waits, LocksInUse, Threads
      <3>4. groupDataRefresh
        BY <2>0, <3>1, <3>2 DEF RebuildsAsked
      <3>5. QED
        BY <3>2, <3>3, <3>4
    <2>3. CASE lockClient # u
      <3>1. groupDataLock = u /\ pc[t] \in {"rebuild", "table"}
        BY <1>1, <2>3 DEF Waits
      <3>2. u = Keeper
        <4>1. u # Reader
          BY <1>1, <2>0, <3>1 DEF Waits, LocksInUse
        <4>2. QED
          BY <2>0, <3>1, <4>1 DEF LocksInUse, Threads
      <3>3. t = Reader /\ pc[t] = "rebuild"
        BY <1>1, <2>1, <3>1, <3>2 DEF Waits
      <3>4. lockClient = Reader /\ groupDataRefresh
        BY <2>0, <3>3 DEF IInv, LockHeld, Critical, RebuildsAsked
      <3>5. pc[u] \in {"beat", "wantBeat", "workBeat"}
        BY <2>0, <3>1, <3>2 DEF LocksInUse, InTables
      <3>6. v = Reader
        BY <1>1, <3>4, <3>5 DEF Waits
      <3>7. QED
        BY <3>2, <3>4, <3>6
    <2>4. QED
      BY <2>2, <2>3
  <1>2. WaitInv => ChainsNeedRefresh
    BY <1>1 DEF ChainsNeedRefresh
  <1> QED
    BY <1>2, WaitInvariance, PTL

\* The reader in InitGroupData and the keep-alive thread in DealKeepAlive, each
\* waiting for the lock the other holds.
Deadlocked ==
    /\ pc[Reader] = "rebuild" /\ lockClient = Reader
    /\ pc[Keeper] = "wantBeat" /\ groupDataLock = Keeper

(* Once they wait for each other they do so for good, the refresh is never   *)
(* carried out and no other thread ever gets m_lockClient again; the kills   *)
(* of a shutdown do not undo it either, as they release no lock.             *)
DeadlockStays == [](Deadlocked => [](Deadlocked /\ groupDataRefresh))
THEOREM DeadlockForEver == Spec => DeadlockStays
  <1>1. WaitInv /\ Deadlocked => groupDataRefresh
    BY DEF WaitInv, RebuildsAsked, Deadlocked
  <1>2. WaitInv /\ Deadlocked /\ [Next]_vars => Deadlocked'
    <2> SUFFICES ASSUME WaitInv, Deadlocked, [Next]_vars PROVE Deadlocked'
      OBVIOUS
    <2> USE ThreadAssumption DEF Deadlocked, WaitInv, IInv, TypeOK, Goes, host, Threads
    <2>1. ASSUME NEW t \in Threads, Wants(t) \/ Locks(t) \/ Ends(t) PROVE Deadlocked'
      BY <2>1 DEF Wants, Locks, Ends
    <2>2. ASSUME NEW t \in Threads, Unlocks(t) PROVE Deadlocked'
      BY <2>2 DEF Unlocks, LockHeld, Critical
    <2>3. ASSUME NEW t \in {Keeper, Info}, BeatAnswered(t) \/ BeatLocks(t) \/ BeatEnds(t)
          PROVE  Deadlocked'
      BY <2>3 DEF BeatAnswered, BeatLocks, BeatEnds
    <2>4. ASSUME NEW t \in {Keeper, Info}, BeatUnlocks(t) PROVE Deadlocked'
      BY <2>4 DEF BeatUnlocks, LockHeld, Critical
    <2>5. CASE Refreshes \/ LocksTables \/ TablesBuilt
      BY <2>5 DEF Refreshes, LocksTables, TablesBuilt
    <2>6. CASE KeeperWakes \/ KeeperLocksTables \/ InfoBeats
      BY <2>6 DEF KeeperWakes, KeeperLocksTables, InfoBeats
    <2>7. CASE groupConfigureRefreshCall \/ OnDestroy \/ ClearsFlag \/ Stopped \/ Frees
      BY <2>7 DEF groupConfigureRefreshCall, OnDestroy, ClearsFlag, Stopped, Frees
    <2>8. CASE UNCHANGED vars
      BY <2>8 DEF vars
    <2> QED
      BY <2>1, <2>2, <2>3, <2>4, <2>5, <2>6, <2>7, <2>8 DEF Next, ThreadStep, MainStops
  <1>3. []WaitInv /\ [][Next]_vars => DeadlockStays
    BY <1>1, <1>2, PTL DEF DeadlockStays
  <1> QED
    BY <1>3, WaitInvariance, PTL DEF Spec

(* A thread that ends by itself leaves no lock behind: one whose holder is   *)
(* gone was left by TerminateThread, in that thread's turn of the shutdown.  *)
LocksLostOnlyByKill ==
    \A i \in 1..4 :
        StopOrder[i] \notin alive /\ StopOrder[i] \in {lockClient, groupDataLock} => i < main
THEOREM LocksLostOnlyByKillHolds == Spec => []LocksLostOnlyByKill
  <1>1. ASSUME WaitInv, NEW i \in 1..4, StopOrder[i] \notin alive,
               StopOrder[i] \in {lockClient, groupDataLock}
        PROVE  i < main
    <2>1. StopOrder[i] \in Threads
      BY StopsAll
    <2>2. pc[StopOrder[i]] # "loop"
      BY <1>1, <2>1, ThreadAssumption DEF WaitInv, LocksInUse, InTables, Critical
    <2>3. QED
      BY <1>1, <2>2 DEF WaitInv, KilledInTurn
  <1>2. WaitInv => LocksLostOnlyByKill
    BY <1>1 DEF LocksLostOnlyByKill
  <1> QED
    BY <1>2, WaitInvariance, PTL
=============================================================================
