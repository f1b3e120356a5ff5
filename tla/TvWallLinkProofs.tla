-------------------------- MODULE TvWallLinkProofs --------------------------
(***************************************************************************)
(* What is proved of TvWallLink: walls whose life was seen are in step     *)
(* with what is saved, and the program implements WallMemory, for any      *)
(* number of walls, screens, switches, crashes, losses and refreshes.      *)
(***************************************************************************)
EXTENDS TvWallLink, Numbers, TLAPS

-----------------------------------------------------------------------------
(* Types. *)

LEMMA LowestIsLeast ==
    ASSUME NEW T \in SUBSET Screens, T # {}
    PROVE  Lowest(T) \in T /\ \A s \in T : Lowest(T) <= s
  <1>1. T \subseteq Nat
    BY LinkAssumption DEF Screens
  <1>2. \E s \in T : \A x \in T : s <= x
    BY <1>1, MinExists
  <1>3. QED
    BY <1>2 DEF Lowest

LEMMA FirstPlan ==
    ASSUME NEW plans, NEW from, HasPlan(plans, from) # {}
    PROVE  /\ Lowest(HasPlan(plans, from)) \in Screens
           /\ plans[Lowest(HasPlan(plans, from))] # NoPlan
           /\ \A s \in Screens : s >= from /\ s < Lowest(HasPlan(plans, from)) => plans[s] = NoPlan
  <1> DEFINE T == HasPlan(plans, from)
  <1>1. T \in SUBSET Screens
    BY DEF HasPlan
  <1>2. Lowest(T) \in T /\ \A s \in T : Lowest(T) <= s
    BY <1>1, LowestIsLeast
  <1>3. \A s \in Screens : s < Lowest(T) => ~(Lowest(T) <= s)
    BY <1>1, <1>2, LinkAssumption DEF Screens
  <1>4. QED
    BY <1>2, <1>3 DEF HasPlan

Halves   == [cut : Plans, map : Plans]
Displays == [Walls -> [Screens -> Halves]]

\* What a message that gets through does to a display.
LEMMA DeliveredShows ==
    ASSUME display \in Displays, NEW w \in Walls, NEW s \in Screens,
           NEW half \in {"cut", "map"}, NEW p \in Plans, Delivered(w, s, half, p)
    PROVE  /\ display' \in Displays
           /\ ~up[w] => display' = display
           /\ up[w] => display'[w][s] = [display[w][s] EXCEPT ![half] = p]
  <1>1. CASE ~up[w]
    BY <1>1 DEF Delivered
  <1>2. CASE up[w]
    <2> DEFINE new == [display[w][s] EXCEPT ![half] = p]
    <2>1. display' = [display EXCEPT ![w] = [display[w] EXCEPT ![s] = new]]
      BY <1>2 DEF Delivered
    <2>2. display[w][s] \in Halves
      BY DEF Displays
    <2>3. new \in Halves
      <3>1. CASE half = "cut"
        BY <2>2, <3>1 DEF Halves
      <3>2. CASE half = "map"
        BY <2>2, <3>2 DEF Halves
      <3>3. QED
        BY <3>1, <3>2
    <2> HIDE DEF new
    <2>4. display' \in Displays /\ display'[w][s] = new
      BY <2>1, <2>3 DEF Displays
    <2>5. QED
      BY <1>2, <2>4 DEF new
  <1>3. QED
    BY <1>1, <1>2

LEMMA DeliveredElsewhere ==
    ASSUME display \in Displays, NEW w \in Walls, NEW s \in Screens,
           NEW half \in {"cut", "map"}, NEW p \in Plans, Delivered(w, s, half, p),
           NEW v \in Walls, NEW x \in Screens, v # w \/ x # s
    PROVE  display'[v][x] = display[v][x]
  BY DEF Delivered, Displays

LEMMA SentTypes ==
    ASSUME TypeOK, NEW half \in {"cut", "map"}
    PROVE  /\ Delivered(job.wall, job.screen, half, job.plan)
                => display' \in [Walls -> [Screens -> [cut : Plans, map : Plans]]]
           /\ Delivered(kwall, kscreen, half, copy[kscreen])
                => display' \in [Walls -> [Screens -> [cut : Plans, map : Plans]]]
  <1>1. display \in Displays
    BY DEF TypeOK, Displays, Halves
  <1>2. job.wall \in Walls /\ job.screen \in Screens /\ job.plan \in Plans
    BY DEF TypeOK
  <1>3. kwall \in Walls /\ kscreen \in Screens /\ copy[kscreen] \in Plans
    BY DEF TypeOK
  <1>4. \A w \in Walls, s \in Screens, p \in Plans : Delivered(w, s, half, p) => display' \in Displays
    BY <1>1, DeliveredShows
  <1>5. QED
    BY <1>2, <1>3, <1>4 DEF Displays, Halves

LEMMA ReaderTypes == ASSUME TypeOK, ReaderLocks \/ ReaderWorks \/ ReaderInits PROVE TypeOK'
  <1> USE LinkAssumption DEF TypeOK, locks, reader, keeper, tables, wall, count
  <1>1. CASE ReaderLocks \/ ReaderUnlocks \/ ReaderRefreshes \/ ReaderLoaded
    BY <1>1 DEF ReaderLocks, ReaderUnlocks, ReaderRefreshes, ReaderLoaded
  <1>2. ASSUME NEW w \in Walls, NEW s \in Screens, ReaderSwitches(w, s) PROVE TypeOK'
    <2>1. asks + 1 \in Plans
      BY <1>2 DEF ReaderSwitches, Plans
    <2>2. QED
      BY <1>2, <2>1 DEF ReaderSwitches
  <1>a. ASSUME NEW half \in {"cut", "map"}, ReaderSends(job.wall, job.screen, half, job.plan)
        PROVE  display' \in [Walls -> [Screens -> [cut : Plans, map : Plans]]]
    BY <1>a, SentTypes DEF ReaderSends
  <1>3. CASE ReaderSendsCut
    BY <1>3, <1>a DEF ReaderSendsCut, ReaderSends
  <1>4. CASE ReaderSendsMap
    BY <1>4, <1>a DEF ReaderSendsMap, ReaderSends
  <1>5. CASE ReaderSaves
    <2>1. Nowhere \in [wall : Walls, screen : Screens, plan : Plans]
      BY DEF Nowhere, Walls, Screens, Plans, NoPlan
    <2>2. QED
      BY <1>5, <2>1 DEF ReaderSaves
  <1>6. CASE ReaderInits
    <2>1. NoPlan \in Plans /\ 0 \in 0..MaxCrashes + 1
      BY DEF Plans, NoPlan
    <2>2. QED
      BY <1>6, <2>1 DEF ReaderInits, NoPlans
  <1>7. QED
    BY <1>1, <1>2, <1>3, <1>4, <1>5, <1>6 DEF ReaderWorks

LEMMA KeeperTypes == ASSUME TypeOK, KeeperWakes \/ KeeperLocks \/ KeeperWorks PROVE TypeOK'
  <1> USE LinkAssumption DEF TypeOK, locks, reader, keeper, tables, wall, count
  <1>1. CASE KeeperWakes \/ KeeperLocks
    <2>1. 1 \in Walls
      BY DEF Walls
    <2>2. QED
      BY <1>1, <2>1 DEF KeeperWakes, KeeperLocks
  <1>2. CASE KeeperAsks
    <2>1. life[kwall] \in 0..MaxCrashes + 1
      OBVIOUS
    <2>2. reply' \in 0..MaxCrashes + 1 /\ losses' \in 0..MaxLosses
      BY <1>2, <2>1 DEF KeeperAsks
    <2>3. QED
      BY <1>2, <2>2 DEF KeeperAsks
  <1>3. CASE KeeperChecks
    <2>1. kscreen' \in Screens
      BY <1>3, FirstPlan DEF KeeperChecks
    <2>2. copy' \in [Screens -> Plans] /\ tvState' \in [Walls -> 0..MaxCrashes + 1]
      <3>1. saved[kwall] \in [Screens -> Plans]
        OBVIOUS
      <3>2. [tvState EXCEPT ![kwall] = reply] \in [Walls -> 0..MaxCrashes + 1]
        OBVIOUS
      <3>3. \/ copy' = saved[kwall] /\ tvState' = [tvState EXCEPT ![kwall] = reply]
            \/ UNCHANGED <<copy, tvState>>
        BY <1>3 DEF KeeperChecks
      <3>4. QED
        BY <3>1, <3>2, <3>3
    <2>3. kpc' \in {"next", "cut"}
      BY <1>3 DEF KeeperChecks
    <2>4. QED
      BY <1>3, <2>1, <2>2, <2>3 DEF KeeperChecks
  <1>4. ASSUME NEW half \in {"cut", "map"}, KeeperSends(kwall, kscreen, half, copy[kscreen])
        PROVE  /\ display' \in [Walls -> [Screens -> [cut : Plans, map : Plans]]]
               /\ losses' \in 0..MaxLosses
    <2>1. CASE Delivered(kwall, kscreen, half, copy[kscreen]) /\ UNCHANGED losses
      BY <2>1, SentTypes
    <2>2. CASE losses < MaxLosses /\ losses' = losses + 1 /\ UNCHANGED display
      BY <2>2
    <2>3. QED
      BY <1>4, <2>1, <2>2 DEF KeeperSends
  <1>5. CASE KeeperSendsCut
    BY <1>4, <1>5 DEF KeeperSendsCut
  <1>6. CASE KeeperSendsMap
    <2>1. kscreen' \in Screens
      BY <1>6, FirstPlan DEF KeeperSendsMap
    <2>2. QED
      BY <1>4, <1>6, <2>1 DEF KeeperSendsMap
  <1>7. CASE KeeperUnlocks
    <2>1. kwall' \in Walls
      BY <1>7 DEF KeeperUnlocks, LastWall, Walls
    <2>2. 1 \in Screens /\ NoPlans \in [Screens -> Plans]
      BY DEF Screens, NoPlans, NoPlan, Plans
    <2>3. QED
      BY <1>7, <2>1, <2>2 DEF KeeperUnlocks
  <1>8. QED
    BY <1>1, <1>2, <1>3, <1>5, <1>6, <1>7 DEF KeeperWorks

LEMMA OtherTypes ==
    ASSUME TypeOK, groupConfigureRefreshCall \/ \E w \in Walls : Crashes(w) \/ Boots(w),
           \A w \in Walls : up[w] \/ life[w] <= MaxCrashes
    PROVE  TypeOK'
  <1> USE LinkAssumption DEF TypeOK, locks, reader, keeper, tables, wall, count
  <1>1. CASE groupConfigureRefreshCall
    BY <1>1 DEF groupConfigureRefreshCall
  <1>2. ASSUME NEW w \in Walls, Crashes(w) PROVE TypeOK'
    <2>1. Dark \in [Screens -> [cut : Plans, map : Plans]]
      BY DEF Dark, NoPlan, Plans
    <2>2. QED
      BY <1>2, <2>1 DEF Crashes
  <1>3. ASSUME NEW w \in Walls, Boots(w) PROVE TypeOK'
    BY <1>3 DEF Boots
  <1>4. QED
    BY <1>1, <1>2, <1>3

-----------------------------------------------------------------------------
(* The invariant. *)

\* The reader is about to send, or save, a new plan for this screen.
Pending(w, s) == rpc \in {"cut", "map", "save"} /\ job.wall = w /\ job.screen = s
\* The resend to this wall has not come to this screen, or is at it.
Resending(w, s) == kpc \in {"cut", "map"} /\ w = kwall /\ s >= kscreen
Seen(w) == up[w] /\ tvState[w] = life[w]

LocksInv ==
    /\ lockClient = Reader <=> rpc # "sleep"
    /\ lockClient = Keeper <=> kpc \in {"check", "cut", "map", "next"}

LivesInv ==
    /\ \A w \in Walls : tvState[w] <= life[w] /\ (up[w] \/ life[w] <= MaxCrashes)
    /\ reply <= life[kwall] /\ (kpc \in {"sleep", "ask"} => reply = 0)

\* What is saved is the plan asked for last, but for a switch being made.
PlansInv ==
    /\ rpc \in {"cut", "map", "save"} => job.plan = asked[job.wall][job.screen]
    /\ \A w \in Walls, s \in Screens : saved[w][s] \in {NoPlan, asked[w][s]} \/ Pending(w, s)
    /\ kpc \in {"cut", "map"} => copy = saved[kwall] /\ copy[kscreen] # NoPlan

\* How far a screen of a wall whose life was seen has got.
ScreenInv(w, s) ==
    /\ (~Pending(w, s) /\ ~Resending(w, s) /\ saved[w][s] # NoPlan)
         => display[w][s] = [cut |-> saved[w][s], map |-> saved[w][s]]
    /\ (Pending(w, s) /\ rpc = "map") => display[w][s].cut = job.plan
    /\ (Pending(w, s) /\ rpc = "save") => display[w][s] = [cut |-> job.plan, map |-> job.plan]
    /\ (kpc = "map" /\ w = kwall /\ s = kscreen) => display[w][s].cut = saved[w][s]

ScreensInv == losses = 0 => \A w \in Walls, s \in Screens : Seen(w) => ScreenInv(w, s)

LinkInv == TypeOK /\ LocksInv /\ LivesInv /\ PlansInv /\ ScreensInv

LEMMA LinkStarts == Init => LinkInv
  <1> SUFFICES ASSUME Init PROVE LinkInv
    OBVIOUS
  <1> USE LinkAssumption DEF Init
  <1>1. TypeOK
    <2>1. 1 \in Walls /\ 1 \in Screens /\ NoPlan \in Plans
      BY DEF Walls, Screens, Plans, NoPlan
    <2>2. Nowhere \in [wall : Walls, screen : Screens, plan : Plans]
      BY <2>1 DEF Nowhere
    <2>3. NoPlans \in [Screens -> Plans] /\ Dark \in [Screens -> [cut : Plans, map : Plans]]
      BY <2>1 DEF NoPlans, Dark
    <2>4. 0 \in 0..MaxCrashes + 1 /\ 1 \in 1..MaxCrashes + 1 /\ 0 \in Plans
      BY DEF Plans
    <2>5. /\ copy \in [Screens -> Plans] /\ saved \in [Walls -> [Screens -> Plans]]
          /\ asked \in [Walls -> [Screens -> Plans]]
          /\ display \in [Walls -> [Screens -> [cut : Plans, map : Plans]]]
      BY <2>3
    <2>6. tvState \in [Walls -> 0..MaxCrashes + 1] /\ life \in [Walls -> 1..MaxCrashes + 1]
      BY <2>4
    <2>7. losses \in 0..MaxLosses /\ refreshes \in 0..MaxRefreshes /\ asks \in Plans
      BY <2>4
    <2>8. /\ job \in [wall : Walls, screen : Screens, plan : Plans]
          /\ kwall \in Walls /\ kscreen \in Screens /\ reply \in 0..MaxCrashes + 1
      BY <2>1, <2>2, <2>4
    <2>9. lockClient \in {Reader, Keeper, NoOne} /\ groupDataLock \in {Reader, Keeper, NoOne}
      OBVIOUS
    <2>10. up \in [Walls -> BOOLEAN]
      OBVIOUS
    <2> HIDE DEF Init
    <2>11. /\ rpc = "sleep" /\ kpc = "sleep" /\ groupDataRefresh = FALSE
      BY DEF Init
    <2>12. QED
      BY <2>5, <2>6, <2>7, <2>8, <2>9, <2>10, <2>11 DEF TypeOK
  <1>2. LocksInv
    BY DEF LocksInv, Reader, Keeper, NoOne
  <1>3. LivesInv
    BY DEF LivesInv, Walls
  <1>4. PlansInv
    BY DEF PlansInv, NoPlans
  <1>5. ScreensInv
    BY DEF ScreensInv, Seen
  <1>6. QED
    BY <1>1, <1>2, <1>3, <1>4, <1>5 DEF LinkInv

-----------------------------------------------------------------------------
(* The parts that are about one thread at a time. *)

LEMMA TypesKept == ASSUME LinkInv, Next PROVE TypeOK'
  <1>1. \A w \in Walls : up[w] \/ life[w] <= MaxCrashes
    BY DEF LinkInv, LivesInv
  <1>2. QED
    BY <1>1, ReaderTypes, KeeperTypes, OtherTypes DEF LinkInv, Next

LEMMA LocksKept == ASSUME LocksInv, Next PROVE LocksInv'
  <1> USE DEF LocksInv, Reader, Keeper, NoOne, locks, reader, keeper, tables, wall, count
  <1>1. CASE ReaderLocks \/ ReaderInits
    BY <1>1 DEF ReaderLocks, ReaderInits
  <1>2. CASE ReaderWorks
    BY <1>2 DEF ReaderWorks, ReaderSwitches, ReaderSendsCut, ReaderSendsMap, ReaderSaves,
       ReaderUnlocks, ReaderRefreshes, ReaderLoaded
  <1>3. CASE KeeperWakes \/ KeeperLocks
    BY <1>3 DEF KeeperWakes, KeeperLocks
  <1>4. CASE KeeperWorks
    BY <1>4 DEF KeeperWorks, KeeperAsks, KeeperChecks, KeeperSendsCut, KeeperSendsMap, KeeperUnlocks
  <1>5. CASE groupConfigureRefreshCall \/ \E w \in Walls : Crashes(w) \/ Boots(w)
    BY <1>5 DEF groupConfigureRefreshCall, Crashes, Boots
  <1>6. QED
    BY <1>1, <1>2, <1>3, <1>4, <1>5 DEF Next

LEMMA LivesKept == ASSUME TypeOK, LivesInv, Next PROVE LivesInv'
  <1> DEFINE state == <<tvState, life, up, reply, kwall, kpc>>
  <1> USE LinkAssumption DEF LivesInv, locks, reader, keeper, tables, wall, count
  <1>1. /\ \A w \in Walls : life[w] \in Nat /\ tvState[w] \in Nat
        /\ reply \in Nat /\ kwall \in Walls
        /\ DOMAIN tvState = Walls /\ DOMAIN life = Walls /\ DOMAIN up = Walls
    BY DEF TypeOK
  <1>2. CASE ReaderLocks \/ ReaderWorks \/ groupConfigureRefreshCall
    <2>1. UNCHANGED state
      BY <1>2 DEF ReaderLocks, ReaderWorks, ReaderSwitches, ReaderSendsCut, ReaderSendsMap,
         ReaderSaves, ReaderUnlocks, ReaderRefreshes, ReaderLoaded, groupConfigureRefreshCall
    <2>2. QED
      BY <2>1
  <1>3. CASE ReaderInits
    <2>1. UNCHANGED <<life, up, reply, kwall, kpc>> /\ tvState' = [w \in Walls |-> 0]
      BY <1>3 DEF ReaderInits
    <2>2. QED
      BY <1>1, <2>1
  <1>4. CASE KeeperWakes \/ KeeperLocks
    <2>1. UNCHANGED <<tvState, life, up, reply>>
      BY <1>4 DEF KeeperWakes, KeeperLocks
    <2>2. CASE KeeperWakes
      <3>1. reply' = 0 /\ kwall' \in Walls
        BY <2>1, <2>2 DEF KeeperWakes, Walls
      <3>2. QED
        BY <1>1, <2>1, <3>1
    <2>3. CASE KeeperLocks
      BY <2>1, <2>3 DEF KeeperLocks
    <2>4. QED
      BY <1>4, <2>2, <2>3
  <1>5. CASE KeeperAsks
    <2>1. UNCHANGED <<tvState, life, up, kwall>> /\ kpc' = "lock" /\ reply' \in {0, life[kwall]}
      BY <1>5 DEF KeeperAsks
    <2>2. QED
      BY <1>1, <2>1
  <1>6. CASE KeeperChecks
    <2>1. UNCHANGED <<life, up, kwall, reply>> /\ kpc' \in {"next", "cut"}
      BY <1>6 DEF KeeperChecks
    <2>2. tvState' \in {tvState, [tvState EXCEPT ![kwall] = reply]}
      BY <1>6 DEF KeeperChecks
    <2>3. QED
      BY <1>1, <2>1, <2>2
  <1>7. CASE KeeperSendsCut \/ KeeperSendsMap
    <2>1. UNCHANGED <<tvState, life, up, kwall, reply>> /\ kpc' \in {"map", "next", "cut"}
      BY <1>7 DEF KeeperSendsCut, KeeperSendsMap
    <2>2. QED
      BY <2>1
  <1>8. CASE KeeperUnlocks
    <2>1. UNCHANGED <<tvState, life, up>> /\ reply' = 0 /\ kwall' \in Walls
      BY <1>1, <1>8 DEF KeeperUnlocks, LastWall, Walls
    <2>2. QED
      BY <1>1, <2>1
  <1>9. ASSUME NEW w \in Walls, Crashes(w) PROVE LivesInv'
    <2>1. UNCHANGED <<tvState, life, reply, kwall, kpc>> /\ life[w] <= MaxCrashes
          /\ up' = [up EXCEPT ![w] = FALSE]
      BY <1>9 DEF Crashes
    <2>2. QED
      BY <1>1, <2>1
  <1>10. ASSUME NEW w \in Walls, Boots(w) PROVE LivesInv'
    <2>1. UNCHANGED <<tvState, reply, kwall, kpc>> /\ life' = [life EXCEPT ![w] = life[w] + 1]
          /\ up' = [up EXCEPT ![w] = TRUE]
      BY <1>10 DEF Boots
    <2>2. QED
      BY <1>1, <2>1
  <1>11. QED
    BY <1>2, <1>3, <1>4, <1>5, <1>6, <1>7, <1>8, <1>9, <1>10 DEF Next, KeeperWorks

-----------------------------------------------------------------------------
(* What is saved, and what is sent again. *)

\* While one thread holds m_lockClient the other is out of its way.
LEMMA Apart ==
    ASSUME LocksInv
    PROVE  /\ rpc # "sleep" => kpc \notin {"check", "cut", "map", "next"}
           /\ kpc \in {"check", "cut", "map", "next"} => rpc = "sleep"
           /\ lockClient = NoOne => rpc = "sleep" /\ kpc \notin {"check", "cut", "map", "next"}
  BY DEF LocksInv, Reader, Keeper, NoOne

LEMMA ReaderPlans ==
    ASSUME TypeOK, LocksInv, PlansInv, ReaderLocks \/ ReaderWorks \/ ReaderInits
    PROVE  PlansInv'
  <1> USE DEF locks, reader, keeper, tables, wall, count
  <1>1. UNCHANGED <<kpc, kwall, copy, kscreen>> /\ kpc \notin {"cut", "map"}
    BY Apart DEF ReaderLocks, ReaderInits, ReaderWorks, ReaderSwitches, ReaderSendsCut,
       ReaderSendsMap, ReaderSaves, ReaderUnlocks, ReaderRefreshes, ReaderLoaded
  <1>2. CASE ReaderLocks \/ ReaderSendsCut \/ ReaderSendsMap
             \/ ReaderUnlocks \/ ReaderRefreshes \/ ReaderLoaded
    <2>1. UNCHANGED <<job, saved, asked>>
      BY <1>2 DEF ReaderLocks, ReaderSendsCut, ReaderSendsMap, ReaderUnlocks, ReaderRefreshes,
         ReaderLoaded
    <2>2. rpc \in {"cut", "map", "save"} <=> rpc' \in {"cut", "map", "save"}
      BY <1>2 DEF ReaderLocks, ReaderSendsCut, ReaderSendsMap, ReaderUnlocks, ReaderRefreshes,
         ReaderLoaded
    <2>3. QED
      BY <1>1, <2>1, <2>2 DEF PlansInv, Pending
  <1>3. ASSUME NEW w \in Walls, NEW s \in Screens, ReaderSwitches(w, s) PROVE PlansInv'
    <2>1. /\ rpc = "reading" /\ rpc' = "cut" /\ saved' = saved
          /\ job' = [wall |-> w, screen |-> s, plan |-> asks + 1]
          /\ asked' = [asked EXCEPT ![w][s] = asks + 1]
      BY <1>3 DEF ReaderSwitches
    <2>2. asked'[w][s] = asks + 1
      BY <2>1 DEF TypeOK
    <2>3. \A v \in Walls, x \in Screens : <<v, x>> # <<w, s>> => asked'[v][x] = asked[v][x]
      BY <2>1 DEF TypeOK
    <2>4. \A v \in Walls, x \in Screens :
              <<v, x>> # <<w, s>> => saved[v][x] \in {NoPlan, asked'[v][x]}
      BY <2>1, <2>3 DEF PlansInv, Pending
    <2>5. Pending(w, s)'
      BY <2>1 DEF Pending
    <2>6. QED
      BY <1>1, <2>1, <2>2, <2>4, <2>5 DEF PlansInv
  <1>4. CASE ReaderSaves
    <2>1. /\ rpc = "save" /\ rpc' = "reading" /\ asked' = asked
          /\ saved' = [saved EXCEPT ![job.wall][job.screen] = job.plan]
      BY <1>4 DEF ReaderSaves
    <2>2. job.wall \in Walls /\ job.screen \in Screens /\ job.plan = asked[job.wall][job.screen]
      BY <2>1 DEF PlansInv, TypeOK
    <2>3. \A v \in Walls, x \in Screens :
              saved'[v][x] = IF v = job.wall /\ x = job.screen THEN job.plan ELSE saved[v][x]
      BY <2>1 DEF TypeOK
    <2>4. \A v \in Walls, x \in Screens : saved'[v][x] \in {NoPlan, asked[v][x]}
      BY <2>2, <2>3 DEF PlansInv, Pending
    <2>5. QED
      BY <1>1, <2>1, <2>4 DEF PlansInv
  <1>5. CASE ReaderInits
    <2>1. rpc' = "load" /\ UNCHANGED <<job, asked>> /\ saved' = [w \in Walls |-> NoPlans]
      BY <1>5 DEF ReaderInits
    <2>2. \A v \in Walls, x \in Screens : saved'[v][x] = NoPlan
      BY <2>1 DEF NoPlans
    <2>3. QED
      BY <1>1, <2>1, <2>2 DEF PlansInv
  <1>6. QED
    BY <1>2, <1>3, <1>4, <1>5 DEF ReaderWorks

LEMMA OtherPlans ==
    ASSUME TypeOK, LocksInv, PlansInv,
           \/ KeeperWakes \/ KeeperLocks \/ KeeperWorks \/ groupConfigureRefreshCall
           \/ \E w \in Walls : Crashes(w) \/ Boots(w)
    PROVE  PlansInv'
  <1> USE DEF locks, reader, keeper, tables, wall, count
  <1>1. UNCHANGED <<rpc, job, saved, asked>>
    BY DEF KeeperWakes, KeeperLocks, KeeperWorks, KeeperAsks, KeeperChecks, KeeperSendsCut,
       KeeperSendsMap, KeeperUnlocks, groupConfigureRefreshCall, Crashes, Boots
  <1>2. kpc' \in {"cut", "map"} => copy' = saved'[kwall'] /\ copy'[kscreen'] # NoPlan
    <2>1. CASE KeeperWakes \/ KeeperLocks \/ KeeperAsks \/ KeeperUnlocks
      BY <2>1 DEF KeeperWakes, KeeperLocks, KeeperAsks, KeeperUnlocks
    <2>2. CASE KeeperChecks
      BY <1>1, <2>2, FirstPlan DEF KeeperChecks
    <2>3. CASE KeeperSendsCut
      BY <1>1, <2>3 DEF KeeperSendsCut, PlansInv
    <2>4. CASE KeeperSendsMap
      BY <1>1, <2>4, FirstPlan DEF KeeperSendsMap, PlansInv
    <2>5. CASE groupConfigureRefreshCall \/ \E w \in Walls : Crashes(w) \/ Boots(w)
      BY <2>5 DEF groupConfigureRefreshCall, Crashes, Boots, PlansInv
    <2>6. QED
      BY <2>1, <2>2, <2>3, <2>4, <2>5 DEF KeeperWorks
  <1>3. QED
    BY <1>1, <1>2 DEF PlansInv, Pending

LEMMA PlansKept == ASSUME TypeOK, LocksInv, PlansInv, Next PROVE PlansInv'
  BY ReaderPlans, OtherPlans DEF Next

-----------------------------------------------------------------------------
(* How far each screen has got. *)

LEMMA ReaderScreens ==
    ASSUME LinkInv, ReaderLocks \/ ReaderWorks \/ ReaderInits,
           NEW w \in Walls, NEW s \in Screens, losses' = 0, Seen(w)'
    PROVE  ScreenInv(w, s)'
  <1> USE DEF locks, reader, keeper, tables, wall, count
  <1>1. /\ UNCHANGED <<losses, kpc, kwall, kscreen, up, life>>
        /\ kpc \notin {"cut", "map"}
    BY Apart DEF LinkInv, ReaderLocks, ReaderInits, ReaderWorks, ReaderSwitches, ReaderSendsCut,
       ReaderSendsMap, ReaderSaves, ReaderUnlocks, ReaderRefreshes, ReaderLoaded, ReaderSends
  <1>2. CASE ReaderInits
    <2>1. tvState'[w] = 0 /\ life'[w] # 0
      BY <1>2 DEF ReaderInits, LinkInv, TypeOK
    <2>2. QED
      BY <2>1 DEF Seen
  <1>3. CASE ~ReaderInits
    <2>1. tvState' = tvState
      BY <1>3 DEF ReaderLocks, ReaderWorks, ReaderSwitches, ReaderSendsCut,
         ReaderSendsMap, ReaderSaves, ReaderUnlocks, ReaderRefreshes, ReaderLoaded
    <2>2. Seen(w) /\ ScreenInv(w, s)
      BY <1>1, <2>1 DEF Seen, LinkInv, ScreensInv
    <2>3. CASE ReaderLocks \/ ReaderUnlocks \/ ReaderRefreshes \/ ReaderLoaded
      BY <2>2, <2>3, <1>1 DEF ReaderLocks, ReaderUnlocks, ReaderRefreshes, ReaderLoaded,
         ScreenInv, Pending, Resending
    <2>4. ASSUME NEW v \in Walls, NEW x \in Screens, ReaderSwitches(v, x) PROVE ScreenInv(w, s)'
      BY <2>2, <2>4, <1>1 DEF ReaderSwitches, ScreenInv, Pending, Resending
    <2>5. CASE ReaderSendsCut \/ ReaderSendsMap
      <3>1. PICK half \in {"cut", "map"} :
                /\ rpc = half /\ rpc' = IF half = "cut" THEN "map" ELSE "save"
                /\ UNCHANGED <<job, saved>>
                /\ Delivered(job.wall, job.screen, half, job.plan)
        BY <2>5 DEF ReaderSendsCut, ReaderSendsMap, ReaderSends
      <3>2. /\ display \in Displays /\ job.wall \in Walls /\ job.screen \in Screens
            /\ job.plan \in Plans
        BY DEF LinkInv, TypeOK, Displays, Halves
      <3>3. CASE w # job.wall \/ s # job.screen
        <4>1. display'[w][s] = display[w][s]
          BY <3>1, <3>2, <3>3, DeliveredElsewhere
        <4>2. ~Pending(w, s) /\ ~Pending(w, s)'
          BY <3>1, <3>3 DEF Pending
        <4>3. QED
          BY <1>1, <2>2, <3>1, <4>1, <4>2 DEF ScreenInv, Resending
      <3>4. CASE w = job.wall /\ s = job.screen
        <4>1. display'[w][s] = [display[w][s] EXCEPT ![half] = job.plan]
          BY <2>2, <3>1, <3>2, <3>4, DeliveredShows DEF Seen
        <4>2. display[w][s] \in Halves
          BY <3>2 DEF Displays
        <4>3. Pending(w, s) /\ Pending(w, s)'
          BY <3>1, <3>4 DEF Pending
        <4>4. CASE half = "cut"
          <5>1. display'[w][s].cut = job.plan
            BY <4>1, <4>2, <4>4 DEF Halves
          <5>2. rpc' = "map" /\ job' = job
            BY <3>1, <4>4
          <5>3. QED
            BY <1>1, <4>3, <5>1, <5>2 DEF ScreenInv
        <4>5. CASE half = "map"
          <5>1. display[w][s].cut = job.plan
            BY <2>2, <3>1, <4>3, <4>5 DEF ScreenInv
          <5>2. display'[w][s] = [cut |-> job.plan, map |-> job.plan]
            BY <4>1, <4>2, <4>5, <5>1 DEF Halves
          <5>3. rpc' = "save" /\ job' = job
            BY <3>1, <4>5
          <5>4. QED
            BY <1>1, <4>3, <5>2, <5>3 DEF ScreenInv
        <4>6. QED
          BY <4>4, <4>5
      <3>5. QED
        BY <3>3, <3>4
    <2>6. CASE ReaderSaves
      <3>1. /\ rpc = "save" /\ rpc' = "reading" /\ display' = display
            /\ saved' = [saved EXCEPT ![job.wall][job.screen] = job.plan]
        BY <2>6 DEF ReaderSaves
      <3>2. saved'[w][s] = IF Pending(w, s) THEN job.plan ELSE saved[w][s]
        BY <3>1 DEF Pending, LinkInv, TypeOK
      <3>3. QED
        BY <1>1, <2>2, <3>1, <3>2 DEF ScreenInv, Pending, Resending
    <2>7. QED
      BY <1>3, <2>3, <2>4, <2>5, <2>6 DEF ReaderWorks
  <1>4. QED
    BY <1>2, <1>3

LEMMA KeeperScreens ==
    ASSUME LinkInv, KeeperWakes \/ KeeperLocks \/ KeeperWorks,
           NEW w \in Walls, NEW s \in Screens, losses' = 0, Seen(w)'
    PROVE  ScreenInv(w, s)'
  <1> USE DEF locks, reader, keeper, tables, wall, count
  <1>1. UNCHANGED <<rpc, job, saved, up, life>>
    BY DEF KeeperWakes, KeeperLocks, KeeperWorks, KeeperAsks, KeeperChecks, KeeperSendsCut,
       KeeperSendsMap, KeeperUnlocks
  <1>2. losses = 0
    <2>1. losses \in Nat
      BY DEF LinkInv, TypeOK
    <2>2. losses' \in {losses, losses + 1}
      BY DEF KeeperWakes, KeeperLocks, KeeperWorks, KeeperAsks, KeeperChecks, KeeperSendsCut,
         KeeperSendsMap, KeeperUnlocks, KeeperSends
    <2>3. QED
      BY <2>1, <2>2
  <1>3. CASE KeeperWakes \/ KeeperLocks \/ KeeperAsks \/ KeeperUnlocks
    <2>1. /\ UNCHANGED <<tvState, display>>
          /\ kpc \notin {"cut", "map"} /\ kpc' \notin {"cut", "map"}
      BY <1>3 DEF KeeperWakes, KeeperLocks, KeeperAsks, KeeperUnlocks
    <2>2. ScreenInv(w, s)
      BY <1>1, <1>2, <2>1 DEF Seen, LinkInv, ScreensInv
    <2>3. QED
      BY <1>1, <2>1, <2>2 DEF ScreenInv, Pending, Resending
  <1>4. CASE KeeperChecks
    <2>1. kpc = "check" /\ kpc' \in {"next", "cut"} /\ UNCHANGED <<kwall, display>> /\ rpc = "sleep"
      BY <1>4, Apart DEF KeeperChecks, LinkInv
    <2>2. CASE Restarted /\ w = kwall
      <3>1. ~Resending(w, s)' => saved[w][s] = NoPlan
        <4>1. CASE HasPlan(saved[kwall], 1) = {}
          <5>1. s >= 1
            BY DEF Screens
          <5>2. QED
            BY <2>2, <4>1, <5>1 DEF HasPlan
        <4>2. CASE HasPlan(saved[kwall], 1) # {}
          <5>1. kpc' = "cut" /\ kscreen' = Lowest(HasPlan(saved[kwall], 1))
            BY <1>4, <2>2, <4>2 DEF KeeperChecks
          <5>2. /\ kscreen' \in Screens
                /\ \A x \in Screens : x >= 1 /\ x < kscreen' => saved[w][x] = NoPlan
            BY <2>2, <4>2, <5>1, FirstPlan
          <5>3. ~(s >= kscreen') => s >= 1 /\ s < kscreen'
            BY <5>2 DEF Screens
          <5>4. QED
            BY <2>1, <2>2, <5>1, <5>2, <5>3 DEF Resending
        <4>3. QED
          BY <4>1, <4>2
      <3>2. QED
        BY <1>1, <2>1, <3>1 DEF ScreenInv, Pending
    <2>3. CASE ~(Restarted /\ w = kwall)
      <3>1. tvState'[w] = tvState[w]
        BY <1>4, <2>3 DEF KeeperChecks, LinkInv, TypeOK
      <3>2. ScreenInv(w, s)
        BY <1>1, <1>2, <3>1 DEF Seen, LinkInv, ScreensInv
      <3>3. ~Resending(w, s) /\ ~(kpc' = "map")
        BY <2>1 DEF Resending
      <3>4. QED
        BY <1>1, <2>1, <3>2, <3>3 DEF ScreenInv, Pending
    <2>4. QED
      BY <2>2, <2>3
  <1>5. CASE KeeperSendsCut \/ KeeperSendsMap
    <2>1. PICK half \in {"cut", "map"} :
              /\ kpc = half /\ UNCHANGED <<tvState, kwall>>
              /\ Delivered(kwall, kscreen, half, copy[kscreen])
              /\ half = "cut" => kpc' = "map" /\ UNCHANGED kscreen
              /\ half = "map" =>
                    IF HasPlan(copy, kscreen + 1) = {} THEN kpc' = "next" /\ UNCHANGED kscreen
                    ELSE kpc' = "cut" /\ kscreen' = Lowest(HasPlan(copy, kscreen + 1))
      <3>1. losses \in Nat
        BY DEF LinkInv, TypeOK
      <3>2. losses' # losses + 1
        BY <1>2, <3>1
      <3>3. QED
        BY <1>5, <3>2 DEF KeeperSendsCut, KeeperSendsMap, KeeperSends
    <2>2. Seen(w) /\ ScreenInv(w, s)
      BY <1>1, <1>2, <2>1 DEF Seen, LinkInv, ScreensInv
    <2>3. copy = saved[kwall] /\ rpc = "sleep"
      BY <2>1, Apart DEF LinkInv, PlansInv
    <2>4. /\ display \in Displays /\ kwall \in Walls /\ kscreen \in Screens
          /\ copy[kscreen] \in Plans
      BY DEF LinkInv, TypeOK, Displays, Halves
    <2>5. CASE w = kwall /\ s = kscreen
      <3>1. display'[w][s] = [display[w][s] EXCEPT ![half] = saved[w][s]]
        BY <2>1, <2>2, <2>3, <2>4, <2>5, DeliveredShows DEF Seen
      <3>2. display[w][s] \in Halves
        BY <2>4 DEF Displays
      <3>3. CASE half = "cut"
        <4>1. display'[w][s].cut = saved[w][s]
          BY <3>1, <3>2, <3>3 DEF Halves
        <4>2. Resending(w, s)'
          BY <2>1, <2>4, <2>5, <3>3 DEF Resending, Screens
        <4>3. QED
          BY <1>1, <2>3, <4>1, <4>2 DEF ScreenInv, Pending
      <3>4. CASE half = "map"
        <4>1. display[w][s].cut = saved[w][s]
          BY <2>1, <2>2, <2>5, <3>4 DEF ScreenInv
        <4>2. display'[w][s] = [cut |-> saved[w][s], map |-> saved[w][s]]
          BY <3>1, <3>2, <3>4, <4>1 DEF Halves
        <4>3. kpc' # "map"
          BY <2>1, <3>4
        <4>4. QED
          BY <1>1, <2>3, <4>2, <4>3 DEF ScreenInv, Pending
      <3>5. QED
        BY <3>3, <3>4
    <2>6. CASE w # kwall \/ s # kscreen
      <3>1. display'[w][s] = display[w][s]
        BY <2>1, <2>4, <2>6, DeliveredElsewhere
      <3>2. CASE half = "cut"
        <4>1. Resending(w, s)' <=> Resending(w, s)
          BY <2>1, <3>2 DEF Resending
        <4>2. QED
          BY <1>1, <2>1, <2>2, <2>3, <2>6, <3>1, <3>2, <4>1 DEF ScreenInv, Pending
      <3>3. CASE half = "map"
        <4>1. (Resending(w, s) /\ ~Resending(w, s)') => saved[w][s] = NoPlan
          <5> SUFFICES ASSUME w = kwall, s >= kscreen, ~Resending(w, s)' PROVE saved[w][s] = NoPlan
            BY DEF Resending
          <5>1. s >= kscreen + 1
            BY <2>4, <2>6 DEF Screens
          <5>2. CASE HasPlan(copy, kscreen + 1) = {}
            BY <2>3, <5>1, <5>2 DEF HasPlan
          <5>3. CASE HasPlan(copy, kscreen + 1) # {}
            <6>1. kpc' = "cut" /\ kscreen' = Lowest(HasPlan(copy, kscreen + 1))
              BY <2>1, <3>3, <5>3
            <6>2. /\ kscreen' \in Screens
                  /\ \A x \in Screens : x >= kscreen + 1 /\ x < kscreen' => copy[x] = NoPlan
              BY <5>3, <6>1, FirstPlan
            <6>3. ~(s >= kscreen')
              BY <2>1, <6>1 DEF Resending
            <6>4. s < kscreen'
              BY <6>2, <6>3 DEF Screens
            <6>5. QED
              BY <2>3, <5>1, <6>2, <6>4
          <5>4. QED
            BY <5>2, <5>3
        <4>2. kpc' # "map"
          BY <2>1, <3>3
        <4>3. QED
          BY <1>1, <2>2, <2>3, <3>1, <4>1, <4>2 DEF ScreenInv, Pending
      <3>4. QED
        BY <3>2, <3>3
    <2>7. QED
      BY <2>5, <2>6
  <1>6. QED
    BY <1>3, <1>4, <1>5 DEF KeeperWorks

\* A wall that crashes is not up, one that boots is in a life not seen.
LEMMA OtherScreens ==
    ASSUME LinkInv, groupConfigureRefreshCall \/ \E v \in Walls : Crashes(v) \/ Boots(v),
           NEW w \in Walls, NEW s \in Screens, losses' = 0, Seen(w)'
    PROVE  ScreenInv(w, s)'
  <1> USE DEF locks, reader, keeper, tables, wall, count
  <1>1. UNCHANGED <<rpc, job, saved, kpc, kwall, kscreen, tvState, losses>>
    BY DEF groupConfigureRefreshCall, Crashes, Boots
  <1>2. UNCHANGED <<up[w], life[w], display[w]>>
    <2>1. CASE groupConfigureRefreshCall
      BY <2>1 DEF groupConfigureRefreshCall
    <2>2. ASSUME NEW v \in Walls, Crashes(v) PROVE UNCHANGED <<up[w], life[w], display[w]>>
      <3>1. w # v
        BY <2>2 DEF Crashes, Seen, LinkInv, TypeOK
      <3>2. QED
        BY <2>2, <3>1 DEF Crashes, LinkInv, TypeOK
    <2>3. ASSUME NEW v \in Walls, Boots(v) PROVE UNCHANGED <<up[w], life[w], display[w]>>
      <3>1. w # v
        <4>1. tvState[v] <= life[v] /\ tvState[v] \in Nat /\ life[v] \in Nat
          BY LinkAssumption DEF LinkInv, LivesInv, TypeOK
        <4>2. life'[v] = life[v] + 1
          BY <2>3 DEF Boots, LinkInv, TypeOK
        <4>3. tvState'[v] # life'[v]
          BY <1>1, <4>1, <4>2
        <4>4. QED
          BY <4>3 DEF Seen
      <3>2. QED
        BY <2>3, <3>1 DEF Boots, LinkInv, TypeOK
    <2>4. QED
      BY <2>1, <2>2, <2>3
  <1>3. ScreenInv(w, s)
    BY <1>1, <1>2 DEF Seen, LinkInv, ScreensInv
  <1>4. QED
    BY <1>1, <1>2, <1>3 DEF ScreenInv, Pending, Resending

LEMMA LinkStep == LinkInv /\ [Next]_vars => LinkInv'
  <1> SUFFICES ASSUME LinkInv, [Next]_vars PROVE LinkInv'
    OBVIOUS
  <1>1. CASE Next
    <2>1. TypeOK' /\ LocksInv' /\ LivesInv' /\ PlansInv'
      BY <1>1, TypesKept, LocksKept, LivesKept, PlansKept DEF LinkInv
    <2>2. ScreensInv'
      BY <1>1, ReaderScreens, KeeperScreens, OtherScreens DEF ScreensInv, Next
    <2>3. QED
      BY <2>1, <2>2 DEF LinkInv
  <1>2. CASE UNCHANGED vars
    BY <1>2 DEF vars, locks, reader, keeper, tables, wall, count, LinkInv, TypeOK, LocksInv, LivesInv,
       PlansInv, ScreensInv, Seen, ScreenInv, Pending, Resending
  <1>3. QED
    BY <1>1, <1>2

(* Every variable of the two threads, the tables and the walls keeps to its  *)
(* range: no index of a wall or screen is ever out of the loops' bounds.     *)
THEOREM LinkTypes == Spec => []TypeOK
  <1>1. LinkInv => TypeOK
    BY DEF LinkInv
  <1>2. QED
    BY <1>1, LinkStarts, LinkStep, PTL DEF Spec

(* With m_lockClient free and nothing lost, a wall whose life was seen shows *)
(* exactly what is saved for it (SendOldScreeninfo, ScreenSwitch2TVWALL).    *)
THEOREM SeenWallsInStepHolds == Spec => []SeenWallsInStep
  <1>1. LinkInv => SeenWallsInStep
    BY Apart DEF LinkInv, ScreensInv, ScreenInv, SeenWallsInStep, Seen, Pending, Resending
  <1>2. QED
    BY <1>1, LinkStarts, LinkStep, PTL DEF Spec

-----------------------------------------------------------------------------
(* TvWallLink implements WallMemory. *)

LEMMA MemoryStarts == Init => Memory!Init
  BY DEF Init, Memory!Init, NoPlans, Dark

\* A half that is sent the plan asked for last takes it up, or stays.
LEMMA SentIsAsked ==
    ASSUME NEW w \in Walls, NEW s \in Screens, NEW half \in {"cut", "map"},
           Delivered(w, s, half, asked[w][s]), UNCHANGED asked
    PROVE  [Memory!Next]_Memory!memory
  <1>1. CASE ~up[w]
    BY <1>1 DEF Delivered, Memory!memory
  <1>2. CASE up[w] /\ half = "cut"
    BY <1>2 DEF Delivered, Memory!Next, Memory!TakeUp
  <1>3. CASE up[w] /\ half = "map"
    BY <1>3 DEF Delivered, Memory!Next, Memory!TakeUp
  <1>4. QED
    BY <1>1, <1>2, <1>3

LEMMA MemoryStep == LinkInv /\ [Next]_vars => [Memory!Next]_Memory!memory
  <1> SUFFICES ASSUME LinkInv, [Next]_vars PROVE [Memory!Next]_Memory!memory
    OBVIOUS
  <1> USE DEF locks, reader, keeper, tables, wall, count
  <1>1. CASE UNCHANGED <<asked, display>>
    BY <1>1 DEF Memory!memory
  <1>2. ASSUME NEW w \in Walls, NEW s \in Screens, ReaderSwitches(w, s)
        PROVE  Memory!Next
    <2>1. asks + 1 \in Plans \ {NoPlan}
      BY <1>2, LinkAssumption DEF ReaderSwitches, LinkInv, TypeOK, Plans, NoPlan
    <2>2. Memory!Ask(w, s)
      BY <1>2, <2>1 DEF ReaderSwitches, Memory!Ask
    <2>3. QED
      BY <2>2 DEF Memory!Next
  <1>3. CASE ReaderSendsCut \/ ReaderSendsMap
    <2>1. PICK half \in {"cut", "map"} : Delivered(job.wall, job.screen, half, job.plan)
      BY <1>3 DEF ReaderSendsCut, ReaderSendsMap, ReaderSends
    <2>2. UNCHANGED asked /\ job.plan = asked[job.wall][job.screen]
      BY <1>3 DEF ReaderSendsCut, ReaderSendsMap, LinkInv, PlansInv
    <2>3. job.wall \in Walls /\ job.screen \in Screens
      BY DEF LinkInv, TypeOK
    <2>4. QED
      BY <2>1, <2>2, <2>3, SentIsAsked
  <1>4. CASE KeeperSendsCut \/ KeeperSendsMap
    <2>1. UNCHANGED asked
      BY <1>4 DEF KeeperSendsCut, KeeperSendsMap
    <2>2. CASE UNCHANGED display
      BY <1>1, <2>1, <2>2
    <2>3. CASE ~UNCHANGED display
      <3>1. PICK half \in {"cut", "map"} : Delivered(kwall, kscreen, half, copy[kscreen])
        BY <1>4, <2>3 DEF KeeperSendsCut, KeeperSendsMap, KeeperSends
      <3>2. kwall \in Walls /\ kscreen \in Screens
        BY DEF LinkInv, TypeOK
      <3>3. kpc \in {"cut", "map"} /\ rpc = "sleep"
        BY <1>4, Apart DEF KeeperSendsCut, KeeperSendsMap, LinkInv
      <3>4. copy[kscreen] = asked[kwall][kscreen]
        BY <3>2, <3>3 DEF LinkInv, PlansInv, Pending
      <3>5. QED
        BY <2>1, <3>1, <3>2, <3>4, SentIsAsked
    <2>4. QED
      BY <2>2, <2>3
  <1>5. ASSUME NEW w \in Walls, Crashes(w) PROVE Memory!Next
    BY <1>5 DEF Crashes, Dark, Memory!Next, Memory!Dark
  <1>6. \/ UNCHANGED <<asked, display>> \/ ReaderSendsCut \/ ReaderSendsMap
        \/ KeeperSendsCut \/ KeeperSendsMap
        \/ \E w \in Walls : Crashes(w) \/ \E s \in Screens : ReaderSwitches(w, s)
    BY DEF Next, vars, ReaderLocks, ReaderWorks, ReaderSaves, ReaderUnlocks, ReaderRefreshes,
       ReaderInits, ReaderLoaded, KeeperWakes, KeeperLocks, KeeperWorks, KeeperAsks, KeeperChecks,
       KeeperUnlocks, Boots, groupConfigureRefreshCall
  <1>7. QED
    BY <1>1, <1>2, <1>3, <1>4, <1>5, <1>6

(* No screen is ever put back to an older plan than the one asked for last,  *)
(* by no resend and no switch, whatever crashes, losses and refreshes fall   *)
(* between their messages: the program implements WallMemory.                *)
THEOREM NeverAnOlderPlanHolds == Spec => NeverAnOlderPlan
  <1>1. QED
    BY MemoryStarts, MemoryStep, LinkStarts, LinkStep, PTL DEF Spec, NeverAnOlderPlan, Memory!Spec

-----------------------------------------------------------------------------
(* From the PLC to the TV wall.                                              *)

\* Until a refresh forgets the saved plans they are the ones asked for.
AskedInv ==
    refreshes = 0 =>
        /\ ~groupDataRefresh /\ rpc \notin {"init", "load"}
        /\ \A w \in Walls, s \in Screens : saved[w][s] = asked[w][s] \/ Pending(w, s)

LEMMA AskedStart == Init => AskedInv
  BY DEF Init, AskedInv, NoPlans

LEMMA AskedStep == LinkInv /\ AskedInv /\ [Next]_vars => AskedInv'
  <1> SUFFICES ASSUME LinkInv, AskedInv, [Next]_vars, refreshes' = 0
               PROVE  /\ ~groupDataRefresh' /\ rpc' \notin {"init", "load"}
                      /\ \A w \in Walls, s \in Screens :
                           saved'[w][s] = asked'[w][s] \/ Pending(w, s)'
    BY DEF AskedInv
  <1> DEFINE Done == /\ ~groupDataRefresh' /\ rpc' \notin {"init", "load"}
                     /\ \A w \in Walls, s \in Screens :
                          saved'[w][s] = asked'[w][s] \/ Pending(w, s)'
  <1>1. ASSUME refreshes = 0
        PROVE  /\ ~groupDataRefresh /\ rpc \notin {"init", "load"}
               /\ \A w \in Walls, s \in Screens : saved[w][s] = asked[w][s] \/ Pending(w, s)
    BY <1>1 DEF AskedInv
  <1>2. refreshes \in Nat /\ TypeOK
    BY LinkAssumption DEF LinkInv, TypeOK
  <1>3. ASSUME UNCHANGED <<rpc, job, saved, asked, groupDataRefresh, refreshes>> PROVE Done
    BY <1>1, <1>3 DEF Pending
  <1> USE DEF locks, reader, keeper, tables, wall, count
  <1>4. CASE ReaderLocks \/ ReaderUnlocks \/ ReaderSendsCut \/ ReaderSendsMap
    BY <1>1, <1>4 DEF ReaderLocks, ReaderUnlocks, ReaderSendsCut, ReaderSendsMap, Pending
  <1>5. ASSUME NEW w \in Walls, NEW s \in Screens, ReaderSwitches(w, s) PROVE Done
    <2>1. /\ rpc = "reading" /\ rpc' = "cut" /\ job' = [wall |-> w, screen |-> s, plan |-> asks + 1]
          /\ asked' = [asked EXCEPT ![w][s] = asks + 1]
          /\ UNCHANGED <<saved, groupDataRefresh, refreshes>>
      BY <1>5 DEF ReaderSwitches
    <2>2. \A v \in Walls, r \in Screens : saved[v][r] = asked[v][r]
      BY <1>1, <2>1 DEF Pending
    <2>3. \A v \in Walls, r \in Screens : <<v, r>> # <<w, s>> => asked'[v][r] = asked[v][r]
      BY <1>2, <2>1 DEF TypeOK
    <2>4. Pending(w, s)'
      BY <2>1 DEF Pending
    <2> QED
      BY <1>1, <2>1, <2>2, <2>3, <2>4
  <1>6. CASE ReaderSaves
    <2>1. /\ rpc = "save" /\ rpc' = "reading"
          /\ saved' = [saved EXCEPT ![job.wall][job.screen] = job.plan]
          /\ UNCHANGED <<asked, groupDataRefresh, refreshes>>
      BY <1>6 DEF ReaderSaves
    <2>2. job.plan = asked[job.wall][job.screen] /\ job.wall \in Walls /\ job.screen \in Screens
      BY <1>2, <2>1 DEF LinkInv, PlansInv, TypeOK
    <2>3. \A v \in Walls, r \in Screens : saved'[v][r] = asked[v][r]
      BY <1>1, <1>2, <2>1, <2>2 DEF Pending, TypeOK
    <2> QED
      BY <1>1, <2>1, <2>3
  <1>7. CASE ReaderRefreshes \/ ReaderInits \/ ReaderLoaded
    BY <1>1, <1>7 DEF ReaderRefreshes, ReaderInits, ReaderLoaded
  <1>8. CASE KeeperWakes \/ KeeperLocks \/ KeeperWorks
    BY <1>3, <1>8 DEF KeeperWakes, KeeperLocks, KeeperWorks, KeeperAsks, KeeperChecks,
       KeeperSendsCut, KeeperSendsMap, KeeperUnlocks
  <1>9. ASSUME NEW w \in Walls, Crashes(w) \/ Boots(w) PROVE Done
    BY <1>3, <1>9 DEF Crashes, Boots
  <1>10. CASE groupConfigureRefreshCall
    BY <1>2, <1>10 DEF groupConfigureRefreshCall
  <1>11. CASE UNCHANGED vars
    BY <1>3, <1>11 DEF vars
  <1> QED
    BY <1>4, <1>5, <1>6, <1>7, <1>8, <1>9, <1>10, <1>11 DEF Next, ReaderWorks

(* As long as no refresh is asked for and no message of the keep-alive       *)
(* thread is lost, a TV wall that runs and whose state the keep-alive thread *)
(* has seen shows, whenever m_lockClient is free, the plan asked for last on *)
(* every screen, in both halves: switch, save, restart and resend leave no   *)
(* gap between them (ScreenSwitch2TVWALL, SendOldScreeninfo).                *)
SeenWallsShowLatest ==
    \A w \in Walls :
        (lockClient = NoOne /\ losses = 0 /\ refreshes = 0 /\ up[w] /\ tvState[w] = life[w])
            => \A s \in Screens :
                 asked[w][s] # NoPlan
                   => display[w][s] = [cut |-> asked[w][s], map |-> asked[w][s]]
THEOREM SeenWallsShowLatestHolds == Spec => []SeenWallsShowLatest
  <1>1. LinkInv => SeenWallsInStep
    BY Apart DEF LinkInv, ScreensInv, ScreenInv, SeenWallsInStep, Seen, Pending, Resending
  <1>2. LinkInv /\ lockClient = NoOne => rpc = "sleep"
    BY DEF LinkInv, LocksInv, TypeOK, Reader, NoOne, Keeper
  <1>3. LinkInv /\ AskedInv => SeenWallsShowLatest
    BY <1>1, <1>2 DEF AskedInv, Pending, SeenWallsInStep, SeenWallsShowLatest
  <1>4. QED
    BY <1>3, LinkStarts, LinkStep, AskedStart, AskedStep, PTL DEF Spec
=============================================================================
