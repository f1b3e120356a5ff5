--------------------------- MODULE CranePollProofs --------------------------
(***************************************************************************)
(* What is proved of CranePoll, for all cranes, cameras, consoles, tables, *)
(* lists and DB images, and any number of losses, refreshes and restarts.  *)
(***************************************************************************)
EXTENDS CranePoll, Numbers, FiniteSetTheorems, TLAPS

-----------------------------------------------------------------------------
(* Preset points. *)

\* Failures count on while a point is to be called, so that calls settle; a
\* point that is not was called, or has used up its calls.
PointInv(g, i) ==
    /\ erroTime[g][i] \in 0..Gives + 2 /\ tries[g][i] \in 0..Gives + 2
    /\ i \in pointStatuse[g] =>
          /\ tries[g][i] = erroTime[g][i] /\ erroTime[g][i] <= Gives + 1
          /\ asked[g] <= erroTime[g][i]
    /\ i \notin pointStatuse[g] =>
          \/ /\ <<g, i>> \in away
             /\ erroTime[g][i] <= Gives + 1 /\ tries[g][i] <= erroTime[g][i]
          \/ tries[g][i] = Gives + 2 /\ erroTime[g][i] = Gives + 2

PointsInv ==
    /\ DOMAIN pointStatuse = Cranes /\ DOMAIN resetDone = Cranes
    /\ DOMAIN erroTime = Cranes /\ \A g \in Cranes : DOMAIN erroTime[g] = Ipcs
    /\ DOMAIN tries = Cranes /\ \A g \in Cranes : DOMAIN tries[g] = Ipcs
    /\ asked \in [Cranes -> 0..Gives + 2]
    /\ \A g \in Cranes : \A i \in Callable(g) : PointInv(g, i)

LEMMA CallableIpcs == ASSUME NEW g \in Cranes PROVE Callable(g) \subseteq CallPoints[g] \cap Ipcs
  BY CallAssumption DEF Callable

LEMMA FreshPoints ==
    ASSUME pointStatuse' = CallPoints, DOMAIN resetDone' = Cranes,
           erroTime' = [g \in Cranes |-> [i \in Ipcs |-> 0]],
           tries' = [g \in Cranes |-> [i \in Ipcs |-> 0]],
           asked' = [g \in Cranes |-> 0]
    PROVE  PointsInv'
  <1>1. DOMAIN pointStatuse' = Cranes
    BY CallAssumption
  <1>2. ASSUME NEW g \in Cranes, NEW i \in Callable(g) PROVE PointInv(g, i)'
    BY <1>2, CallableIpcs DEF PointInv, Gives
  <1>3. asked' \in [Cranes -> 0..Gives + 2]
    BY DEF Gives
  <1>4. QED
    BY <1>1, <1>2, <1>3 DEF PointsInv, Callable

\* A poll moves the counters of its crane's points only.
LEMMA PresetPollKept ==
    ASSUME PointsInv, NEW g \in Cranes, NEW img, NEW fails, PresetPoll(g, img, fails)
    PROVE  PointsInv'
  <1> DEFINE n == IF ~img.call THEN 0 ELSE IF asked[g] = Gives + 2 THEN asked[g] ELSE asked[g] + 1
  <1>1. asked' = [asked EXCEPT ![g] = n] /\ asked[g] \in 0..Gives + 2
    BY DEF PresetPoll, PointsInv
  <1>2. asked' \in [Cranes -> 0..Gives + 2] /\ asked'[g] = n
    BY <1>1 DEF PointsInv, Gives
  <1>3. Pass(g, img, fails)
    BY DEF PresetPoll
  <1>4. CASE UNCHANGED points /\ (Callable(g) = {} \/ ~img.call)
    <2>1. ASSUME NEW h \in Cranes, NEW i \in Callable(h) PROVE PointInv(h, i)'
      <3>1. asked'[h] = asked[h] \/ asked'[h] = 0
        BY <1>1, <1>4, <2>1 DEF PointsInv
      <3>2. PointInv(h, i)
        BY <2>1 DEF PointsInv
      <3>3. QED
        BY <1>4, <3>1, <3>2 DEF PointInv, points
    <2>2. QED
      BY <1>2, <1>4, <2>1 DEF PointsInv, points, Callable
  <1>5. CASE img.call /\ CallsPoints(g, fails)
    <2> DEFINE called == Callable(g) \cap pointStatuse[g]
               failed == called \cap fails
    <2>1. /\ pointStatuse' = [pointStatuse EXCEPT ![g] =
                @ \ {i \in called : i \notin fails \/ GivenUp(g, i)}]
          /\ erroTime' = [erroTime EXCEPT ![g] = [i \in Ipcs |->
                IF i \in failed THEN @[i] + 1 ELSE @[i]]]
          /\ tries' = [tries EXCEPT ![g] = [i \in Ipcs |->
                IF i \in failed THEN @[i] + 1 ELSE IF i \in called THEN 0 ELSE @[i]]]
          /\ away' = away \cup {<<g, i>> : i \in called \ failed}
          /\ resetDone' = [resetDone EXCEPT ![g] = FALSE]
      BY <1>5 DEF CallsPoints
    <2>2. \A h \in Cranes \ {g} : UNCHANGED <<pointStatuse[h], erroTime[h], tries[h], asked[h]>>
      BY <1>1, <2>1 DEF PointsInv
    <2>3. ASSUME NEW i \in Callable(g) PROVE PointInv(g, i)'
      <3>1. PointInv(g, i) /\ i \in Ipcs
        BY <2>3, CallableIpcs DEF PointsInv
      <3>2. /\ i \in pointStatuse'[g]
                 <=> i \in pointStatuse[g] /\ ~(i \in called /\ (i \notin fails \/ GivenUp(g, i)))
            /\ erroTime'[g][i] = IF i \in failed THEN erroTime[g][i] + 1 ELSE erroTime[g][i]
            /\ tries'[g][i] = IF i \in failed THEN tries[g][i] + 1
                              ELSE IF i \in called THEN 0 ELSE tries[g][i]
            /\ <<g, i>> \in away' <=> <<g, i>> \in away \/ i \in called \ failed
        BY <2>1, <3>1 DEF PointsInv
      <3>3. asked'[g] <= asked[g] + 1
        BY <1>1, <1>2 DEF Gives
      <3>4. asked[g] \in Nat /\ asked'[g] \in Nat
        BY <1>1, <1>2 DEF PointsInv, Gives
      <3> HIDE DEF n
      <3>5. CASE i \notin pointStatuse[g]
        BY <3>1, <3>2, <3>5 DEF PointInv
      <3>6. CASE i \in pointStatuse[g] /\ i \notin fails
        BY <2>3, <3>1, <3>2, <3>6 DEF PointInv, Gives
      <3>7. CASE i \in pointStatuse[g] /\ i \in fails
        BY <2>3, <3>1, <3>2, <3>3, <3>4, <3>7 DEF PointInv, GivenUp, Gives
      <3>8. QED
        BY <3>5, <3>6, <3>7
    <2>4. ASSUME NEW h \in Cranes \ {g}, NEW i \in Callable(h) PROVE PointInv(h, i)'
      <3>1. PointInv(h, i)
        BY <2>4 DEF PointsInv
      <3>2. <<h, i>> \in away => <<h, i>> \in away'
        BY <2>1
      <3>3. QED
        BY <2>2, <3>1, <3>2 DEF PointInv
    <2>5. /\ DOMAIN pointStatuse' = Cranes /\ DOMAIN resetDone' = Cranes
          /\ DOMAIN erroTime' = Cranes /\ \A h \in Cranes : DOMAIN erroTime'[h] = Ipcs
          /\ DOMAIN tries' = Cranes /\ \A h \in Cranes : DOMAIN tries'[h] = Ipcs
      BY <2>1 DEF PointsInv
    <2>6. QED
      BY <1>2, <2>3, <2>4, <2>5 DEF PointsInv, Callable
  <1>6. CASE ~img.call /\ ~resetDone[g] /\ ResetsPoints(g, fails)
    <2> DEFINE back == Callable(g)
               over == {i \in back : i \notin fails \/ GivenUp(g, i)}
    <2>1. /\ resetDone' = [resetDone EXCEPT ![g] = TRUE]
          /\ pointStatuse' = [pointStatuse EXCEPT ![g] = @ \cup over]
          /\ erroTime' = [erroTime EXCEPT ![g] = [i \in Ipcs |->
                IF i \in over THEN 0 ELSE IF i \in back THEN @[i] + 1 ELSE @[i]]]
          /\ tries' = [tries EXCEPT ![g] = [i \in Ipcs |->
                IF i \in over THEN 0 ELSE IF i \in back THEN @[i] + 1 ELSE @[i]]]
          /\ away' = away \ {<<g, i>> : i \in back \ fails}
      BY <1>6 DEF ResetsPoints
    <2>2. \A h \in Cranes \ {g} : UNCHANGED <<pointStatuse[h], erroTime[h], tries[h], asked[h]>>
      BY <1>1, <2>1 DEF PointsInv
    <2>3. ASSUME NEW i \in Callable(g) PROVE PointInv(g, i)'
      <3>1. PointInv(g, i) /\ i \in Ipcs
        BY <2>3, CallableIpcs DEF PointsInv
      <3>2. /\ i \in pointStatuse'[g] <=> i \in pointStatuse[g] \/ i \in over
            /\ erroTime'[g][i] = IF i \in over THEN 0 ELSE erroTime[g][i] + 1
            /\ tries'[g][i] = IF i \in over THEN 0 ELSE tries[g][i] + 1
            /\ i \in over <=> i \notin fails \/ GivenUp(g, i)
            /\ <<g, i>> \in away' <=> <<g, i>> \in away /\ i \in fails
        BY <2>1, <2>3, <3>1 DEF PointsInv
      <3>3. asked'[g] = 0
        BY <1>2, <1>6
      <3> HIDE DEF n, over
      <3>4. CASE i \in over
        BY <3>1, <3>2, <3>3, <3>4 DEF PointInv, Gives
      <3>5. CASE i \notin over
        BY <3>1, <3>2, <3>3, <3>5 DEF PointInv, GivenUp, Gives
      <3>6. QED
        BY <3>4, <3>5
    <2>4. ASSUME NEW h \in Cranes \ {g}, NEW i \in Callable(h) PROVE PointInv(h, i)'
      <3>1. PointInv(h, i)
        BY <2>4 DEF PointsInv
      <3>2. <<h, i>> \in away => <<h, i>> \in away'
        BY <2>1
      <3>3. QED
        BY <2>2, <3>1, <3>2 DEF PointInv
    <2>5. /\ DOMAIN pointStatuse' = Cranes /\ DOMAIN resetDone' = Cranes
          /\ DOMAIN erroTime' = Cranes /\ \A h \in Cranes : DOMAIN erroTime'[h] = Ipcs
          /\ DOMAIN tries' = Cranes /\ \A h \in Cranes : DOMAIN tries'[h] = Ipcs
      BY <2>1 DEF PointsInv
    <2>6. QED
      BY <1>2, <2>3, <2>4, <2>5 DEF PointsInv, Callable
  <1>7. CallPoints[g] = {} => Callable(g) = {}
    BY DEF Callable
  <1>8. QED
    BY <1>3, <1>4, <1>5, <1>6, <1>7 DEF Pass, ResetsPoints

LEMMA PointsStart == Init => PointsInv
  <1> SUFFICES ASSUME Init PROVE PointsInv
    OBVIOUS
  <1>1. ASSUME NEW g \in Cranes, NEW i \in Callable(g) PROVE PointInv(g, i)
    BY <1>1, CallableIpcs DEF PointInv, Gives, Init, PresetInit
  <1>2. QED
    BY <1>1, CallAssumption DEF Init, PresetInit, PointsInv, Gives

LEMMA PointsStep == PointsInv /\ [Next]_vars => PointsInv'
  <1> SUFFICES ASSUME PointsInv, [Next]_vars PROVE PointsInv'
    OBVIOUS
  <1>1. CASE UNCHANGED preset
    BY <1>1 DEF preset, points, PointsInv, PointInv, Callable
  <1>2. CASE Refreshes
    BY <1>2, FreshPoints DEF Refreshes, PresetRefresh, PointsInv
  <1>3. ASSUME NEW g \in Cranes, Poll(g), ~UNCHANGED preset PROVE PointsInv'
    BY <1>3, PresetPollKept DEF Poll, Operates
  <1>4. QED
    BY <1>1, <1>2, <1>3 DEF Next, Restarts, vars

(* A point is no longer to be called only when it was called with success,   *)
(* or seven commands have failed in a row, for any lists, calls and failures *)
(* (PresetPointCall).                                                        *)
THEOREM CalledOrGivenUpHolds == Spec => []CalledOrGivenUp
  <1>1. PointsInv => CalledOrGivenUp
    BY DEF PointsInv, PointInv, CalledOrGivenUp
  <1>2. QED
    BY <1>1, PointsStart, PointsStep, PTL DEF Spec

(* Seven polls in a row with the call bit set are enough for every camera of *)
(* any list to be called or given up, whatever failed before                 *)
(* (PresetPointCall).                                                        *)
THEOREM CallsSettleHolds == Spec => []CallsSettle
  <1>1. PointsInv => CallsSettle
    <2> SUFFICES ASSUME PointsInv, NEW g \in Cranes, asked[g] = Gives + 2,
                        NEW i \in Callable(g), i \in pointStatuse[g]
                 PROVE  FALSE
      BY DEF CallsSettle
    <2>1. asked[g] <= erroTime[g][i] /\ erroTime[g][i] <= Gives + 1 /\ erroTime[g][i] \in 0..Gives + 2
      BY DEF PointsInv, PointInv
    <2>2. QED
      BY <2>1 DEF Gives
  <1>2. QED
    BY <1>1, PointsStart, PointsStep, PTL DEF Spec

-----------------------------------------------------------------------------
(* Free cuts. *)

\* What an entry remembers of a camera and a console there are is what was
\* sent last, unless that is known to have gone wrong.
EntryInv(g, k) ==
    (/\ <<g, ipcIndex[g][k]>> \in Known /\ HasWall(switchGroup[g][k]) /\ <<g, k>> \notin late)
        => last[g][k] = <<switchGroup[g][k], ipcIndex[g][k]>>

\* A free cut that arrived last in a window is the one its entry would resend.
ResendInv(g, k) ==
    (/\ sentTo[g][k] \in WallConsoles /\ <<g, k>> \notin late
     /\ latest[sentTo[g][k]][k][1] = g /\ latest[sentTo[g][k]][k][2] # 0)
        => latest[sentTo[g][k]][k] = <<g, sentIpc[g][k]>>

CutsInv ==
    /\ DOMAIN bound = Cranes /\ DOMAIN plc = Cranes
    /\ DOMAIN ipcIndex = Cranes /\ DOMAIN switchGroup = Cranes /\ DOMAIN last = Cranes
    /\ DOMAIN sentTo = Cranes /\ DOMAIN sentIpc = Cranes /\ DOMAIN window = WallConsoles
    /\ \A g \in Cranes, k \in Cuts : EntryInv(g, k) /\ ResendInv(g, k)
    /\ FreeCutsCurrent

LEMMA NoWallIsNone == ~HasWall(0) /\ NoWall \notin WallConsoles /\ \A g \in Cranes : <<g, 0>> \notin Known
  <1>1. 0 \notin WallConsoles
    BY CraneAssumption
  <1>2. 0 \notin Ipcs
    BY DEF Ipcs
  <1>3. QED
    BY <1>1, <1>2, CraneAssumption DEF HasWall, NoWall

LEMMA CutsStart == Init => CutsInv
  <1> SUFFICES ASSUME Init PROVE CutsInv
    OBVIOUS
  <1> USE NoWallIsNone DEF Init, CutsInit, PerEntry
  <1>1. \A g \in Cranes, k \in Cuts : EntryInv(g, k) /\ ResendInv(g, k)
    BY DEF EntryInv, ResendInv
  <1>2. FreeCutsCurrent
    BY DEF FreeCutsCurrent
  <1>3. QED
    BY <1>1, <1>2 DEF CutsInv, AllDark

LEMMA CutsRefreshKept == ASSUME CutsInv, Refreshes PROVE CutsInv'
  <1>1. /\ ipcIndex' = PerEntry(0) /\ sentTo' = PerEntry(NoWall) /\ sentIpc' = PerEntry(0)
        /\ switchGroup' = [g \in Cranes |-> [k \in Cuts |-> g]]
        /\ UNCHANGED <<bound, plc, window, last, late>>
    BY DEF Refreshes, CutsRefresh
  <1>2. \A g \in Cranes, k \in Cuts : EntryInv(g, k)' /\ ResendInv(g, k)'
    BY <1>1, NoWallIsNone DEF EntryInv, ResendInv, PerEntry
  <1>3. FreeCutsCurrent'
    BY <1>1 DEF CutsInv, FreeCutsCurrent, HasWall
  <1>4. QED
    BY <1>1, <1>2, <1>3 DEF CutsInv, PerEntry

\* What a poll makes of one entry of its crane.
Arrived(g, k, img, lost) == Sent(g, k, img) /\ lost # <<k.index, "cut">>

LEMMA EntryPolled ==
    ASSUME CutsInv, NEW g \in Cranes, NEW img, NEW lost, CutsPoll(g, img, lost), NEW k \in Cuts
    PROVE  /\ ipcIndex'[g][k] = NewIpcIndex(g, k, img)
           /\ switchGroup'[g][k] = NewSwitchGroup(g, k, img)
           /\ sentTo'[g][k] = IF Resolved(g, k, img) THEN CutConsole(g, img) ELSE sentTo[g][k]
           /\ sentIpc'[g][k] = IF Resolved(g, k, img) THEN CutIpc(g, k, img) ELSE sentIpc[g][k]
           /\ last'[g][k] = IF Arrived(g, k, img, lost) THEN <<CutConsole(g, img), CutIpc(g, k, img)>>
                            ELSE last[g][k]
           /\ <<g, k>> \in late' <=>
                 \/ Resolved(g, k, img) /\ (~Arrived(g, k, img, lost) \/ img.console = 0)
                 \/ <<g, k>> \in late /\ ~Arrived(g, k, img, lost)
  <1> DEFINE came(x) == Sent(g, x, img) /\ lost # <<x.index, "cut">>
  <1>1. /\ ipcIndex' = [ipcIndex EXCEPT ![g] = [x \in Cuts |-> NewIpcIndex(g, x, img)]]
        /\ switchGroup' = [switchGroup EXCEPT ![g] = [x \in Cuts |-> NewSwitchGroup(g, x, img)]]
        /\ sentTo' = [sentTo EXCEPT ![g] = [x \in Cuts |->
                IF Resolved(g, x, img) THEN CutConsole(g, img) ELSE @[x]]]
        /\ sentIpc' = [sentIpc EXCEPT ![g] = [x \in Cuts |->
                IF Resolved(g, x, img) THEN CutIpc(g, x, img) ELSE @[x]]]
        /\ last' = [last EXCEPT ![g] = [x \in Cuts |->
                IF came(x) THEN <<CutConsole(g, img), CutIpc(g, x, img)>> ELSE @[x]]]
        /\ late' = (late \ {<<g, x>> : x \in {y \in Cuts : came(y)}})
                     \cup {<<g, x>> : x \in {y \in Cuts : Resolved(g, y, img)
                                              /\ (~came(y) \/ img.console = 0)}}
    BY DEF CutsPoll
  <1>2. came(k) <=> Arrived(g, k, img, lost)
    BY DEF Arrived
  <1> HIDE DEF came
  <1>3. QED
    BY <1>1, <1>2 DEF CutsInv

\* The entries of the other cranes are left alone.
LEMMA OthersPolled ==
    ASSUME CutsInv, NEW g \in Cranes, NEW img, NEW lost, CutsPoll(g, img, lost)
    PROVE  /\ DOMAIN ipcIndex' = Cranes /\ DOMAIN switchGroup' = Cranes /\ DOMAIN last' = Cranes
           /\ DOMAIN sentTo' = Cranes /\ DOMAIN sentIpc' = Cranes /\ DOMAIN window' = WallConsoles
           /\ \A h \in Cranes \ {g} :
                 /\ UNCHANGED <<ipcIndex[h], switchGroup[h], sentTo[h], sentIpc[h], last[h]>>
                 /\ \A k \in Cuts : <<h, k>> \in late' <=> <<h, k>> \in late
  BY DEF CutsInv, CutsPoll

\* A window shows a free cut of the crane that was polled, one of a plan, or
\* what it showed before.
LEMMA WindowPolled ==
    ASSUME NEW g \in Cranes, NEW img, NEW lost, CutsPoll(g, img, lost),
           NEW c \in WallConsoles, NEW k \in Cuts
    PROVE  IF c = CutConsole(g, img) /\ Arrived(g, k, img, lost)
           THEN latest'[c][k] = <<g, CutIpc(g, k, img)>>
           ELSE latest'[c][k] = latest[c][k] \/ latest'[c][k][2] = 0
  <1> DEFINE came(x) == Sent(g, x, img) /\ lost # <<x.index, "cut">>
             before == AfterPlan(latest, g, img)
  <1>1. latest' = [d \in WallConsoles |-> [x \in Cuts |->
            IF d = CutConsole(g, img) /\ came(x) THEN <<g, CutIpc(g, x, img)>> ELSE before[d][x]]]
    BY DEF CutsPoll
  <1>2. before[c][k] = latest[c][k] \/ before[c][k] \in {Dark, Plan(g)}
    BY DEF AfterPlan
  <1>3. came(k) <=> Arrived(g, k, img, lost)
    BY DEF Arrived
  <1> HIDE DEF came, before
  <1>4. QED
    BY <1>1, <1>2, <1>3 DEF Dark, Plan

LEMMA CutsPollKept ==
    ASSUME CutsInv, NEW g \in Cranes, NEW img, NEW lost, CutsPoll(g, img, lost),
           bound' = [bound EXCEPT ![g] = img.console], plc' = [plc EXCEPT ![g] = img]
    PROVE  CutsInv'
  <1>1. \A h \in Cranes \ {g}, k \in Cuts : EntryInv(h, k)'
    BY OthersPolled, ZenonT(40) DEF CutsInv, EntryInv
  <1>2. ASSUME NEW k \in Cuts PROVE EntryInv(g, k)'
    <2> SUFFICES ASSUME <<g, ipcIndex'[g][k]>> \in Known, HasWall(switchGroup'[g][k]), <<g, k>> \notin late'
                 PROVE  last'[g][k] = <<switchGroup'[g][k], ipcIndex'[g][k]>>
      BY DEF EntryInv, HasWall
    <2> USE EntryPolled, NoWallIsNone
    <2>1. CASE Resolved(g, k, img)
      <3>1. Arrived(g, k, img, lost) /\ img.console # 0
        BY <2>1
      <3>2. NewSwitchGroup(g, k, img) = img.console /\ CutConsole(g, img) = img.console
        BY <2>1, <3>1 DEF NewSwitchGroup, Resolved, CutConsole
      <3>3. NewIpcIndex(g, k, img) = CutIpc(g, k, img)
        BY <2>1 DEF NewIpcIndex, Resolved, CutIpc
      <3>4. ipcIndex'[g][k] = NewIpcIndex(g, k, img) /\ switchGroup'[g][k] = NewSwitchGroup(g, k, img)
        BY EntryPolled
      <3>5. last'[g][k] = <<CutConsole(g, img), CutIpc(g, k, img)>>
        BY <3>1, EntryPolled
      <3>6. QED
        BY <3>2, <3>3, <3>4, <3>5
    <2>2. CASE ~Resolved(g, k, img)
      <3>1. ~Arrived(g, k, img, lost) /\ <<g, k>> \notin late
        BY <2>2 DEF Arrived, Sent
      <3>2. CASE Handled(g, k, img) /\ ~Named(g, k, img)
        <4>1. <<g, img.cuts[k]>> \in Known
          BY <3>2 DEF NewIpcIndex
        <4>2. QED
          BY <3>2, <4>1 DEF Named, CutIpc
      <3>3. CASE Handled(g, k, img) /\ ~HasWall(CutConsole(g, img))
        <4>1. HasWall(img.console)
          BY <3>3 DEF NewSwitchGroup
        <4>2. QED
          BY <3>3, <4>1 DEF CutConsole
      <3>4. CASE ~Handled(g, k, img)
        <4>1. UNCHANGED <<ipcIndex[g][k], switchGroup[g][k], last[g][k]>>
          BY <2>2, <3>1, <3>4 DEF NewIpcIndex, NewSwitchGroup
        <4>2. QED
          BY <3>1, <4>1 DEF CutsInv, EntryInv
      <3>5. QED
        BY <2>2, <3>2, <3>3, <3>4 DEF Resolved
    <2>3. QED
      BY <2>1, <2>2
  <1>3. ASSUME NEW h \in Cranes, NEW k \in Cuts PROVE ResendInv(h, k)'
    <2> DEFINE c == sentTo'[h][k]
    <2> SUFFICES ASSUME c \in WallConsoles, <<h, k>> \notin late',
                        latest'[c][k][1] = h, latest'[c][k][2] # 0
                 PROVE  latest'[c][k] = <<h, sentIpc'[h][k]>>
      BY DEF ResendInv
    <2> HIDE DEF c
    <2>1. CASE c = CutConsole(g, img) /\ Arrived(g, k, img, lost)
      <3>1. latest'[c][k] = <<g, CutIpc(g, k, img)>>
        BY <2>1, WindowPolled
      <3>2. \A p, q : <<p, q>>[1] = p
        OBVIOUS
      <3>3. h = g
        BY <3>1, <3>2
      <3>4. sentIpc'[g][k] = CutIpc(g, k, img)
        BY <2>1, EntryPolled DEF Arrived, Sent
      <3>5. QED
        BY <3>1, <3>3, <3>4
    <2>2. CASE ~(c = CutConsole(g, img) /\ Arrived(g, k, img, lost))
      <3>1. latest'[c][k] = latest[c][k]
        BY <2>2, WindowPolled
      <3>2. UNCHANGED <<sentTo[h][k], sentIpc[h][k]>> /\ <<h, k>> \notin late
        <4>1. CASE h # g
          BY <4>1, OthersPolled
        <4>2. CASE h = g
          <5>1. ~Resolved(g, k, img)
            BY <2>2, <4>2, EntryPolled DEF c
          <5>2. QED
            BY <4>2, <5>1, EntryPolled, ZenonT(40) DEF Arrived, Sent
        <4>3. QED
          BY <4>1, <4>2
      <3>3. ResendInv(h, k)
        BY DEF CutsInv
      <3>4. QED
        BY <3>1, <3>2, <3>3 DEF ResendInv, c
    <2>3. QED
      BY <2>1, <2>2
  <1>4. FreeCutsCurrent'
    <2>1. \A h \in Cranes \ {g} : UNCHANGED <<bound[h], plc[h]>>
      BY DEF CutsInv
    <2>2. bound'[g] = img.console /\ plc'[g] = img
      BY DEF CutsInv
    <2>3. ASSUME NEW k \in Visited, HasWall(img.console), <<g, img.cuts[k]>> \in Known, <<g, k>> \notin late'
          PROVE  last'[g][k] = <<img.console, img.cuts[k]>>
      <3> USE EntryPolled, NoWallIsNone
      <3>1. k \in Cuts /\ img.console # 0 /\ img.cuts[k] # 0
        BY <2>3 DEF Visited
      <3>2. CutIpc(g, k, img) = img.cuts[k] /\ CutConsole(g, img) = img.console
        BY <3>1 DEF CutIpc, CutConsole
      <3>3. CASE Changed(g, k, img)
        <4>1. Resolved(g, k, img)
          BY <2>3, <3>2, <3>3 DEF Resolved, Handled, Named
        <4>2. Arrived(g, k, img, lost)
          BY <2>3, <3>1, <4>1
        <4>3. last'[g][k] = <<CutConsole(g, img), CutIpc(g, k, img)>>
          BY <3>1, <4>2, EntryPolled
        <4>4. QED
          BY <3>2, <4>3
      <3>4. CASE ~Changed(g, k, img)
        <4>1. img.cuts[k] = ipcIndex[g][k] /\ img.console = switchGroup[g][k]
          BY <3>1, <3>4 DEF Changed
        <4>2. ~Resolved(g, k, img) /\ ~Arrived(g, k, img, lost)
          BY <3>4 DEF Resolved, Handled, Arrived, Sent
        <4>3. last'[g][k] = last[g][k] /\ <<g, k>> \notin late
          BY <2>3, <3>1, <4>2
        <4>4. EntryInv(g, k)
          BY <3>1 DEF CutsInv
        <4>5. QED
          BY <2>3, <4>1, <4>3, <4>4 DEF EntryInv
      <3>5. QED
        BY <3>3, <3>4
    <2>4. ASSUME NEW h \in Cranes \ {g}, NEW k \in Visited, HasWall(bound[h]),
                 <<h, plc[h].cuts[k]>> \in Known, <<h, k>> \notin late'
          PROVE  last'[h][k] = <<bound[h], plc[h].cuts[k]>>
      <3>1. last'[h] = last[h] /\ <<h, k>> \notin late
        BY <2>4, OthersPolled DEF Visited
      <3>2. QED
        BY <2>4, <3>1 DEF CutsInv, FreeCutsCurrent
    <2>5. QED
      BY <2>1, <2>2, <2>3, <2>4 DEF FreeCutsCurrent, HasWall
  <1>5. QED
    BY <1>1, <1>2, <1>3, <1>4, OthersPolled DEF CutsInv

LEMMA CutsStep == CutsInv /\ [Next]_vars => CutsInv'
  <1> SUFFICES ASSUME CutsInv, [Next]_vars PROVE CutsInv'
    OBVIOUS
  <1>1. CASE UNCHANGED <<bound, plc, memory, window, latest, last, late>>
    BY <1>1 DEF memory, CutsInv, EntryInv, ResendInv, FreeCutsCurrent, HasWall
  <1>2. CASE Refreshes
    BY <1>2, CutsRefreshKept
  <1>3. ASSUME NEW g \in Cranes, Poll(g), ~UNCHANGED <<bound, plc, memory, window, latest, last, late>>
        PROVE  CutsInv'
    <2>1. PICK img, lost :
            /\ CutsPoll(g, img, lost)
            /\ bound' = [bound EXCEPT ![g] = img.console]
            /\ plc' = [plc EXCEPT ![g] = img]
      BY <1>3 DEF Poll, Operates, cuts
    <2>2. QED
      BY <2>1, CutsPollKept
  <1>4. ASSUME NEW c \in WallConsoles, WallRestarts(c), UNCHANGED <<bound, plc>> PROVE CutsInv'
    <2>1. DOMAIN window' = WallConsoles /\ UNCHANGED <<memory, latest, last, late>>
      BY <1>4 DEF WallRestarts, CutsInv
    <2>2. QED
      BY <1>4, <2>1 DEF memory, CutsInv, EntryInv, ResendInv, FreeCutsCurrent, HasWall
  <1>5. QED
    BY <1>1, <1>2, <1>3, <1>4 DEF Next, Restarts, vars, cuts

(* The camera a DB names for a window is the one sent last for it, through   *)
(* any hand-overs, unknown cameras and consoles without a wall, unless that  *)
(* change is known not to have reached its console (FreeCutScreenToTVwall).  *)
THEOREM FreeCutsCurrentHolds == Spec => []FreeCutsCurrent
  <1>1. CutsInv => FreeCutsCurrent
    BY DEF CutsInv
  <1>2. QED
    BY <1>1, CutsStart, CutsStep, PTL DEF Spec

(* A free cut that was the last picture of a window is shown again after a   *)
(* restart of its wall, if one crane's entry remembers the wall, for any     *)
(* windows, cranes and plans (SendOldFreeCutScreeninfo).                     *)
THEOREM CutsRestoredHolds == Spec => CutsRestored
  <1> DEFINE Again == \A c \in WallConsoles, k \in Cuts, g \in Cranes :
          (/\ WallRestarts(c)
           /\ {h \in Cranes : sentTo[h][k] = c} = {g}
           /\ latest[c][k][1] = g /\ latest[c][k][2] # 0
           /\ <<g, k>> \notin late /\ k.index <= cutNum[g])
              => window'[c][k] = latest[c][k]
  <1>1. ASSUME CutsInv, NEW c \in WallConsoles, NEW k \in Cuts, NEW g \in Cranes,
               WallRestarts(c), {h \in Cranes : sentTo[h][k] = c} = {g},
               latest[c][k][1] = g, latest[c][k][2] # 0, <<g, k>> \notin late, k.index <= cutNum[g]
        PROVE  window'[c][k] = latest[c][k]
    <2>1. latest[c][k] = <<g, sentIpc[g][k]>>
      <3>1. sentTo[g][k] = c
        BY <1>1
      <3>2. QED
        BY <1>1, <3>1, ZenonT(40) DEF CutsInv, ResendInv
    <2>2. {h \in Cranes : SentAgain(h, c, k)} = {g}
      BY <1>1 DEF SentAgain
    <2>3. (CHOOSE h \in {g} : \A x \in {g} : x <= h) = g
      <3>1. g <= g
        BY DEF Cranes
      <3>2. QED
        BY <3>1
    <2>4. Restored(c, k) = <<g, sentIpc[g][k]>>
      BY <2>2, <2>3 DEF Restored
    <2>5. window'[c][k] = Restored(c, k)
      BY <1>1 DEF WallRestarts, CutsInv
    <2>6. QED
      BY <2>1, <2>4, <2>5
  <1>2. CutsInv => [Again]_cuts
    BY <1>1
  <1> HIDE DEF Again
  <1>3. QED
    BY <1>2, CutsStart, CutsStep, PTL DEF Spec, CutsRestored, Again

-----------------------------------------------------------------------------
(* Cameras. *)

LEMMA ImageFields ==
    ASSUME NEW img \in Image
    PROVE  /\ img.console \in {0} \cup Consoles
           /\ img.buttons \in [Ipcs -> SUBSET Buttons]
           /\ img.cuts \in [Cuts -> {0} \cup Ipcs]
           /\ img.plan \in {NoSwitch} \cup PlanScreens \X Splits
  BY DEF Image

Tables ==
    /\ DOMAIN selected = Cranes /\ DOMAIN ptzState = Cranes /\ DOMAIN zoomState = Cranes
    /\ DOMAIN followState = Cranes /\ DOMAIN moving = Cranes
    /\ DOMAIN zoomAt = Cranes /\ DOMAIN pointAt = Cranes
    /\ \A g \in Cranes, i \in Ipcs : DOMAIN moving[g][i] = {"pantilt", "zoom"}
    /\ DOMAIN bound = Cranes /\ plc \in [Cranes -> Image]

\* The buttons the DB of crane g, as last handled, holds down for camera i.
Held(g, i) == IF i \in plc[g].sel THEN plc[g].buttons[i] ELSE {}

\* What is remembered of a camera worked by hand is what is held down, and
\* its motion is that of the button.
HandInv(g, i) ==
    <<g, i>> \in steady =>
        /\ ptzState[g][i] = Held(g, i)
        /\ moving[g][i].pantilt = IF \E b \in Held(g, i) : Axis(b) = "pantilt"
                                  THEN CHOOSE b \in Held(g, i) : TRUE ELSE 0
        /\ moving[g][i].zoom = IF \E b \in Held(g, i) : Axis(b) = "zoom"
                               THEN CHOOSE b \in Held(g, i) : TRUE ELSE 0

\* The zoom remembered is forgotten as long as a camera is selected, and is
\* otherwise the one the camera is at; likewise the position.
HoistInv(g, i) ==
    /\ i \in selected[g] => zoomState[g][i] = NoZoom
    /\ (/\ i \notin selected[g] /\ zoomState[g][i] # NoZoom
        /\ <<g, i, "zoom">> \notin missed /\ moving[g][i].zoom = 0)
          => zoomAt[g][i] = zoomState[g][i]
    /\ (/\ followState[g][i] # NoZoom /\ <<g, i, "follow">> \notin missed
        /\ pointAt[g][i] \notin {Home, Manual})
          => pointAt[g][i] = followState[g][i]

CameraInv ==
    /\ part \in Parts /\ Tables /\ HoistFollowed
    /\ \A g \in Cranes, i \in Ipcs : HandInv(g, i) /\ HoistInv(g, i)

LEMMA CameraStart == Init => CameraInv
  <1> SUFFICES ASSUME Init PROVE CameraInv
    OBVIOUS
  <1> USE DEF Init, CameraInit, Each, AtRest
  <1>1. Blank \in Image
    BY DEF Blank, Image, NoSwitch, Heights
  <1>2. Tables
    BY <1>1 DEF Tables
  <1>3. HoistFollowed
    BY DEF HoistFollowed
  <1>4. ASSUME NEW g \in Cranes, NEW i \in Ipcs PROVE HandInv(g, i) /\ HoistInv(g, i)
    <2>1. Held(g, i) = {}
      BY <1>4 DEF Held, Blank
    <2>2. HandInv(g, i)
      BY <1>4, <2>1 DEF HandInv
    <2>3. HoistInv(g, i)
      BY <1>4 DEF HoistInv
    <2>4. QED
      BY <2>2, <2>3
  <1>5. QED
    BY <1>2, <1>3, <1>4 DEF CameraInv, Init

\* The commands of a poll are to its crane's cameras, of four kinds.
LEMMA MessagesTyped ==
    ASSUME NEW g \in Cranes, NEW img \in Image, NEW wild
    PROVE  CameraMessages(g, img, wild) \subseteq Ipcs \X {"reset", "ptz", "zoom", "follow"}
  <1> DEFINE sent == CameraMessages(g, img, wild)
  <1>1. NowSelected(g, img) \ selected[g] \subseteq Ipcs /\ Reached(g, img) \subseteq Ipcs
    BY DEF NowSelected, Reached
  <1>2. ASSUME NEW x \in sent
        PROVE  \E j \in Ipcs, kind \in {"reset", "ptz", "zoom", "follow"} : x = <<j, kind>>
    BY <1>1 DEF CameraMessages
  <1> HIDE DEF sent
  <1>3. sent \subseteq Ipcs \X {"reset", "ptz", "zoom", "follow"}
    BY <1>2
  <1>4. QED
    BY <1>3 DEF sent

\* The commands of a poll, one by one.
LEMMA MessagesSaid ==
    ASSUME NEW g \in Cranes, NEW img \in Image, NEW wild, NEW i \in Ipcs
    PROVE  LET sent == CameraMessages(g, img, wild)
               now == NowSelected(g, img)
           IN  /\ <<i, "ptz">> \in sent <=> i \in Reached(g, img) \cap img.sel /\ PtzChanges(g, i, img)
               /\ <<i, "zoom">> \in sent <=> ZoomChanges(g, i, img, now, wild)
               /\ <<i, "follow">> \in sent <=> FollowChanges(g, i, img)
               /\ <<i, "reset">> \in sent <=> i \in now \ selected[g] /\ <<g, i>> \in ResetCams
               /\ sent \subseteq Ipcs \X {"reset", "ptz", "zoom", "follow"}
  <1> DEFINE sent == CameraMessages(g, img, wild)
             now == NowSelected(g, img)
  <1>1. NowSelected(g, img) \ selected[g] \subseteq Ipcs /\ Reached(g, img) \subseteq Ipcs
    BY DEF NowSelected, Reached
  <1>2. sent \subseteq Ipcs \X {"reset", "ptz", "zoom", "follow"}
    BY MessagesTyped
  <1>3. \A kind, other, j : <<i, kind>> = <<j, other>> <=> j = i /\ kind = other
    OBVIOUS
  <1>4. <<i, "ptz">> \in sent <=> i \in Reached(g, img) \cap img.sel /\ PtzChanges(g, i, img)
    BY <1>3 DEF CameraMessages
  <1>5. <<i, "zoom">> \in sent <=> ZoomChanges(g, i, img, now, wild)
    BY <1>3 DEF CameraMessages
  <1>6. <<i, "follow">> \in sent <=> FollowChanges(g, i, img)
    BY <1>3 DEF CameraMessages
  <1>7. <<i, "reset">> \in sent <=> i \in now \ selected[g] /\ <<g, i>> \in ResetCams
    BY <1>3 DEF CameraMessages
  <1>8. QED
    BY <1>2, <1>4, <1>5, <1>6, <1>7

\* The commands of a poll that arrive.
Came(g, img, sent, lost) == {x \in sent \ {lost} : Arrives(g, x[1], x[2], img.console)}

\* What a poll notes of one camera of its crane.
LEMMA CameraNoted ==
    ASSUME NEW g \in Cranes, NEW img \in Image, NEW lost, NEW wild, NEW sent,
           sent \subseteq Ipcs \X {"reset", "ptz", "zoom", "follow"},
           CameraPoll(g, img, sent, lost, wild), NEW i \in Ipcs
    PROVE  LET got == Came(g, img, sent, lost)
           IN  /\ \A kind \in Automatic :
                     <<g, i, kind>> \in missed' <=>
                        \/ <<i, kind>> \in sent \ got
                        \/ <<g, i, kind>> \in missed /\ <<i, kind>> \notin got
               /\ <<g, i>> \in steady' =>
                     /\ <<g, i>> \in steady /\ OneButton(g, i, img)
                     /\ i \in Reached(g, img) /\ <<i, "ptz">> \notin sent \ got
  <1> DEFINE got == Came(g, img, sent, lost)
  <1>1. missed' = (missed \ {<<g, x[1], x[2]>> : x \in got})
                     \cup {<<g, x[1], x[2]>> : x \in {y \in sent \ got : y[2] \in Automatic}}
    BY DEF CameraPoll, Came
  <1>2. steady' = {x \in steady : x[1] # g \/
                (/\ OneButton(g, x[2], img) /\ x[2] \in Reached(g, img)
                 /\ <<x[2], "ptz">> \notin sent \ got)}
    BY DEF CameraPoll, Came
  <1>3. \A kind \in Automatic : <<g, i, kind>> \in missed' <=>
                                    \/ <<i, kind>> \in sent \ got
                                    \/ <<g, i, kind>> \in missed /\ <<i, kind>> \notin got
    <2> TAKE kind \in Automatic
    <2>1. \A x \in sent : <<g, x[1], x[2]>> = <<g, i, kind>> <=> x = <<i, kind>>
      OBVIOUS
    <2>2. got \subseteq sent /\ <<i, kind>>[2] = kind
      BY DEF Came
    <2> HIDE DEF got
    <2>3. QED
      BY <1>1, <2>1, <2>2
  <1> HIDE DEF got
  <1>4. <<g, i>> \in steady' =>
          /\ <<g, i>> \in steady /\ OneButton(g, i, img)
          /\ i \in Reached(g, img) /\ <<i, "ptz">> \notin sent \ got
    BY <1>2
  <1>5. QED
    BY <1>3, <1>4 DEF got

\* The cameras of the other cranes are left alone.
LEMMA OtherCameras ==
    ASSUME Tables, NEW g \in Cranes, NEW img \in Image, NEW lost, NEW wild, NEW sent,
           CameraPoll(g, img, sent, lost, wild), NEW h \in Cranes \ {g}, NEW i \in Ipcs
    PROVE  /\ UNCHANGED <<selected[h], ptzState[h], zoomState[h], followState[h], moving[h],
                          zoomAt[h], pointAt[h]>>
           /\ <<h, i>> \in steady' => <<h, i>> \in steady
           /\ \A kind \in Automatic : <<h, i, kind>> \in missed' <=> <<h, i, kind>> \in missed
  BY DEF Tables, CameraPoll

\* One button at a time: at most one is held before and after a poll.
LEMMA OneHeld ==
    ASSUME NEW S \in SUBSET Buttons, Cardinality(S) <= 1
    PROVE  S = {} \/ \E b \in Buttons : S = {b}
  <1>1. IsFiniteSet(S)
    <2>1. IsFiniteSet(Buttons)
      BY 1 \in Int, 6 \in Int, FS_Interval DEF Buttons
    <2>2. QED
      BY <2>1, FS_Subset
  <1>2. Cardinality(S) = 0 \/ Cardinality(S) = 1
    BY <1>1, FS_CardinalityType
  <1>3. ASSUME Cardinality(S) = 1 PROVE \E b \in Buttons : S = {b}
    BY <1>1, <1>3, FS_Singleton
  <1>4. ASSUME Cardinality(S) = 0 PROVE S = {}
    BY <1>1, <1>4, FS_EmptySet
  <1>5. QED
    BY <1>2, <1>3, <1>4

\* The motions of a poll that presses or releases one button.
LEMMA Moves ==
    ASSUME NEW g \in Cranes, NEW i \in Ipcs, NEW img, NEW b \in Buttons,
           img.buttons[i] \cup ptzState[g][i] = {b},
           DOMAIN moving[g][i] = {"pantilt", "zoom"}
    PROVE  LET now == IF b \in img.buttons[i] THEN b ELSE 0
           IN  /\ Axis(b) = "pantilt" \/ Axis(b) = "zoom"
               /\ Axis(b) = "pantilt" => PtzMoves(g, i, img).pantilt = now
                                         /\ PtzMoves(g, i, img).zoom = moving[g][i].zoom
               /\ Axis(b) = "zoom" => PtzMoves(g, i, img).zoom = now
                                      /\ PtzMoves(g, i, img).pantilt = moving[g][i].pantilt
  <1>1. Button(g, i, img) = b
    <2>1. b <= b
      BY DEF Buttons
    <2>2. QED
      BY <2>1 DEF Button, LowestOf
  <1>2. PtzMoves(g, i, img) = [moving[g][i] EXCEPT ![Axis(b)] = IF b \in img.buttons[i] THEN b ELSE 0]
    BY <1>1 DEF PtzMoves
  <1>3. Axis(b) = "pantilt" \/ Axis(b) = "zoom"
    BY DEF Axis
  <1>4. QED
    BY <1>2, <1>3

LEMMA TablesKept ==
    ASSUME Tables, NEW g \in Cranes, NEW img \in Image, NEW lost, NEW wild, NEW sent,
           CameraPoll(g, img, sent, lost, wild),
           bound' = [bound EXCEPT ![g] = img.console], plc' = [plc EXCEPT ![g] = img]
    PROVE  Tables'
  <1>1. DOMAIN bound' = Cranes /\ plc' \in [Cranes -> Image]
    BY DEF Tables
  <1>2. /\ DOMAIN selected' = Cranes /\ DOMAIN ptzState' = Cranes /\ DOMAIN zoomState' = Cranes
        /\ DOMAIN followState' = Cranes /\ DOMAIN moving' = Cranes
        /\ DOMAIN zoomAt' = Cranes /\ DOMAIN pointAt' = Cranes
    BY DEF Tables, CameraPoll
  <1>3. ASSUME NEW i \in Ipcs PROVE DOMAIN moving'[g][i] = {"pantilt", "zoom"}
    <2>1. moving'[g][i] = moving[g][i] \/ moving'[g][i] = PtzMoves(g, i, img)
      BY DEF CameraPoll, Tables
    <2>2. DOMAIN PtzMoves(g, i, img) = DOMAIN moving[g][i]
      BY DEF PtzMoves
    <2>3. QED
      BY <2>1, <2>2 DEF Tables
  <1>4. \A h \in Cranes \ {g} : moving'[h] = moving[h]
    BY DEF Tables, CameraPoll
  <1>5. QED
    BY <1>1, <1>2, <1>3, <1>4 DEF Tables


LEMMA HandKept ==
    ASSUME Tables, NEW g \in Cranes, NEW i \in Ipcs, HandInv(g, i),
           NEW img \in Image, NEW lost, NEW wild,
           CameraPoll(g, img, CameraMessages(g, img, wild), lost, wild),
           plc' = [plc EXCEPT ![g] = img]
    PROVE  HandInv(g, i)'
  <1> DEFINE sent == CameraMessages(g, img, wild)
             got == Came(g, img, sent, lost)
             before == Held(g, i)
             now == IF i \in img.sel THEN img.buttons[i] ELSE {}
  <1>1. plc[g] \in Image /\ Held(g, i)' = now
    BY DEF Tables, Held
  <1> SUFFICES ASSUME <<g, i>> \in steady'
               PROVE  /\ ptzState'[g][i] = now
                      /\ moving'[g][i].pantilt = IF \E b \in now : Axis(b) = "pantilt"
                                                 THEN CHOOSE b \in now : TRUE ELSE 0
                      /\ moving'[g][i].zoom = IF \E b \in now : Axis(b) = "zoom"
                                              THEN CHOOSE b \in now : TRUE ELSE 0
    BY <1>1 DEF HandInv
  <1>2. /\ ptzState'[g][i] = IF <<i, "ptz">> \in sent THEN img.buttons[i] ELSE ptzState[g][i]
        /\ moving'[g][i] = IF <<i, "ptz">> \in got THEN PtzMoves(g, i, img) ELSE moving[g][i]
        /\ <<g, i>> \in steady /\ OneButton(g, i, img)
        /\ i \in Reached(g, img) /\ <<i, "ptz">> \notin sent \ got
    <2>1. sent \subseteq Ipcs \X {"reset", "ptz", "zoom", "follow"}
      BY MessagesSaid
    <2>2. CameraPoll(g, img, sent, lost, wild)
      OBVIOUS
    <2> HIDE DEF sent
    <2>3. ptzState'[g][i] = IF <<i, "ptz">> \in sent THEN img.buttons[i] ELSE ptzState[g][i]
      BY <2>2, SMTT(30) DEF CameraPoll, Tables
    <2>6. moving'[g][i] = IF <<i, "ptz">> \in got THEN PtzMoves(g, i, img) ELSE moving[g][i]
      BY <2>2 DEF CameraPoll, Tables, Came
    <2>4. /\ <<g, i>> \in steady /\ OneButton(g, i, img)
          /\ i \in Reached(g, img) /\ <<i, "ptz">> \notin sent \ got
      BY <2>1, <2>2, CameraNoted
    <2>5. QED
      BY <2>3, <2>4, <2>6
  <1>3. <<i, "ptz">> \in sent <=> i \in img.sel /\ PtzChanges(g, i, img)
    BY <1>2, MessagesSaid
  <1>4. got \subseteq sent
    BY DEF Came
  <1>5. Cardinality(before \cup now) <= 1 /\ (before # {} => i \in img.sel)
    BY <1>2 DEF OneButton, Held
  <1>6. before \cup now \in SUBSET Buttons
    <2>1. plc[g].buttons[i] \in SUBSET Buttons /\ img.buttons[i] \in SUBSET Buttons
      BY <1>1, ImageFields
    <2>2. QED
      BY <2>1 DEF Held
  <1>7. before \cup now = {} \/ \E b \in Buttons : before \cup now = {b}
    BY <1>5, <1>6, OneHeld
  <1>8. /\ ptzState[g][i] = before
        /\ moving[g][i].pantilt = IF \E b \in before : Axis(b) = "pantilt"
                                  THEN CHOOSE b \in before : TRUE ELSE 0
        /\ moving[g][i].zoom = IF \E b \in before : Axis(b) = "zoom"
                               THEN CHOOSE b \in before : TRUE ELSE 0
    BY <1>2 DEF HandInv
  <1> HIDE DEF sent, got, before
  <1>9. CASE now = before
    <2>1. <<i, "ptz">> \notin sent
      BY <1>3, <1>8, <1>9 DEF PtzChanges
    <2>2. ptzState'[g][i] = before /\ moving'[g][i] = moving[g][i]
      BY <1>2, <1>4, <1>8, <2>1
    <2> HIDE DEF now
    <2>3. QED
      BY <1>8, <1>9, <2>2
  <1>10. CASE now # before
    <2>1. i \in img.sel /\ now = img.buttons[i]
      BY <1>5, <1>10
    <2>2. ptzState'[g][i] = now /\ moving'[g][i] = PtzMoves(g, i, img)
      BY <1>2, <1>3, <1>8, <1>10, <2>1 DEF PtzChanges
    <2> HIDE DEF now
    <2>3. PICK b \in Buttons : before \cup now = {b}
      BY <1>7, <1>10
    <2>4. \/ before = {} /\ now = {b}
          \/ before = {b} /\ now = {}
      BY <1>10, <2>3
    <2>5. DOMAIN moving[g][i] = {"pantilt", "zoom"}
      BY DEF Tables
    <2>6. LET held == IF b \in now THEN b ELSE 0
          IN  /\ Axis(b) = "pantilt" \/ Axis(b) = "zoom"
              /\ Axis(b) = "pantilt" => moving'[g][i].pantilt = held /\ moving'[g][i].zoom = moving[g][i].zoom
              /\ Axis(b) = "zoom" => moving'[g][i].zoom = held /\ moving'[g][i].pantilt = moving[g][i].pantilt
      <3>1. img.buttons[i] \cup ptzState[g][i] = {b}
        BY <1>8, <2>1, <2>3
      <3>2. QED
        BY <2>1, <2>2, <2>5, <3>1, Moves
    <2>7. (CHOOSE x \in {b} : TRUE) = b
      OBVIOUS
    <2>8. CASE Axis(b) = "pantilt"
      BY <1>8, <2>2, <2>4, <2>6, <2>7, <2>8
    <2>9. CASE Axis(b) = "zoom"
      BY <1>8, <2>2, <2>4, <2>6, <2>7, <2>9
    <2>10. QED
      BY <2>6, <2>8, <2>9
  <1>11. QED
    BY <1>9, <1>10

\* A position given is none of the names for a position that is not.
LEMMA PointGiven ==
    ASSUME NEW g \in Cranes, NEW i \in Ipcs, NEW img, <<g, i>> \in FollowCams
    PROVE  FollowPoint(g, i, img) \in Nat
  <1> DEFINE row(x) == {FollowTable[x][c] : c \in DOMAIN FollowTable[x]}
  <1>1. \A x \in FollowCams : row(x) \subseteq Points
    BY DEF Points
  <1>2. CASE Cell(img) \in DOMAIN FollowTable[<<g, i>>]
    <2>1. FollowPoint(g, i, img) \in row(<<g, i>>)
      BY <1>2 DEF FollowPoint
    <2> HIDE DEF row
    <2>2. QED
      BY <1>1, <2>1, CameraAssumption
  <1>3. CASE Cell(img) \notin DOMAIN FollowTable[<<g, i>>]
    BY <1>3 DEF FollowPoint
  <1>4. QED
    BY <1>2, <1>3

\* What HoistFollowed says of one camera.
ZoomFollowed(g, i) ==
    (/\ ~OutOfTable(plc[g]) /\ bound[g] # 0
     /\ <<g, i>> \in ZoomCams /\ i \notin plc[g].sel \cup selected[g]
     /\ ZoomOf(g, i, plc[g], NoZoom) # NoZoom
     /\ <<g, i, "zoom">> \notin missed /\ moving[g][i].zoom = 0)
        => zoomAt[g][i] = ZoomOf(g, i, plc[g], NoZoom)
SpreaderFollowed(g, i) ==
    (/\ ~OutOfTable(plc[g]) /\ bound[g] # 0
     /\ <<g, i>> \in FollowCams /\ InRange(plc[g])
     /\ <<g, i, "follow">> \notin missed /\ pointAt[g][i] \notin {Home, Manual})
        => pointAt[g][i] = FollowPoint(g, i, plc[g])

LEMMA HoistParts == HoistFollowed <=> \A g \in Cranes, i \in Ipcs : ZoomFollowed(g, i) /\ SpreaderFollowed(g, i)
  BY DEF HoistFollowed, ZoomFollowed, SpreaderFollowed

LEMMA ZoomKept ==
    ASSUME Tables, NEW g \in Cranes, NEW i \in Ipcs, HoistInv(g, i),
           NEW img \in Image, NEW lost, NEW wild,
           CameraPoll(g, img, CameraMessages(g, img, wild), lost, wild),
           plc' = [plc EXCEPT ![g] = img]
    PROVE  /\ ZoomFollowed(g, i)'
           /\ i \in selected'[g] => zoomState'[g][i] = NoZoom
           /\ (/\ i \notin selected'[g] /\ zoomState'[g][i] # NoZoom
               /\ <<g, i, "zoom">> \notin missed' /\ moving'[g][i].zoom = 0)
                 => zoomAt'[g][i] = zoomState'[g][i]
  <1> DEFINE sent == CameraMessages(g, img, wild)
             got == Came(g, img, sent, lost)
             now == NowSelected(g, img)
  <1>1. sent \subseteq Ipcs \X {"reset", "ptz", "zoom", "follow"}
    BY MessagesSaid
  <1>2. /\ <<i, "ptz">> \in sent => i \in Reached(g, img) \cap img.sel
        /\ <<i, "zoom">> \in sent <=> ZoomChanges(g, i, img, now, wild)
        /\ <<i, "reset">> \in sent => i \in now
    BY MessagesSaid
  <1>3. CameraPoll(g, img, sent, lost, wild) /\ got \subseteq sent
    BY DEF Came
  <1>4. plc'[g] = img
    BY DEF Tables
  <1>5. i \in Reached(g, img) \cap img.sel => i \in now
    BY DEF NowSelected
  <1> HIDE DEF sent, now
  <1>6. selected'[g] = now
    BY <1>3 DEF CameraPoll, Tables, now
  <1>7. zoomState'[g][i] = IF <<i, "zoom">> \in sent THEN ZoomOf(g, i, img, wild) ELSE KnownZoom(g, i, now)
    BY <1>3 DEF CameraPoll, Tables, now
  <1>8. moving'[g][i] = IF <<i, "ptz">> \in got THEN PtzMoves(g, i, img) ELSE moving[g][i]
    BY <1>3 DEF CameraPoll, Tables, Came
  <1>9. zoomAt'[g][i] = IF moving'[g][i].zoom # 0 THEN Manual
                        ELSE IF <<i, "zoom">> \in got THEN ZoomOf(g, i, img, wild)
                        ELSE IF <<i, "reset">> \in got THEN 0 ELSE zoomAt[g][i]
    BY <1>3, SMTT(30) DEF CameraPoll, Tables, Came
  <1>10. <<g, i, "zoom">> \in missed' <=>
                                        \/ <<i, "zoom">> \in sent \ got
                                        \/ <<g, i, "zoom">> \in missed /\ <<i, "zoom">> \notin got
    BY <1>1, <1>3, CameraNoted DEF Automatic
  <1> HIDE DEF got
  <1>11. i \in now => zoomState'[g][i] = NoZoom
    <2>1. i \in now => <<i, "zoom">> \notin sent
      BY <1>2 DEF ZoomChanges, AutoZoom
    <2>2. QED
      BY <1>7, <2>1 DEF KnownZoom, HoistInv
  <1>12. ASSUME i \notin now, zoomState'[g][i] # NoZoom, <<g, i, "zoom">> \notin missed', moving'[g][i].zoom = 0
         PROVE  zoomAt'[g][i] = zoomState'[g][i]
    <2>1. CASE <<i, "zoom">> \in sent
      BY <1>7, <1>9, <1>10, <1>12, <2>1
    <2>2. CASE <<i, "zoom">> \notin sent
      <3>1. zoomState'[g][i] = zoomState[g][i]
        BY <1>7, <1>12, <2>2 DEF KnownZoom
      <3>2. zoomAt'[g][i] = zoomAt[g][i] /\ moving[g][i].zoom = 0 /\ <<g, i, "zoom">> \notin missed
        BY <1>2, <1>3, <1>5, <1>8, <1>9, <1>10, <1>12, <2>2
      <3>3. QED
        BY <1>12, <3>1, <3>2 DEF HoistInv
    <2>3. QED
      BY <2>1, <2>2
  <1>13. ZoomFollowed(g, i)'
    <2> DEFINE z == ZoomOf(g, i, img, NoZoom)
    <2> SUFFICES ASSUME ~OutOfTable(img), <<g, i>> \in ZoomCams, i \notin img.sel \cup now, z # NoZoom,
                        <<g, i, "zoom">> \notin missed', moving'[g][i].zoom = 0
                 PROVE  zoomAt'[g][i] = z
      BY <1>4, <1>6 DEF ZoomFollowed
    <2>1. ZoomOf(g, i, img, wild) = z
      BY DEF ZoomOf
    <2>2. KnownZoom(g, i, now) = zoomState[g][i]
      BY DEF KnownZoom
    <2>3. zoomState'[g][i] = z
      BY <1>2, <1>7, <2>1, <2>2 DEF ZoomChanges, AutoZoom
    <2>4. QED
      BY <1>12, <2>3
  <1>14. QED
    BY <1>6, <1>11, <1>12, <1>13

LEMMA SpreaderKept ==
    ASSUME Tables, NEW g \in Cranes, NEW i \in Ipcs, HoistInv(g, i),
           NEW img \in Image, NEW lost, NEW wild,
           CameraPoll(g, img, CameraMessages(g, img, wild), lost, wild),
           plc' = [plc EXCEPT ![g] = img]
    PROVE  /\ SpreaderFollowed(g, i)'
           /\ (/\ followState'[g][i] # NoZoom /\ <<g, i, "follow">> \notin missed'
               /\ pointAt'[g][i] \notin {Home, Manual})
                 => pointAt'[g][i] = followState'[g][i]
  <1> DEFINE sent == CameraMessages(g, img, wild)
             got == Came(g, img, sent, lost)
             point == FollowPoint(g, i, img)
  <1>1. sent \subseteq Ipcs \X {"reset", "ptz", "zoom", "follow"}
    BY MessagesSaid
  <1>2. <<i, "follow">> \in sent <=> FollowChanges(g, i, img)
    BY MessagesSaid
  <1>3. CameraPoll(g, img, sent, lost, wild)
    OBVIOUS
  <1>4. plc'[g] = img
    BY DEF Tables
  <1> HIDE DEF sent
  <1>5. followState'[g][i] = IF <<i, "follow">> \in sent THEN point ELSE followState[g][i]
    BY <1>3 DEF CameraPoll, Tables, Came
  <1>6. pointAt'[g][i] = IF moving'[g][i].pantilt # 0 THEN Manual
                         ELSE IF <<i, "follow">> \in got THEN Called(g, i, img)
                         ELSE pointAt[g][i]
    BY <1>3 DEF CameraPoll, Tables, Came
  <1>7. <<g, i, "follow">> \in missed' <=>
                                        \/ <<i, "follow">> \in sent \ got
                                        \/ <<g, i, "follow">> \in missed /\ <<i, "follow">> \notin got
    BY <1>1, <1>3, CameraNoted DEF Automatic
  <1>8. got \subseteq sent
    BY DEF Came
  <1> HIDE DEF got
  <1>9. ASSUME followState'[g][i] # NoZoom, <<g, i, "follow">> \notin missed', pointAt'[g][i] \notin {Home, Manual}
        PROVE  pointAt'[g][i] = followState'[g][i]
    <2>1. CASE <<i, "follow">> \in sent
      BY <1>5, <1>6, <1>7, <1>9, <2>1 DEF Called
    <2>2. CASE <<i, "follow">> \notin sent
      <3>1. pointAt'[g][i] = pointAt[g][i] /\ <<g, i, "follow">> \notin missed
        BY <1>6, <1>7, <1>8, <1>9, <2>2
      <3>2. QED
        BY <1>5, <1>9, <2>2, <3>1 DEF HoistInv
    <2>3. QED
      BY <2>1, <2>2
  <1>10. SpreaderFollowed(g, i)'
    <2> SUFFICES ASSUME <<g, i>> \in FollowCams, InRange(img),
                        <<g, i, "follow">> \notin missed', pointAt'[g][i] \notin {Home, Manual}
                 PROVE  pointAt'[g][i] = point
      BY <1>4 DEF SpreaderFollowed
    <2>1. followState'[g][i] = point
      BY <1>2, <1>5 DEF FollowChanges
    <2>2. point # NoZoom
      BY PointGiven DEF NoZoom
    <2>3. QED
      BY <1>9, <2>1, <2>2
  <1>11. QED
    BY <1>9, <1>10

LEMMA CameraStep == CameraInv /\ [Next]_vars => CameraInv'
  <1> SUFFICES ASSUME CameraInv, [Next]_vars PROVE CameraInv'
    OBVIOUS
  <1>1. CASE UNCHANGED <<bound, plc, camera>>
    <2>1. ASSUME NEW g \in Cranes, NEW i \in Ipcs PROVE HandInv(g, i)' /\ HoistInv(g, i)'
      <3>1. HandInv(g, i) /\ HoistInv(g, i)
        BY DEF CameraInv
      <3>2. HandInv(g, i)'
        BY <1>1, <3>1 DEF camera, HandInv, Held
      <3>3. HoistInv(g, i)'
        BY <1>1, <3>1 DEF camera, HoistInv
      <3>4. QED
        BY <3>2, <3>3
    <2>2. HoistFollowed'
      BY <1>1 DEF camera, CameraInv, HoistFollowed
    <2>3. Tables' /\ part' \in Parts
      BY <1>1 DEF camera, CameraInv, Tables, Next, Poll, Refreshes, Restarts, vars
    <2>4. QED
      BY <2>1, <2>2, <2>3 DEF CameraInv
  <1>2. ASSUME NEW g \in Cranes, Poll(g), ~UNCHANGED <<bound, plc, camera>> PROVE CameraInv'
    <2>1. PICK img, wild, lost :
            /\ img \in DBImages[part][g]
            /\ CameraPoll(g, img, CameraMessages(g, img, wild), lost, wild)
            /\ bound' = [bound EXCEPT ![g] = img.console] /\ plc' = [plc EXCEPT ![g] = img]
      BY <1>2 DEF Poll, Operates
    <2>2. img \in Image
      BY <2>1, PollAssumption DEF CameraInv
    <2>3. Tables'
      BY <2>1, <2>2, TablesKept DEF CameraInv
    <2>4. ASSUME NEW i \in Ipcs
          PROVE  HandInv(g, i)' /\ HoistInv(g, i)' /\ ZoomFollowed(g, i)' /\ SpreaderFollowed(g, i)'
      BY <2>1, <2>2, HandKept, ZoomKept, SpreaderKept DEF CameraInv, HoistInv
    <2>5. ASSUME NEW h \in Cranes \ {g}, NEW i \in Ipcs
          PROVE  HandInv(h, i)' /\ HoistInv(h, i)' /\ ZoomFollowed(h, i)' /\ SpreaderFollowed(h, i)'
      <3>1. /\ UNCHANGED <<selected[h], ptzState[h], zoomState[h], followState[h], moving[h],
                            zoomAt[h], pointAt[h], bound[h], plc[h]>>
            /\ <<h, i>> \in steady' => <<h, i>> \in steady
            /\ \A kind \in Automatic : <<h, i, kind>> \in missed' <=> <<h, i, kind>> \in missed
        BY <2>1, <2>2, OtherCameras DEF CameraInv, Tables
      <3>2. HandInv(h, i) /\ HoistInv(h, i) /\ ZoomFollowed(h, i) /\ SpreaderFollowed(h, i)
        BY HoistParts DEF CameraInv
      <3>3. HandInv(h, i)'
        BY <3>1, <3>2 DEF HandInv, Held
      <3>4. HoistInv(h, i)' /\ ZoomFollowed(h, i)' /\ SpreaderFollowed(h, i)'
        BY <3>1, <3>2 DEF Automatic, HoistInv, ZoomFollowed, SpreaderFollowed
      <3>5. QED
        BY <3>3, <3>4
    <2>6. HoistFollowed'
      BY <2>4, <2>5 DEF HoistFollowed, ZoomFollowed, SpreaderFollowed
    <2>7. part' \in Parts
      BY <1>2 DEF Poll, CameraInv
    <2>8. QED
      BY <2>3, <2>4, <2>5, <2>6, <2>7 DEF CameraInv
  <1>3. QED
    BY <1>1, <1>2 DEF Next, Refreshes, Restarts, vars

(* A camera worked one button at a time, each while it is selected, makes    *)
(* the motion of the button held and stops when none is, in any order of     *)
(* polls, if no command of it was lost (IpcPtzOperation).                    *)
THEOREM HandFollowedHolds == Spec => []HandFollowed
  <1>1. CameraInv => HandFollowed
    BY DEF CameraInv, HandFollowed, HandInv, Held
  <1>2. QED
    BY <1>1, CameraStart, CameraStep, PTL DEF Spec

(* A camera not selected is at the zoom, and a following one at the position,*)
(* that the hoist's place gives, for any tables, unless it was moved by hand *)
(* or the message did not arrive (IpcZoomOperation, IpcPtzFollowOperation).  *)
THEOREM HoistFollowedHolds == Spec => []HoistFollowed
  <1>1. CameraInv => HoistFollowed
    BY DEF CameraInv
  <1>2. QED
    BY <1>1, CameraStart, CameraStep, PTL DEF Spec

(* The hoist never changes the zoom of a camera the operator has selected    *)
(* (IpcZoomOperation).                                                       *)
THEOREM ManualKeepsZoomHolds == Spec => ManualKeepsZoom
  <1> DEFINE Kept == \A g \in Cranes, i \in Ipcs :
          (<<g, i>> \in Known /\ i \in plc'[g].sel /\ i \in selected'[g]) =>
              zoomAt'[g][i] \in {zoomAt[g][i], 0, Manual}
  <1>1. ASSUME CameraInv, [Next]_vars PROVE [Kept]_<<plc, camera>>
    <2> SUFFICES ASSUME NEW h \in Cranes, Poll(h), ~UNCHANGED <<plc, camera>>,
                        NEW g \in Cranes, NEW i \in Ipcs, i \in selected'[g]
                 PROVE  zoomAt'[g][i] \in {zoomAt[g][i], 0, Manual}
      BY <1>1 DEF Next, Refreshes, Restarts, vars
    <2>1. PICK img, wild, lost :
            /\ img \in DBImages[part][h]
            /\ CameraPoll(h, img, CameraMessages(h, img, wild), lost, wild)
      BY DEF Poll, Operates
    <2>2. img \in Image
      BY <1>1, <2>1, PollAssumption DEF CameraInv
    <2>3. CASE g # h
      BY <1>1, <2>1, <2>2, <2>3, OtherCameras DEF CameraInv
    <2>4. CASE g = h
      <3> DEFINE sent == CameraMessages(g, img, wild)
                 got == Came(g, img, sent, lost)
      <3>1. selected'[g] = NowSelected(g, img)
        BY <1>1, <2>1, <2>4 DEF CameraPoll, CameraInv, Tables
      <3>2. <<i, "zoom">> \notin sent
        BY <2>2, <3>1, MessagesSaid, ZenonT(40) DEF ZoomChanges, AutoZoom
      <3>3. CameraPoll(g, img, sent, lost, wild) /\ got \subseteq sent
        BY <2>1, <2>4 DEF Came
      <3> HIDE DEF sent
      <3>4. zoomAt'[g][i] = IF moving'[g][i].zoom # 0 THEN Manual
                            ELSE IF <<i, "zoom">> \in got THEN ZoomOf(g, i, img, wild)
                            ELSE IF <<i, "reset">> \in got THEN 0 ELSE zoomAt[g][i]
        BY <1>1, <3>3 DEF CameraPoll, CameraInv, Tables, Came
      <3> HIDE DEF got
      <3>5. QED
        BY <3>2, <3>3, <3>4
    <2>5. QED
      BY <2>3, <2>4
  <1> HIDE DEF Kept
  <1>2. QED
    BY <1>1, CameraStart, CameraStep, PTL DEF Spec, ManualKeepsZoom, Kept

-----------------------------------------------------------------------------
(* Types. *)

\* The tables of the cameras hold what the tables of General.ini give.
LEMMA PointInTable ==
    ASSUME NEW g \in Cranes, NEW i \in Ipcs, NEW img, <<g, i>> \in FollowCams
    PROVE  FollowPoint(g, i, img) \in Points
  <1> DEFINE row(x) == {FollowTable[x][c] : c \in DOMAIN FollowTable[x]}
  <1>1. \A x \in FollowCams : row(x) \subseteq Points
    BY DEF Points
  <1>2. CASE Cell(img) \in DOMAIN FollowTable[<<g, i>>]
    <2>1. FollowPoint(g, i, img) \in row(<<g, i>>)
      BY <1>2 DEF FollowPoint
    <2> HIDE DEF row
    <2>2. QED
      BY <1>1, <2>1
  <1>3. CASE Cell(img) \notin DOMAIN FollowTable[<<g, i>>]
    BY <1>3 DEF FollowPoint, Points
  <1>4. QED
    BY <1>2, <1>3

LEMMA ZoomInTable ==
    ASSUME NEW g \in Cranes, NEW i \in Ipcs, NEW img, <<g, i>> \in ZoomCams, NEW wild \in WildZooms(img)
    PROVE  ZoomOf(g, i, img, wild) \in ZoomValues \cup {NoZoom}
  <1> DEFINE row(x) == {ZoomTable[x][p] : p \in DOMAIN ZoomTable[x]}
             table == ZoomTable[<<g, i>>]
  <1>1. \A x \in ZoomCams : row(x) \subseteq ZoomValues
    BY DEF ZoomValues
  <1>2. \A p \in DOMAIN table : table[p] \in row(<<g, i>>)
    OBVIOUS
  <1>3. wild \in ZoomValues \cup {NoZoom}
    BY DEF WildZooms
  <1> HIDE DEF row
  <1>4. \A p \in DOMAIN table : table[p] \in ZoomValues
    BY <1>1, <1>2
  <1>5. \/ ZoomOf(g, i, img, wild) \in {wild, NoZoom}
        \/ \E p \in DOMAIN table : ZoomOf(g, i, img, wild) = table[p]
    BY DEF ZoomOf
  <1>6. QED
    BY <1>3, <1>4, <1>5

\* A motion is one of its axis: that of the lowest button pressed, or at rest.
Motions == [pantilt : 0..4, zoom : {0, 5, 6}]

LEMMA MotionTyped ==
    ASSUME NEW g \in Cranes, NEW i \in Ipcs, NEW img \in Image, moving[g][i] \in Motions,
           ptzState[g][i] \in SUBSET Buttons, PtzChanges(g, i, img)
    PROVE  PtzMoves(g, i, img) \in Motions
  <1> DEFINE pressed == img.buttons[i] \cup ptzState[g][i]
             b == Button(g, i, img)
             now == IF b \in img.buttons[i] THEN b ELSE 0
  <1>1. pressed \in SUBSET Buttons /\ pressed # {}
    BY ImageFields DEF PtzChanges
  <1>2. b \in Buttons
    <2> HIDE DEF pressed
    <2>1. pressed \in SUBSET Nat
      BY <1>1 DEF Buttons
    <2>2. \E x \in pressed : \A y \in pressed : x <= y
      BY <1>1, <2>1, MinExists
    <2>3. b = CHOOSE x \in pressed : \A y \in pressed : x <= y
      BY DEF Button, LowestOf, pressed
    <2>4. QED
      BY <1>1, <2>2, <2>3
  <1>3. PtzMoves(g, i, img) = [moving[g][i] EXCEPT ![Axis(b)] = now]
    BY DEF PtzMoves
  <1> HIDE DEF b
  <1>4. CASE b \in 1..4
    <2>1. Axis(b) = "pantilt" /\ now \in 0..4
      BY <1>4 DEF Axis
    <2>2. QED
      BY <1>3, <2>1 DEF Motions
  <1>5. CASE b \in {5, 6}
    <2>1. Axis(b) = "zoom" /\ now \in {0, 5, 6}
      BY <1>5 DEF Axis
    <2>2. QED
      BY <1>3, <2>1 DEF Motions
  <1>6. QED
    BY <1>2, <1>4, <1>5 DEF Buttons

LEMMA CameraKeepsTypes ==
    ASSUME CameraTypeOK, NEW g \in Cranes, NEW img \in Image, NEW lost, NEW wild \in WildZooms(img),
           CameraPoll(g, img, CameraMessages(g, img, wild), lost, wild)
    PROVE  CameraTypeOK'
  <1> DEFINE sent == CameraMessages(g, img, wild)
             got == Came(g, img, sent, lost)
             now == NowSelected(g, img)
  <1>1. /\ \A i \in Ipcs : <<i, "ptz">> \in sent => PtzChanges(g, i, img)
        /\ \A i \in Ipcs : <<i, "zoom">> \in sent => ZoomChanges(g, i, img, now, wild)
        /\ \A i \in Ipcs : <<i, "follow">> \in sent => FollowChanges(g, i, img)
        /\ sent \subseteq Ipcs \X {"reset", "ptz", "zoom", "follow"}
    <2>1. \A i \in Ipcs :
            /\ <<i, "ptz">> \in sent => PtzChanges(g, i, img)
            /\ <<i, "zoom">> \in sent => ZoomChanges(g, i, img, now, wild)
            /\ <<i, "follow">> \in sent => FollowChanges(g, i, img)
      BY MessagesSaid
    <2>2. sent \subseteq Ipcs \X {"reset", "ptz", "zoom", "follow"}
      BY MessagesTyped
    <2>3. QED
      BY <2>1, <2>2
  <1>2. got \subseteq sent
    BY DEF Came
  <1>3. now \subseteq Ipcs
    BY DEF NowSelected, Reached, CameraTypeOK
  <1>4. /\ selected' = [selected EXCEPT ![g] = now]
        /\ ptzState' = [ptzState EXCEPT ![g] = [i \in Ipcs |->
                IF <<i, "ptz">> \in sent THEN img.buttons[i] ELSE @[i]]]
        /\ zoomState' = [zoomState EXCEPT ![g] = [i \in Ipcs |->
                IF <<i, "zoom">> \in sent THEN ZoomOf(g, i, img, wild) ELSE KnownZoom(g, i, now)]]
        /\ followState' = [followState EXCEPT ![g] = [i \in Ipcs |->
                IF <<i, "follow">> \in sent THEN FollowPoint(g, i, img) ELSE @[i]]]
        /\ moving' = [moving EXCEPT ![g] = [i \in Ipcs |->
                IF <<i, "ptz">> \in got THEN PtzMoves(g, i, img) ELSE @[i]]]
        /\ zoomAt' = [zoomAt EXCEPT ![g] = [i \in Ipcs |->
                IF moving'[g][i].zoom # 0 THEN Manual
                ELSE IF <<i, "zoom">> \in got THEN ZoomOf(g, i, img, wild)
                ELSE IF <<i, "reset">> \in got THEN 0 ELSE @[i]]]
        /\ pointAt' = [pointAt EXCEPT ![g] = [i \in Ipcs |->
                IF moving'[g][i].pantilt # 0 THEN Manual
                ELSE IF <<i, "follow">> \in got THEN Called(g, i, img) ELSE @[i]]]
        /\ missed' = (missed \ {<<g, x[1], x[2]>> : x \in got})
                       \cup {<<g, x[1], x[2]>> : x \in {y \in sent \ got : y[2] \in Automatic}}
        /\ steady' \subseteq steady
    BY DEF CameraPoll, Came
  <1> HIDE DEF sent, got, now
  <1>5. \A i \in Ipcs : <<i, "zoom">> \in sent => ZoomOf(g, i, img, wild) \in ZoomValues
    BY <1>1, ZoomInTable DEF ZoomChanges
  <1>6. \A i \in Ipcs : <<i, "follow">> \in sent =>
            FollowPoint(g, i, img) \in Points /\ Called(g, i, img) \in Points \cup {Home}
    BY <1>1, PointInTable DEF FollowChanges, Called
  <1>7. \A i \in Ipcs : KnownZoom(g, i, now) \in ZoomValues \cup {NoZoom}
    BY DEF KnownZoom, CameraTypeOK
  <1>8. selected' \in [Cranes -> SUBSET Ipcs]
    BY <1>3, <1>4 DEF CameraTypeOK
  <1>9. ptzState' \in [Cranes -> [Ipcs -> SUBSET Buttons]]
    BY <1>4, ImageFields DEF CameraTypeOK
  <1>10. zoomState' \in [Cranes -> [Ipcs -> ZoomValues \cup {NoZoom}]]
    BY <1>4, <1>5, <1>7 DEF CameraTypeOK
  <1>11. followState' \in [Cranes -> [Ipcs -> Points \cup {NoZoom}]]
    BY <1>4, <1>6 DEF CameraTypeOK
  <1>12. moving' \in [Cranes -> [Ipcs -> Motions]]
    <2>1. moving \in [Cranes -> [Ipcs -> Motions]] /\ ptzState \in [Cranes -> [Ipcs -> SUBSET Buttons]]
      BY DEF CameraTypeOK, Motions
    <2>2. \A i \in Ipcs : <<i, "ptz">> \in got => PtzMoves(g, i, img) \in Motions
      BY <1>1, <1>2, <2>1, MotionTyped
    <2>3. QED
      BY <1>4, <2>1, <2>2
  <1>13. zoomAt' \in [Cranes -> [Ipcs -> ZoomValues \cup {0, NoZoom, Manual}]]
    BY <1>2, <1>4, <1>5 DEF CameraTypeOK
  <1>14. pointAt' \in [Cranes -> [Ipcs -> Points \cup {Home, NoZoom, Manual}]]
    BY <1>2, <1>4, <1>6 DEF CameraTypeOK
  <1>15. missed' \subseteq Cranes \X Ipcs \X Automatic
    <2>1. \A x \in sent : x[2] \in Automatic => <<g, x[1], x[2]>> \in Cranes \X Ipcs \X Automatic
      BY <1>1
    <2>2. QED
      BY <1>4, <2>1 DEF CameraTypeOK
  <1>16. QED
    BY <1>4, <1>8, <1>9, <1>10, <1>11, <1>12, <1>13, <1>14, <1>15 DEF CameraTypeOK, Motions

-----------------------------------------------------------------------------
LEMMA PresetKeepsTypes ==
    ASSUME PointsInv, PresetTypeOK, NEW g \in Cranes, NEW img \in Image, NEW fails, PresetPoll(g, img, fails)
    PROVE  PresetTypeOK'
  <1>1. PointsInv'
    BY PresetPollKept
  <1>2. Pass(g, img, fails)
    BY DEF PresetPoll
  <1>3. asked' \in [Cranes -> 0..Gives + 2]
    BY <1>1 DEF PointsInv
  <1>4. CASE UNCHANGED points
    BY <1>3, <1>4 DEF PresetTypeOK, points
  <1>5. Callable(g) \subseteq Ipcs
    BY CallableIpcs
  <1>6. CASE CallsPoints(g, fails)
    <2> DEFINE called == Callable(g) \cap pointStatuse[g]
               failed == called \cap fails
    <2>1. /\ pointStatuse' = [pointStatuse EXCEPT ![g] =
                @ \ {i \in called : i \notin fails \/ GivenUp(g, i)}]
          /\ erroTime' = [erroTime EXCEPT ![g] = [i \in Ipcs |->
                IF i \in failed THEN @[i] + 1 ELSE @[i]]]
          /\ tries' = [tries EXCEPT ![g] = [i \in Ipcs |->
                IF i \in failed THEN @[i] + 1 ELSE IF i \in called THEN 0 ELSE @[i]]]
          /\ away' = away \cup {<<g, i>> : i \in called \ failed}
          /\ resetDone' = [resetDone EXCEPT ![g] = FALSE]
      BY <1>6 DEF CallsPoints
    <2>2. \A i \in called : PointInv(g, i) /\ i \in Ipcs
      BY <1>5 DEF PointsInv
    <2>3. ASSUME NEW i \in called
          PROVE  erroTime[g][i] + 1 \in 0..Gives + 2 /\ tries[g][i] + 1 \in 0..Gives + 2
      <3>1. PointInv(g, i) /\ i \in pointStatuse[g]
        BY <2>2
      <3>2. erroTime[g][i] \in 0..6 /\ tries[g][i] = erroTime[g][i]
        BY <3>1 DEF PointInv, Gives
      <3>3. QED
        BY <3>2 DEF Gives
    <2>4. called \subseteq Ipcs
      BY <2>2
    <2> HIDE DEF called
    <2>5. erroTime' \in [Cranes -> [Ipcs -> 0..Gives + 2]] /\ tries' \in [Cranes -> [Ipcs -> 0..Gives + 2]]
      BY <2>1, <2>3 DEF PresetTypeOK, Gives
    <2>6. away' \subseteq Cranes \X Ipcs
      BY <2>1, <2>4 DEF PresetTypeOK
    <2>7. pointStatuse' \in [Cranes -> SUBSET Ipcs] /\ resetDone' \in [Cranes -> BOOLEAN]
      BY <2>1 DEF PresetTypeOK
    <2>8. QED
      BY <1>3, <2>5, <2>6, <2>7 DEF PresetTypeOK
  <1>7. CASE ResetsPoints(g, fails) /\ ~resetDone[g]
    <2> DEFINE back == Callable(g)
               over == {i \in back : i \notin fails \/ GivenUp(g, i)}
    <2>1. /\ resetDone' = [resetDone EXCEPT ![g] = TRUE]
          /\ pointStatuse' = [pointStatuse EXCEPT ![g] = @ \cup over]
          /\ erroTime' = [erroTime EXCEPT ![g] = [i \in Ipcs |->
                IF i \in over THEN 0 ELSE IF i \in back THEN @[i] + 1 ELSE @[i]]]
          /\ tries' = [tries EXCEPT ![g] = [i \in Ipcs |->
                IF i \in over THEN 0 ELSE IF i \in back THEN @[i] + 1 ELSE @[i]]]
          /\ away' = away \ {<<g, i>> : i \in back \ fails}
      BY <1>7 DEF ResetsPoints
    <2>2. \A i \in back \ over : PointInv(g, i) /\ erroTime[g][i] <= Gives
      <3>1. \A i \in back : PointInv(g, i)
        BY DEF PointsInv
      <3>2. \A i \in back : erroTime[g][i] \in 0..Gives + 2
        BY <3>1 DEF PointInv
      <3>3. QED
        BY <3>1, <3>2 DEF GivenUp, Gives
    <2>3. ASSUME NEW i \in back \ over
          PROVE  erroTime[g][i] + 1 \in 0..Gives + 2 /\ tries[g][i] + 1 \in 0..Gives + 2
      <3>1. PointInv(g, i) /\ erroTime[g][i] <= Gives
        BY <2>2
      <3>2. erroTime[g][i] \in 0..5 /\ tries[g][i] \in 0..5
        BY <3>1 DEF PointInv, Gives
      <3>3. QED
        BY <3>2 DEF Gives
    <2>4. over \subseteq Ipcs
      BY <1>5
    <2> HIDE DEF back, over
    <2>5. erroTime' \in [Cranes -> [Ipcs -> 0..Gives + 2]] /\ tries' \in [Cranes -> [Ipcs -> 0..Gives + 2]]
      BY <2>1, <2>3 DEF PresetTypeOK, Gives
    <2>6. away' \subseteq Cranes \X Ipcs
      BY <2>1 DEF PresetTypeOK
    <2>7. pointStatuse' \in [Cranes -> SUBSET Ipcs] /\ resetDone' \in [Cranes -> BOOLEAN]
      BY <2>1, <2>4 DEF PresetTypeOK
    <2>8. QED
      BY <1>3, <2>5, <2>6, <2>7 DEF PresetTypeOK
  <1>8. QED
    BY <1>2, <1>4, <1>6, <1>7 DEF Pass, ResetsPoints

-----------------------------------------------------------------------------
LEMMA CutsTypesStart == ASSUME CutsInit PROVE CutsTypeOK
  <1>1. switchGroup \in [Cranes -> [Cuts -> {0} \cup Consoles \cup Cranes]]
    BY DEF CutsInit
  <1>2. AllDark \in [WallConsoles -> [Cuts -> Pictures]] /\ PerEntry(Dark) \in [Cranes -> [Cuts -> {Dark}]]
    BY DEF AllDark, PerEntry, Pictures
  <1>3. restarts \in 0..MaxRestarts
    BY CutAssumption DEF CutsInit
  <1>4. QED
    BY <1>1, <1>2, <1>3 DEF CutsInit, CutsTypeOK, PerEntry, NoWall

LEMMA PlanSent ==
    ASSUME NEW g \in Cranes, NEW img \in Image
    PROVE  /\ Split(g, img) \in {cutNum[g]} \cup Splits
           /\ SentPlan(g, img) # NoSwitch =>
                 /\ img.console \in WallConsoles
                 /\ SentPlan(g, img) \in PlanScreens \X Splits
  <1>1. img.plan \in {NoSwitch} \cup PlanScreens \X Splits
    BY ImageFields
  <1>2. SentPlan(g, img) # NoSwitch => HasWall(img.console) /\ SentPlan(g, img) = img.plan
    BY DEF SentPlan
  <1>3. SentPlan(g, img) # NoSwitch => SentPlan(g, img) \in PlanScreens \X Splits
    BY <1>1, <1>2
  <1>4. Split(g, img) \in {cutNum[g]} \cup Splits
    BY <1>3 DEF Split
  <1>5. QED
    BY <1>2, <1>3, <1>4 DEF HasWall

LEMMA PicturesTyped ==
    ASSUME NEW g \in Cranes, NEW img \in Image, NEW before \in [WallConsoles -> [Cuts -> Pictures]]
    PROVE  AfterPlan(before, g, img) \in [WallConsoles -> [Cuts -> Pictures]]
  <1> DEFINE plan == SentPlan(g, img)
  <1>1. Dark \in Pictures /\ Plan(g) \in Pictures
    BY DEF Pictures, Plan
  <1>2. CASE img.console = 0 /\ HasWall(bound[g])
    BY <1>1, <1>2 DEF AfterPlan
  <1>3. CASE ~(img.console = 0 /\ HasWall(bound[g])) /\ plan = NoSwitch
    BY <1>3 DEF AfterPlan
  <1>4. CASE ~(img.console = 0 /\ HasWall(bound[g])) /\ plan # NoSwitch
    <2>1. img.console \in WallConsoles
      BY <1>4, PlanSent
    <2>2. AfterPlan(before, g, img) = [before EXCEPT ![img.console] = [k \in Cuts |->
            IF k.screen # plan[1] THEN @[k]
            ELSE IF k.index <= plan[2] THEN Plan(g) ELSE Dark]]
      BY <1>4 DEF AfterPlan
    <2> HIDE DEF plan
    <2>3. QED
      BY <1>1, <2>1, <2>2
  <1>5. QED
    BY <1>2, <1>3, <1>4

LEMMA CutsKeepsTypes ==
    ASSUME CutsTypeOK, NEW g \in Cranes, NEW img \in Image, NEW lost, CutsPoll(g, img, lost)
    PROVE  CutsTypeOK'
  <1> DEFINE plan == SentPlan(g, img)
             came(k) == Sent(g, k, img) /\ lost # <<k.index, "cut">>
             console == CutConsole(g, img)
  <1>1. img.cuts \in [Cuts -> {0} \cup Ipcs] /\ img.console \in {0} \cup Consoles
    BY ImageFields
  <1>2. ASSUME NEW k \in Cuts
        PROVE  /\ NewIpcIndex(g, k, img) \in {0} \cup Ipcs
               /\ NewSwitchGroup(g, k, img) \in {0} \cup Consoles \cup Cranes
               /\ Resolved(g, k, img) => console \in WallConsoles /\ CutIpc(g, k, img) \in Ipcs
    <2>1. NewIpcIndex(g, k, img) \in {0} \cup Ipcs
      BY <1>1 DEF NewIpcIndex, CutsTypeOK
    <2>2. NewSwitchGroup(g, k, img) \in {0} \cup Consoles \cup Cranes
      BY <1>1 DEF NewSwitchGroup, CutsTypeOK
    <2>3. Resolved(g, k, img) => <<g, CutIpc(g, k, img)>> \in Known /\ console \in WallConsoles
      BY DEF Resolved, Named, HasWall
    <2>4. \A i : <<g, i>> \in Known => i \in Ipcs
      BY CraneAssumption
    <2>5. QED
      BY <2>1, <2>2, <2>3, <2>4
  <1>3. \A k \in Cuts : came(k) => Resolved(g, k, img)
    BY DEF Sent
  <1>4. /\ cutNum' = [cutNum EXCEPT ![g] = Split(g, img)]
        /\ savedPlan' = IF plan = NoSwitch THEN savedPlan
                        ELSE [savedPlan EXCEPT ![img.console][plan[1]] =
                                [crane |-> g, windows |-> plan[2]]]
        /\ window' = [c \in WallConsoles |-> [k \in Cuts |->
                IF c = console /\ came(k) THEN <<g, CutIpc(g, k, img)>>
                ELSE AfterPlan(window, g, img)[c][k]]]
        /\ latest' = [c \in WallConsoles |-> [k \in Cuts |->
                IF c = console /\ came(k) THEN <<g, CutIpc(g, k, img)>>
                ELSE AfterPlan(latest, g, img)[c][k]]]
    BY DEF CutsPoll
  <1>5. /\ ipcIndex' = [ipcIndex EXCEPT ![g] = [k \in Cuts |-> NewIpcIndex(g, k, img)]]
        /\ switchGroup' = [switchGroup EXCEPT ![g] = [k \in Cuts |-> NewSwitchGroup(g, k, img)]]
        /\ sentTo' = [sentTo EXCEPT ![g] = [k \in Cuts |->
                IF Resolved(g, k, img) THEN console ELSE @[k]]]
        /\ sentIpc' = [sentIpc EXCEPT ![g] = [k \in Cuts |->
                IF Resolved(g, k, img) THEN CutIpc(g, k, img) ELSE @[k]]]
        /\ last' = [last EXCEPT ![g] = [k \in Cuts |->
                IF came(k) THEN <<console, CutIpc(g, k, img)>> ELSE @[k]]]
        /\ UNCHANGED restarts
    BY DEF CutsPoll
  <1>6. late' \subseteq late \cup {<<g, k>> : k \in Cuts}
    BY DEF CutsPoll
  <1>7. cutNum' \in [Cranes -> {MaxIndex} \cup Splits]
    BY <1>4, PlanSent DEF CutsTypeOK
  <1>8. savedPlan' \in [WallConsoles -> [PlanScreens -> {NoPlan} \cup [crane : Cranes, windows : Splits]]]
    <2>1. CASE plan = NoSwitch
      BY <1>4, <2>1 DEF CutsTypeOK
    <2>2. CASE plan # NoSwitch
      <3>1. img.console \in WallConsoles /\ plan[1] \in PlanScreens /\ plan[2] \in Splits
        BY <2>2, PlanSent
      <3> DEFINE saved == [crane |-> g, windows |-> plan[2]]
      <3>2. saved \in [crane : Cranes, windows : Splits]
        BY <3>1
      <3>3. savedPlan' = [savedPlan EXCEPT ![img.console][plan[1]] = saved]
        BY <1>4, <2>2
      <3> HIDE DEF plan, saved
      <3>4. QED
        BY <3>1, <3>2, <3>3 DEF CutsTypeOK
    <2>3. QED
      BY <2>1, <2>2
  <1> HIDE DEF plan, came, console
  <1>9. ASSUME NEW k \in Cuts, came(k) PROVE <<g, CutIpc(g, k, img)>> \in Pictures
    BY <1>2, <1>3, <1>9 DEF Pictures
  <1>10. window' \in [WallConsoles -> [Cuts -> Pictures]] /\ latest' \in [WallConsoles -> [Cuts -> Pictures]]
    <2>1. /\ AfterPlan(window, g, img) \in [WallConsoles -> [Cuts -> Pictures]]
          /\ AfterPlan(latest, g, img) \in [WallConsoles -> [Cuts -> Pictures]]
      BY PicturesTyped DEF CutsTypeOK
    <2>2. QED
      BY <1>4, <1>9, <2>1
  <1>11. /\ ipcIndex' \in [Cranes -> [Cuts -> {0} \cup Ipcs]]
         /\ switchGroup' \in [Cranes -> [Cuts -> {0} \cup Consoles \cup Cranes]]
    BY <1>2, <1>5 DEF CutsTypeOK
  <1>12. /\ sentTo' \in [Cranes -> [Cuts -> {NoWall} \cup WallConsoles]]
         /\ sentIpc' \in [Cranes -> [Cuts -> {0} \cup Ipcs]]
    BY <1>2, <1>5 DEF CutsTypeOK
  <1>13. last' \in [Cranes -> [Cuts -> {Dark} \cup WallConsoles \X Ipcs]]
    BY <1>2, <1>3, <1>5 DEF CutsTypeOK
  <1>14. late' \subseteq Cranes \X Cuts
    BY <1>6 DEF CutsTypeOK
  <1>15. QED
    BY <1>5, <1>7, <1>8, <1>10, <1>11, <1>12, <1>13, <1>14 DEF CutsTypeOK

\* What a restarted wall is sent for a window is a picture there is: of the
\* cranes that remember the wall the highest comes last.
LEMMA RestoredTyped ==
    ASSUME CutsTypeOK, NEW c \in WallConsoles, NEW k \in Cuts
    PROVE  Restored(c, k) \in Pictures
  <1> DEFINE again == {g \in Cranes : SentAgain(g, c, k)}
             plan == savedPlan[c][k.screen]
  <1>1. CASE again # {}
    <2> DEFINE h == CHOOSE g \in again : \A x \in again : x <= g
    <2>1. again \in SUBSET (0..NumCranes) /\ NumCranes \in Nat
      BY CraneAssumption DEF Cranes
    <2> HIDE DEF again
    <2>2. \E g \in again : \A x \in again : x <= g
      BY <1>1, <2>1, MaxExists
    <2>3. h \in again
      BY <2>2
    <2>4. h \in Cranes
      BY <2>3 DEF again
    <2>5. Restored(c, k) = <<h, sentIpc[h][k]>>
      BY <1>1 DEF Restored, again
    <2> HIDE DEF h
    <2>6. QED
      BY <2>4, <2>5 DEF CutsTypeOK, Pictures
  <1>2. CASE again = {}
    <2>1. k.screen \in PlanScreens
      BY DEF PlanScreens
    <2>2. plan \in {NoPlan} \cup [crane : Cranes, windows : Splits]
      BY <2>1 DEF CutsTypeOK
    <2>3. Restored(c, k) = IF plan # NoPlan /\ k.index <= plan.windows THEN Plan(plan.crane) ELSE Dark
      BY <1>2 DEF Restored
    <2> HIDE DEF plan
    <2>4. QED
      BY <2>2, <2>3 DEF Pictures, Plan
  <1>3. QED
    BY <1>1, <1>2

LEMMA CutsRestartTypes == ASSUME CutsTypeOK, NEW c \in WallConsoles, WallRestarts(c) PROVE CutsTypeOK'
  <1>1. window' = [window EXCEPT ![c] = [k \in Cuts |-> Restored(c, k)]]
    BY DEF WallRestarts
  <1>2. window' \in [WallConsoles -> [Cuts -> Pictures]]
    BY <1>1, RestoredTyped DEF CutsTypeOK
  <1>3. restarts' \in 0..MaxRestarts
    BY CutAssumption DEF WallRestarts, CutsTypeOK
  <1>4. QED
    BY <1>2, <1>3 DEF WallRestarts, memory, CutsTypeOK

LEMMA CutsRefreshTypes == ASSUME CutsTypeOK, CutsRefresh PROVE CutsTypeOK'
  <1>1. switchGroup' \in [Cranes -> [Cuts -> {0} \cup Consoles \cup Cranes]]
    BY DEF CutsRefresh
  <1>2. QED
    BY <1>1 DEF CutsRefresh, CutsTypeOK, PerEntry, NoWall

-----------------------------------------------------------------------------
LEMMA TypesStart == Init => TypeOK
  <1> SUFFICES ASSUME Init PROVE TypeOK
    OBVIOUS
  <1>1. Blank \in Image
    BY DEF Blank, Image, NoSwitch, Heights
  <1>2. bound \in [Cranes -> {0} \cup Consoles] /\ DOMAIN plc = Cranes /\ \A g \in Cranes : plc[g] \in Image
    BY <1>1 DEF Init
  <1>3. losses \in 0..MaxLosses /\ refreshes \in 0..MaxRefreshes
    BY PollAssumption DEF Init
  <1>4. CameraTypeOK
    BY DEF Init, CameraInit, CameraTypeOK, Each, AtRest
  <1>5. PresetTypeOK
    BY CallAssumption DEF Init, PresetInit, PresetTypeOK, Gives
  <1>6. CutsTypeOK
    BY CutsTypesStart DEF Init
  <1>7. QED
    BY <1>2, <1>3, <1>4, <1>5, <1>6 DEF Init, TypeOK

LEMMA TypesStep == TypeOK /\ PointsInv /\ [Next]_vars => TypeOK'
  <1> SUFFICES ASSUME TypeOK, PointsInv, [Next]_vars PROVE TypeOK'
    OBVIOUS
  <1>1. ASSUME NEW g \in Cranes, NEW img \in DBImages[part][g], Operates(g, img),
               bound' = [bound EXCEPT ![g] = img.console], plc' = [plc EXCEPT ![g] = img],
               UNCHANGED <<part, refreshes>>
        PROVE  TypeOK'
    <2>0. PICK wild \in WildZooms(img), fails \in SUBSET Tried(g, img) :
            \E lost \in CameraMessages(g, img, wild) \cup CutMessages(g, img) \cup {NoLoss} :
              /\ Loses(lost)
              /\ CameraPoll(g, img, CameraMessages(g, img, wild), lost, wild)
              /\ PresetPoll(g, img, fails)
              /\ CutsPoll(g, img, lost)
      BY <1>1 DEF Operates
    <2>1. PICK lost \in CameraMessages(g, img, wild) \cup CutMessages(g, img) \cup {NoLoss} :
            /\ Loses(lost)
            /\ CameraPoll(g, img, CameraMessages(g, img, wild), lost, wild)
            /\ PresetPoll(g, img, fails)
            /\ CutsPoll(g, img, lost)
      BY <2>0
    <2>2. img \in Image
      BY PollAssumption DEF TypeOK
    <2>3. CameraTypeOK'
      BY <2>1, <2>2, CameraKeepsTypes DEF TypeOK
    <2>4. PresetTypeOK'
      BY <2>1, <2>2, PresetKeepsTypes DEF TypeOK
    <2>5. CutsTypeOK'
      BY <2>1, <2>2, CutsKeepsTypes DEF TypeOK
    <2>6. losses' \in 0..MaxLosses
      BY <2>1, PollAssumption DEF TypeOK, Loses
    <2>7. img.console \in {0} \cup Consoles
      BY <2>2, ImageFields
    <2>8. bound' \in [Cranes -> {0} \cup Consoles] /\ DOMAIN plc' = Cranes /\ \A h \in Cranes : plc'[h] \in Image
      BY <1>1, <2>2, <2>7 DEF TypeOK
    <2>9. QED
      BY <1>1, <2>3, <2>4, <2>5, <2>6, <2>8 DEF TypeOK
  <1>2. ASSUME NEW g \in Cranes, UNCHANGED <<bound, plc, camera, preset, cuts, losses, part, refreshes>>
        PROVE  TypeOK'
    BY <1>2 DEF TypeOK, camera, preset, points, cuts, memory, CameraTypeOK, PresetTypeOK, CutsTypeOK
  <1>3. CASE Refreshes
    <2>1. PresetTypeOK'
      BY <1>3, CallAssumption DEF TypeOK, Refreshes, PresetRefresh, PresetTypeOK, Gives
    <2>2. CutsTypeOK'
      BY <1>3, CutsRefreshTypes DEF TypeOK, Refreshes
    <2>3. CameraTypeOK'
      BY <1>3 DEF TypeOK, Refreshes, camera, CameraTypeOK
    <2>4. refreshes' \in 0..MaxRefreshes /\ UNCHANGED <<bound, plc, part, losses>>
      BY <1>3, PollAssumption DEF TypeOK, Refreshes
    <2>5. QED
      BY <2>1, <2>2, <2>3, <2>4 DEF TypeOK
  <1>4. ASSUME NEW c \in WallConsoles, WallRestarts(c),
               UNCHANGED <<bound, plc, camera, preset, part, losses, refreshes>>
        PROVE  TypeOK'
    <2>1. CutsTypeOK'
      BY <1>4, CutsRestartTypes DEF TypeOK
    <2>2. CameraTypeOK' /\ PresetTypeOK'
      BY <1>4 DEF TypeOK, camera, preset, points, CameraTypeOK, PresetTypeOK
    <2>3. QED
      BY <1>4, <2>1, <2>2 DEF TypeOK
  <1>5. CASE UNCHANGED vars
    BY <1>5 DEF vars, TypeOK, camera, preset, points, cuts, memory, CameraTypeOK, PresetTypeOK, CutsTypeOK
  <1>6. QED
    BY <1>1, <1>2, <1>3, <1>4, <1>5 DEF Next, Poll, Restarts

(* A camera makes one motion on an axis and is at a zoom or a position a     *)
(* table gives, whatever cells are read out of bounds; no count of failures  *)
(* passes seven; and a window shows a picture there is, also when what was   *)
(* saved is sent again: for any images, tables, lists and numbers of cranes  *)
(* (ReadPLCDataProcess).                                                     *)
THEOREM CranePollTypes == Spec => []TypeOK
  BY TypesStart, TypesStep, PointsStart, PointsStep, PTL DEF Spec
=============================================================================
