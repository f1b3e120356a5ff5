-------------------------- MODULE SupervisionProofs -------------------------
(***************************************************************************)
(* What is proved of Supervision: never two processes side by side, when   *)
(* the watchdog closes one early, and when none is started again - for any *)
(* timeout, restart time, clock and number of processes.                   *)
(***************************************************************************)
EXTENDS Supervision, TLAPS

OnlyPresent(p) == \A q \in Procs : Present(q) => q = p

\* The daemon starts a process only where there is none, the restart thread
\* only beside its own: it is due only once, when no restart went before.
OneInv ==
    /\ now \in Times
    /\ phase \in [Procs -> {"none", "running", "closing", "hung"}]
    /\ closePosted \in [Procs -> BOOLEAN]
    /\ restart \in [Procs -> {"wait", "sleep", "created", "done"}]
    /\ angel = "start" => \A p \in Procs : ~Present(p)
    /\ now <= RestartAt => \A p, q \in Procs : Present(p) /\ Present(q) => p = q
    /\ \A p \in Procs : restart[p] = "sleep" => OnlyPresent(p)
    /\ \A p \in Procs : ~Alive(p) => restart[p] = "wait"
    /\ OneInstance

LEMMA OneStarts == Init => OneInv
  BY SupervisionAssumption DEF Init, OneInv, Times, OneInstance, Serving, Present, OnlyPresent

LEMMA TickKept == OneInv /\ Tick => OneInv'
  <1> SUFFICES ASSUME OneInv, Tick PROVE OneInv'
    OBVIOUS
  <1>1. now' \in Times /\ (now' <= RestartAt => now <= RestartAt)
    BY SupervisionAssumption DEF Tick, OneInv, Times
  <1>2. QED
    BY <1>1 DEF Tick, proc, OneInv, OneInstance, Serving, Present, OnlyPresent, Alive

\* Steps that only take a process further out of service.
LEMMA ServiceEnds ==
    ASSUME OneInv, NEW p \in Procs, UNCHANGED now,
           phase' \in [Procs -> {"none", "running", "closing", "hung"}],
           closePosted' \in [Procs -> BOOLEAN],
           restart' \in [Procs -> {"wait", "sleep", "created", "done"}],
           angel' # "start" \/ angel' = angel,
           \A q \in Procs \ {p} : UNCHANGED <<phase[q], closePosted[q], restart[q]>>,
           Present(p)' => Present(p), Serving(p)' => Serving(p),
           ~Alive(p)' => restart'[p] = "wait",
           restart'[p] = "sleep" => restart[p] = "sleep" \/ OnlyPresent(p)
    PROVE  OneInv'
  <1>1. \A q \in Procs : (Present(q)' => Present(q)) /\ (Serving(q)' => Serving(q))
    BY DEF Present, Serving
  <1>2. \A q \in Procs : OnlyPresent(q) => OnlyPresent(q)'
    BY <1>1 DEF OnlyPresent
  <1>3. \A q \in Procs : restart'[q] = "sleep" => OnlyPresent(q)'
    BY <1>2 DEF OneInv
  <1>4. \A q \in Procs : ~Alive(q)' => restart'[q] = "wait"
    BY DEF OneInv, Alive
  <1>5. OneInstance'
    BY <1>1 DEF OneInv, OneInstance
  <1>6. QED
    BY <1>1, <1>3, <1>4, <1>5 DEF OneInv

\* A process is started beside p, which is on its way out, or beside none.
LEMMA StartKept ==
    ASSUME OneInv, NEW q \in Procs, Starts(q), UNCHANGED now, angel' # "start",
           restart' \in [Procs -> {"wait", "sleep", "created", "done"}], restart'[q] = "wait",
           \/ \A r \in Procs : ~Present(r) /\ restart'[r] # "sleep"
           \/ \E p \in Procs : /\ OnlyPresent(p) /\ now > RestartAt
                               /\ restart'[p] = "created" /\ p # q /\ Alive(p)
                               /\ \A r \in Procs \ {p} : restart'[r] = restart[r],
           \A r \in Procs : ~Alive(r) => restart'[r] = "wait"
    PROVE  OneInv'
  <1>1. /\ phase[q] = "none"
        /\ phase' = [phase EXCEPT ![q] = "running"]
        /\ closePosted' = [closePosted EXCEPT ![q] = FALSE]
    BY DEF Starts
  <1>2. /\ phase' \in [Procs -> {"none", "running", "closing", "hung"}]
        /\ closePosted' \in [Procs -> BOOLEAN]
    BY <1>1 DEF OneInv
  <1>3. \A r \in Procs \ {q} : UNCHANGED <<Present(r), Alive(r)>>
    BY <1>1 DEF OneInv, Present, Alive
  <1>4. \A r \in Procs : ~Alive(r)' => restart'[r] = "wait"
    BY <1>3
  <1>5. CASE \A r \in Procs : ~Present(r) /\ restart'[r] # "sleep"
    <2>1. \A r \in Procs : Present(r)' => r = q
      BY <1>3, <1>5
    <2>2. OneInstance'
      BY <2>1 DEF OneInstance, Serving, Present
    <2>3. QED
      BY <1>2, <1>4, <1>5, <2>1, <2>2 DEF OneInv
  <1>6. ASSUME NEW p \in Procs, OnlyPresent(p), now > RestartAt,
               restart'[p] = "created", p # q, Alive(p),
               \A r \in Procs \ {p} : restart'[r] = restart[r]
        PROVE  OneInv'
    <2>1. \A r \in Procs : Present(r)' => r \in {p, q}
      BY <1>3, <1>6 DEF OnlyPresent
    <2>2. ~Serving(p)'
      BY <1>6 DEF Serving
    <2>3. OneInstance'
      BY <2>1, <2>2 DEF OneInstance, Serving, Present
    <2>4. \A r \in Procs : restart'[r] # "sleep"
      <3>1. \A r \in Procs \ {p} : restart[r] = "sleep" => r = p
        BY <1>6 DEF OneInv, OnlyPresent, Present, Alive
      <3>2. QED
        BY <1>6, <3>1
    <2>5. now' \in Times /\ ~(now' <= RestartAt)
      BY <1>6, SupervisionAssumption DEF OneInv, Times
    <2>6. QED
      BY <1>2, <1>4, <2>3, <2>4, <2>5 DEF OneInv
  <1>7. QED
    BY <1>5, <1>6

LEMMA ReplacesKept == ASSUME OneInv, NEW p \in Procs, Replaces(p) PROVE OneInv'
  <1>1. CASE RestartDue(p)
    <2>1. OnlyPresent(p)
      <3>1. now <= RestartAt /\ Present(p)
        BY <1>1, SupervisionAssumption DEF RestartDue, Present
      <3>2. QED
        BY <3>1 DEF OneInv, OnlyPresent
    <2>2. restart' \in [Procs -> {"wait", "sleep", "created", "done"}]
      BY <1>1 DEF RestartDue, OneInv
    <2>3. QED
      BY <1>1, <2>1, <2>2, ServiceEnds DEF RestartDue, OneInv, Present, Serving, Alive
  <1>2. ASSUME NEW q \in Procs, RestartCreates(p), Starts(q),
               restart' = [restart EXCEPT ![p] = "created", ![q] = "wait"]
        PROVE  OneInv'
    <2>1. Alive(p) /\ restart[p] = "sleep" /\ now > RestartAt /\ UNCHANGED <<now, angel>>
      BY <1>2 DEF RestartCreates
    <2>2. OnlyPresent(p) /\ Present(p) /\ p # q
      BY <1>2, <2>1 DEF OneInv, Alive, Present, Starts
    <2>3. angel # "start"
      BY <2>2 DEF OneInv
    <2>4. restart[q] = "wait"
      BY <1>2 DEF Starts, OneInv, Alive
    <2>5. /\ restart' \in [Procs -> {"wait", "sleep", "created", "done"}]
          /\ restart'[q] = "wait" /\ restart'[p] = "created"
          /\ \A r \in Procs \ {p} : restart'[r] = restart[r]
      BY <1>2, <2>2, <2>4 DEF OneInv
    <2>6. \A r \in Procs : ~Alive(r) => restart'[r] = "wait"
      BY <2>1, <2>5 DEF OneInv
    <2>7. QED
      BY <1>2, <2>1, <2>2, <2>3, <2>5, <2>6, StartKept
  <1>3. CASE RestartCreates(p) /\ UNCHANGED <<phase, closePosted>>
               /\ restart' = [restart EXCEPT ![p] = "created"]
    BY <1>3, ServiceEnds DEF RestartCreates, OneInv, Present, Serving, Alive
  <1>4. CASE RestartCloses(p)
    BY <1>4, ServiceEnds DEF RestartCloses, OneInv, Present, Serving, Alive
  <1>5. QED
    BY <1>1, <1>2, <1>3, <1>4 DEF Replaces, RestartCreates

LEMMA LeavesKept ==
    ASSUME OneInv, NEW p \in Procs, Alive(p), NEW to \in {"none", "hung"}, Leaves(p, to)
    PROVE  OneInv'
  <1>1. /\ phase' = [phase EXCEPT ![p] = to]
        /\ closePosted' = [closePosted EXCEPT ![p] = FALSE]
        /\ restart' = [restart EXCEPT ![p] = "wait"]
        /\ UNCHANGED <<now, angel>>
    BY DEF Leaves
  <1>2. QED
    BY <1>1, ServiceEnds DEF OneInv, Present, Serving, Alive

LEMMA ProcessKept ==
    ASSUME OneInv, NEW p \in Procs,
           \/ ReaderBeats(p) \/ Watches(p) \/ Closes(p) \/ Exits(p) \/ Hangs(p) \/ Crashes(p)
           \/ OperatorStopsDaemon(p) \/ OperatorCloses(p)
    PROVE  OneInv'
  <1>1. CASE ReaderBeats(p) \/ OperatorStopsDaemon(p) \/ WatchdogSamples(p)
    BY <1>1, ServiceEnds DEF ReaderBeats, OperatorStopsDaemon, WatchdogSamples, proc, OneInv,
       Present, Serving, Alive
  <1>2. CASE WatchdogCompares(p) \/ OperatorCloses(p)
    <2>1. closePosted' \in {closePosted, [closePosted EXCEPT ![p] = TRUE]}
      BY <1>2 DEF WatchdogCompares, OperatorCloses
    <2>2. UNCHANGED <<now, phase, restart, angel>>
      BY <1>2 DEF WatchdogCompares, OperatorCloses
    <2>3. closePosted' \in [Procs -> BOOLEAN]
      BY <2>1 DEF OneInv
    <2>4. \A q \in Procs \ {p} : closePosted'[q] = closePosted[q]
      BY <2>1 DEF OneInv
    <2>5. Serving(p)' => Serving(p)
      BY <2>1, <2>2 DEF OneInv, Serving
    <2>6. QED
      BY <2>2, <2>3, <2>4, <2>5, ServiceEnds DEF OneInv, Present, Alive
  <1>3. CASE Closes(p)
    BY <1>3, ServiceEnds DEF Closes, OneInv, Present, Serving, Alive
  <1>4. CASE Exits(p) \/ Hangs(p) \/ Crashes(p)
    BY <1>4, LeavesKept DEF Exits, Hangs, Crashes, Alive
  <1>5. QED
    BY <1>1, <1>2, <1>3, <1>4 DEF Watches

LEMMA DaemonKept ==
    ASSUME OneInv, AngelLooks \/ AngelStarts \/ AngelEnds \/ OperatorStartsAngel
    PROVE  OneInv'
  <1>1. CASE AngelStarts
    <2>1. angel' = "loop" /\ UNCHANGED now
      BY <1>1 DEF AngelStarts
    <2>2. \A r \in Procs : ~Present(r) /\ restart[r] = "wait"
      BY <1>1 DEF AngelStarts, OneInv, Present, Alive
    <2>3. ASSUME NEW q \in Procs, Starts(q), restart' = [restart EXCEPT ![q] = "wait"]
          PROVE  OneInv'
      <3>1. restart' = restart
        BY <2>2, <2>3 DEF OneInv
      <3>2. QED
        BY <2>1, <2>2, <2>3, <3>1, StartKept DEF OneInv
    <2>4. CASE UNCHANGED proc
      BY <2>1, <2>4 DEF OneInv, proc, OneInstance, Serving, Present, OnlyPresent, Alive
    <2>5. QED
      BY <1>1, <2>3, <2>4 DEF AngelStarts
  <1>2. CASE AngelLooks \/ AngelEnds \/ OperatorStartsAngel
    BY <1>2 DEF AngelLooks, AngelEnds, OperatorStartsAngel, OneInv, proc, OneInstance, Serving,
       Present, OnlyPresent, Alive
  <1>3. QED
    BY <1>1, <1>2

LEMMA OneStep == OneInv /\ [Next]_vars => OneInv'
  <1>1. OneInv /\ UNCHANGED vars => OneInv'
    BY DEF vars, proc, OneInv, OneInstance, Serving, Present, OnlyPresent, Alive
  <1>2. QED
    BY <1>1, TickKept, ReplacesKept, ProcessKept, DaemonKept DEF Next

(* Two processes never serve side by side, for any number of processes and   *)
(* any clock, whatever daemon, restart thread, watchdog and operator do      *)
(* (CPlcTextDlg::Restart and OnDestroy, the daemon).                         *)
THEOREM OneInstanceHolds == Spec => []OneInstance
  <1>1. OneInv => OneInstance
    BY DEF OneInv
  <1>2. QED
    BY <1>1, OneStarts, OneStep, PTL DEF Spec

-----------------------------------------------------------------------------
LEMMA TypesStart == Init => TypeOK
  BY SupervisionAssumption DEF Init, TypeOK, Times

LEMMA StartsTypes ==
    ASSUME TypeOK, NEW p \in Procs, Starts(p)
    PROVE  /\ phase' \in [Procs -> {"none", "running", "closing", "hung"}]
           /\ closePosted' \in [Procs -> BOOLEAN]
           /\ m_nPLCHeartBeat' \in [Procs -> Times] /\ nTimeNow' \in [Procs -> Times]
           /\ watchdog' \in [Procs -> {"sample", "compare", "ended"}]
  <1>1. 0 \in Times
    BY SupervisionAssumption DEF Times
  <1>2. QED
    BY <1>1 DEF TypeOK, Starts

LEMMA ProcessTypes ==
    ASSUME TypeOK, NEW p \in Procs,
           \/ ReaderBeats(p) \/ Watches(p) \/ Replaces(p) \/ Closes(p) \/ Exits(p) \/ Hangs(p)
           \/ Crashes(p) \/ OperatorStopsDaemon(p) \/ OperatorCloses(p)
    PROVE  TypeOK'
  <1>1. CASE ReaderBeats(p) \/ Closes(p) \/ OperatorStopsDaemon(p) \/ OperatorCloses(p)
    BY <1>1 DEF TypeOK, ReaderBeats, Closes, OperatorStopsDaemon, OperatorCloses, proc
  <1>2. CASE Watches(p)
    BY <1>2, ZenonT(40) DEF TypeOK, Watches, WatchdogSamples, WatchdogCompares
  <1>3. CASE RestartDue(p) \/ RestartCloses(p)
    BY <1>3 DEF TypeOK, RestartDue, RestartCloses
  <1>4. CASE RestartCreates(p)
    <2>1. restart' \in [Procs -> {"wait", "sleep", "created", "done"}]
      BY <1>4 DEF RestartCreates, TypeOK
    <2>2. UNCHANGED <<now, angel, daemonRun>>
      BY <1>4 DEF RestartCreates
    <2>3. CASE \E q \in Procs : Starts(q)
      BY <2>1, <2>2, <2>3, StartsTypes DEF TypeOK
    <2>4. CASE ~\E q \in Procs : Starts(q)
      BY <1>4, <2>1, <2>2, <2>4 DEF RestartCreates, TypeOK
    <2>5. QED
      BY <2>3, <2>4
  <1>5. ASSUME NEW to \in {"none", "hung"}, Leaves(p, to) PROVE TypeOK'
    <2>1. 0 \in Times
      BY SupervisionAssumption DEF Times
    <2>2. QED
      BY <1>5, <2>1 DEF TypeOK, Leaves
  <1>6. QED
    BY <1>1, <1>2, <1>3, <1>4, <1>5 DEF Replaces, Exits, Hangs, Crashes

LEMMA DaemonTypes ==
    ASSUME TypeOK, Tick \/ AngelLooks \/ AngelStarts \/ AngelEnds \/ OperatorStartsAngel
    PROVE  TypeOK'
  <1>1. CASE Tick
    BY <1>1, SupervisionAssumption DEF TypeOK, Tick, proc, Times
  <1>2. CASE AngelLooks \/ AngelEnds \/ OperatorStartsAngel
    BY <1>2 DEF TypeOK, AngelLooks, AngelEnds, OperatorStartsAngel, proc
  <1>3. ASSUME AngelStarts, NEW q \in Procs, Starts(q), restart' = [restart EXCEPT ![q] = "wait"]
        PROVE  TypeOK'
    <2>1. UNCHANGED <<now, daemonRun>> /\ angel' = "loop"
      BY <1>3 DEF AngelStarts
    <2>2. restart' \in [Procs -> {"wait", "sleep", "created", "done"}]
      BY <1>3 DEF TypeOK
    <2>3. QED
      BY <1>3, <2>1, <2>2, StartsTypes DEF TypeOK
  <1>4. CASE AngelStarts /\ UNCHANGED proc
    BY <1>4 DEF TypeOK, AngelStarts, proc
  <1>5. QED
    BY <1>1, <1>2, <1>3, <1>4 DEF AngelStarts

LEMMA TypesStep == TypeOK /\ [Next]_vars => TypeOK'
  <1>1. TypeOK /\ UNCHANGED vars => TypeOK'
    BY DEF TypeOK, vars, proc
  <1>2. QED
    BY <1>1, ProcessTypes, DaemonTypes DEF Next

(* Clock readings stay within the clock, and threads and processes within    *)
(* their states, so that Span compares times there have been.                *)
THEOREM SupervisionTypes == Spec => []TypeOK
  <1>1. QED
    BY TypesStart, TypesStep, PTL DEF Spec

-----------------------------------------------------------------------------
(* The watchdog's arithmetic: what the run supervision_early finds is the    *)
(* only way to be closed early.                                              *)

\* The reader wrote a heartbeat after the watchdog had read the clock.
Overtaken(p) == m_nPLCHeartBeat[p] > nTimeNow[p]

\* What the watchdog means to test, of its own reading of the clock.
SilentWhenSampled(p) == nTimeNow[p] - m_nPLCHeartBeat[p] > Timeout

LEMMA Remainder ==
    ASSUME NEW b \in Nat, NEW a \in Nat, a < b
    PROVE  a % b = a /\ (a # 0 => (-a) % b = b - a)
  OBVIOUS

(* The unsigned difference exceeds the timeout if the heartbeat is too old   *)
(* and, because it wraps, whenever it is newer than the reading of the clock.*)
LEMMA SpanIs ==
    ASSUME TypeOK, NEW p \in Procs
    PROVE  Span(p) > Timeout <=> SilentWhenSampled(p) \/ Overtaken(p)
  <1> DEFINE t == nTimeNow[p] b == m_nPLCHeartBeat[p] w == 2 ^ Width
  <1>1. t \in 0..MaxTime /\ b \in 0..MaxTime /\ MaxTime \in Nat /\ Timeout \in Nat
    BY SupervisionAssumption DEF TypeOK, Times
  <1>2. w \in Nat /\ MaxTime + Timeout < w
    BY SupervisionAssumption
  <1>3. Span(p) = (t - b) % w
    BY DEF Span
  <1> HIDE DEF t, b, w
  <1>4. CASE b <= t
    <2>1. t - b \in Nat /\ t - b < w
      BY <1>1, <1>2, <1>4
    <2>2. Span(p) = t - b
      BY <1>2, <1>3, <2>1, Remainder
    <2>3. QED
      BY <1>1, <1>4, <2>2 DEF SilentWhenSampled, Overtaken, t, b
  <1>5. CASE t < b
    <2>1. b - t \in Nat /\ b - t < w /\ b - t # 0 /\ -(b - t) = t - b
      BY <1>1, <1>2, <1>5
    <2>2. Span(p) = w - (b - t)
      BY <1>2, <1>3, <2>1, Remainder
    <2>3. w - (b - t) > Timeout
      BY <1>1, <1>2
    <2>4. QED
      BY <1>5, <2>2, <2>3 DEF Overtaken, t, b
  <1>6. QED
    BY <1>1, <1>4, <1>5

\* No reading of the clock lies ahead of the clock.
ReadingsInv == TypeOK /\ \A p \in Procs : nTimeNow[p] <= now /\ m_nPLCHeartBeat[p] <= now

LEMMA ReadingsStart == Init => ReadingsInv
  BY TypesStart DEF ReadingsInv, Init

LEMMA ReadingsStep == ReadingsInv /\ [Next]_vars => ReadingsInv'
  <1> SUFFICES ASSUME ReadingsInv, [Next]_vars PROVE ReadingsInv'
    OBVIOUS
  <1>1. TypeOK /\ TypeOK'
    BY TypesStep DEF ReadingsInv
  <1>2. now \in Nat /\ now' \in Nat /\ 0 <= now
    BY <1>1, SupervisionAssumption DEF TypeOK, Times
  <1>3. ASSUME UNCHANGED now,
               \A p \in Procs : /\ nTimeNow'[p] \in {nTimeNow[p], now, 0}
                                /\ m_nPLCHeartBeat'[p] \in {m_nPLCHeartBeat[p], now, 0}
        PROVE  ReadingsInv'
    <2>1. ASSUME NEW p \in Procs
          PROVE  nTimeNow'[p] <= now /\ m_nPLCHeartBeat'[p] <= now
      <3>1. nTimeNow[p] <= now /\ m_nPLCHeartBeat[p] <= now
        BY DEF ReadingsInv
      <3>2. QED
        BY <1>2, <1>3, <3>1
    <2>2. QED
      BY <1>1, <1>3, <2>1 DEF ReadingsInv
  <1>4. CASE Tick
    <2>1. now' = now + 1 /\ UNCHANGED <<nTimeNow, m_nPLCHeartBeat>>
      BY <1>4 DEF Tick, proc
    <2>2. ASSUME NEW p \in Procs
          PROVE  nTimeNow[p] <= now + 1 /\ m_nPLCHeartBeat[p] <= now + 1
      <3>1. nTimeNow[p] \in Nat /\ m_nPLCHeartBeat[p] \in Nat
        BY <1>1, SupervisionAssumption DEF TypeOK, Times
      <3>2. nTimeNow[p] <= now /\ m_nPLCHeartBeat[p] <= now
        BY DEF ReadingsInv
      <3>3. QED
        BY <1>2, <3>1, <3>2
    <2>3. QED
      BY <1>1, <2>1, <2>2 DEF ReadingsInv
  <1>5. ASSUME NEW p \in Procs, ReaderBeats(p) \/ Watches(p) PROVE ReadingsInv'
    BY <1>1, <1>3, <1>5 DEF ReaderBeats, Watches, WatchdogSamples, WatchdogCompares, TypeOK
  <1>6. ASSUME NEW q \in Procs, Starts(q), UNCHANGED now PROVE ReadingsInv'
    BY <1>1, <1>3, <1>6 DEF Starts, TypeOK
  <1>7. ASSUME UNCHANGED <<now, nTimeNow, m_nPLCHeartBeat>> PROVE ReadingsInv'
    BY <1>3, <1>7
  <1>8. ASSUME NEW p \in Procs, Replaces(p) PROVE ReadingsInv'
    BY <1>6, <1>7, <1>8 DEF Replaces, RestartDue, RestartCreates, RestartCloses
  <1>9. ASSUME NEW p \in Procs, Exits(p) \/ Hangs(p) \/ Crashes(p) PROVE ReadingsInv'
    BY <1>1, <1>3, <1>9 DEF Exits, Hangs, Crashes, Leaves, TypeOK
  <1>10. ASSUME NEW p \in Procs, Closes(p) \/ OperatorStopsDaemon(p) \/ OperatorCloses(p)
         PROVE  ReadingsInv'
    BY <1>7, <1>10 DEF Closes, OperatorStopsDaemon, OperatorCloses, proc
  <1>11. CASE AngelLooks \/ AngelStarts \/ AngelEnds \/ OperatorStartsAngel \/ UNCHANGED vars
    BY <1>6, <1>7, <1>11 DEF AngelLooks, AngelStarts, AngelEnds, OperatorStartsAngel, proc, vars
  <1>12. QED
    BY <1>4, <1>5, <1>8, <1>9, <1>10, <1>11 DEF Next

(* What is left of ClosedOnlyWhenSilent: the watchdog (ThreadWatchDog)       *)
(* closes a process that is not silent only if the reader wrote a heartbeat  *)
(* between the watchdog's two readings, whatever other threads, the daemon   *)
(* and the operator do, for any timeout and width.                           *)
ClosedEarlyOnlyIfOvertaken ==
    [][\A p \in Procs : WatchdogCompares(p) /\ closePosted'[p] /\ ~closePosted[p]
         => now - m_nPLCHeartBeat[p] > Timeout \/ Overtaken(p)]_vars
THEOREM EarlyOnlyIfOvertaken == Spec => ClosedEarlyOnlyIfOvertaken
  <1> DEFINE Silence(p) == now - m_nPLCHeartBeat[p] > Timeout
             Claim(p) == WatchdogCompares(p) /\ closePosted'[p] /\ ~closePosted[p]
                           => Silence(p) \/ Overtaken(p)
  <1>1. ASSUME ReadingsInv, NEW p \in Procs, WatchdogCompares(p), closePosted'[p], ~closePosted[p]
        PROVE  Silence(p) \/ Overtaken(p)
    <2>1. Span(p) > Timeout
      <3>1. CASE ~(Span(p) > Timeout)
        <4>1. closePosted' = closePosted
          BY <1>1, <3>1 DEF WatchdogCompares
        <4>2. QED
          BY <1>1, <4>1
      <3>2. QED
        BY <3>1
    <2>2. CASE SilentWhenSampled(p)
      <3>1. /\ now \in Nat /\ nTimeNow[p] \in Nat /\ m_nPLCHeartBeat[p] \in Nat /\ Timeout \in Nat
            /\ nTimeNow[p] <= now
        BY <1>1, SupervisionAssumption DEF ReadingsInv, TypeOK, Times
      <3>2. QED
        BY <2>2, <3>1 DEF SilentWhenSampled
    <2>3. QED
      BY <1>1, <2>1, <2>2, SpanIs DEF ReadingsInv
  <1>2. ReadingsInv => [\A p \in Procs : Claim(p)]_vars
    BY <1>1
  <1>3. QED
    BY <1>2, ReadingsStart, ReadingsStep, PTL DEF Spec, ClosedEarlyOnlyIfOvertaken

(* The other half: a silence at the time of the first reading is always      *)
(* found, and an overtaken comparison always closes the process, silent or   *)
(* not, so that the defect strikes whenever the reader writes just there.    *)
SilentOrOvertakenIsClosed ==
    [][\A p \in Procs : WatchdogCompares(p) /\ (SilentWhenSampled(p) \/ Overtaken(p))
         => closePosted'[p]]_vars
THEOREM SilentOrOvertakenClosed == Spec => SilentOrOvertakenIsClosed
  <1> DEFINE Claim(p) == WatchdogCompares(p) /\ (SilentWhenSampled(p) \/ Overtaken(p))
                           => closePosted'[p]
  <1>1. ASSUME TypeOK, NEW p \in Procs, WatchdogCompares(p),
               SilentWhenSampled(p) \/ Overtaken(p)
        PROVE  closePosted'[p]
    <2>1. closePosted' = [closePosted EXCEPT ![p] = TRUE]
      BY <1>1, SpanIs DEF WatchdogCompares
    <2>2. QED
      BY <1>1, <2>1 DEF TypeOK
  <1>2. TypeOK => [\A p \in Procs : Claim(p)]_vars
    BY <1>1
  <1>3. QED
    BY <1>2, TypesStart, TypesStep, PTL DEF Spec, SilentOrOvertakenIsClosed

-----------------------------------------------------------------------------
(* Why KeptRunning must except a process that hangs.                         *)

\* A process hangs in OnDestroy, and no other one is there to do anything.
Outage ==
    /\ \E p \in Procs : phase[p] = "hung"
    /\ \A p \in Procs : phase[p] \in {"none", "hung"}

(* The daemon takes a hung process for a running one (FindProcess goes by    *)
(* the name): once the last process hangs on its way out, neither the daemon *)
(* nor a restart thread ever starts one again; it takes an operator to kill  *)
(* it.                                                                       *)
OutageStays == [](Outage => []Outage)
THEOREM OutageForEver == Spec => OutageStays
  <1>1. OneInv /\ Outage /\ [Next]_vars => Outage'
    <2> SUFFICES ASSUME OneInv, Outage, [Next]_vars PROVE Outage'
      OBVIOUS
    <2>1. \A p \in Procs : ~Alive(p) /\ phase[p] # "running" /\ phase[p] # "closing"
      BY DEF Outage, Alive
    <2>2. ASSUME UNCHANGED phase PROVE Outage'
      BY <2>2 DEF Outage
    <2>3. angel # "start"
      BY DEF OneInv, Outage, Present
    <2>4. ASSUME NEW p \in Procs,
                 \/ ReaderBeats(p) \/ Watches(p) \/ Replaces(p)
                 \/ Closes(p) \/ Exits(p) \/ Hangs(p) \/ Crashes(p)
                 \/ OperatorStopsDaemon(p) \/ OperatorCloses(p)
          PROVE  FALSE
      BY <2>1, <2>4 DEF ReaderBeats, Watches, WatchdogSamples, WatchdogCompares, Replaces,
         RestartDue, RestartCreates, RestartCloses, Closes, Exits, Hangs, Crashes,
         OperatorStopsDaemon, OperatorCloses
    <2>5. CASE Tick \/ AngelLooks \/ AngelStarts \/ AngelEnds \/ OperatorStartsAngel \/ UNCHANGED vars
      BY <2>2, <2>3, <2>5 DEF Tick, AngelLooks, AngelStarts, AngelEnds, OperatorStartsAngel, proc, vars
    <2>6. QED
      BY <2>4, <2>5 DEF Next
  <1>2. QED
    BY <1>1, OneStarts, OneStep, PTL DEF Spec, OutageStays
=============================================================================
