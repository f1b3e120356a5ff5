----------------------------- MODULE Supervision -----------------------------
(***************************************************************************)
(* Who starts and who closes PlcText.exe: its watchdog, which closes it    *)
(* when the PLC reader has been silent for too long, the thread that       *)
(* replaces it by a new process once a day, the operator, and the daemon   *)
(* Angel, which starts it whenever it finds no process of that name.       *)
(*                                                                         *)
(* Time is a count of the system clock's ticks; times are unsigned numbers *)
(* of Width bits (64 in the code).                                         *)
(***************************************************************************)
EXTENDS Integers, FiniteSets

CONSTANTS
    Timeout,   \* PLCWatchdog/Timeout of softset.ini
    RestartAt, \* RESTART/time: the tick at which the process is to be replaced
    Width,     \* bits of a time
    MaxTime,   \* bound: the clock stops there
    MaxProcs,  \* bound: processes present at once
    MayHang    \* can closing hang (ClientThreads: a lock lost with a killed thread)

ASSUME SupervisionAssumption ==
    /\ Timeout \in Nat /\ RestartAt \in Nat /\ MaxTime \in Nat
    /\ Width \in Nat /\ 2 ^ Width \in Nat /\ MaxTime + Timeout < 2 ^ Width
    /\ MaxProcs \in Nat \ {0} /\ MayHang \in BOOLEAN

Procs == 1..MaxProcs
Times == 0..MaxTime

VARIABLES
    now,
    phase,           \* process -> "none", "running", "closing" (OnDestroy) or "hung" in it
    closePosted,     \* process -> is SC_CLOSE in its message queue
    m_nPLCHeartBeat, \* process -> when its reader last got data
    nTimeNow,        \* process -> the watchdog's reading of the clock
    watchdog,        \* process -> where its watchdog is: "sample", "compare" or "ended"
    restart,         \* process -> its restart thread: "wait", "sleep", "created" or "done"
    angel,           \* the daemon: "loop", "start" or "gone"
    daemonRun        \* g_bDeamonRun, shared by the processes

proc == <<phase, closePosted, m_nPLCHeartBeat, nTimeNow, watchdog, restart>>
vars == <<now, proc, angel, daemonRun>>

TypeOK ==
    /\ now \in Times
    /\ phase \in [Procs -> {"none", "running", "closing", "hung"}]
    /\ closePosted \in [Procs -> BOOLEAN]
    /\ m_nPLCHeartBeat \in [Procs -> Times] /\ nTimeNow \in [Procs -> Times]
    /\ watchdog \in [Procs -> {"sample", "compare", "ended"}]
    /\ restart \in [Procs -> {"wait", "sleep", "created", "done"}]
    /\ angel \in {"loop", "start", "gone"}
    /\ daemonRun \in BOOLEAN

\* The daemon has just been started and no PlcText.exe is there.
Init ==
    /\ now = 0
    /\ phase = [p \in Procs |-> "none"]
    /\ closePosted = [p \in Procs |-> FALSE]
    /\ m_nPLCHeartBeat = [p \in Procs |-> 0] /\ nTimeNow = [p \in Procs |-> 0]
    /\ watchdog = [p \in Procs |-> "sample"]
    /\ restart = [p \in Procs |-> "wait"]
    /\ angel = "loop" /\ daemonRun = TRUE

Tick ==
    /\ now < MaxTime /\ now' = now + 1
    /\ UNCHANGED <<proc, angel, daemonRun>>

\* CreateProcess: OnInitDialog starts the reader, which sets its heartbeat
\* first, then the watchdog and the restart thread.
Starts(p) ==
    /\ phase[p] = "none"
    /\ phase' = [phase EXCEPT ![p] = "running"]
    /\ closePosted' = [closePosted EXCEPT ![p] = FALSE]
    /\ m_nPLCHeartBeat' = [m_nPLCHeartBeat EXCEPT ![p] = now]
    /\ nTimeNow' = [nTimeNow EXCEPT ![p] = 0]
    /\ watchdog' = [watchdog EXCEPT ![p] = "sample"]

-----------------------------------------------------------------------------
(* Within a process. *)

\* ReadPLCDataProcess has read a DB.
ReaderBeats(p) ==
    /\ phase[p] = "running" /\ m_nPLCHeartBeat[p] # now
    /\ m_nPLCHeartBeat' = [m_nPLCHeartBeat EXCEPT ![p] = now]
    /\ UNCHANGED <<now, phase, closePosted, nTimeNow, watchdog, restart, angel, daemonRun>>

WatchdogSamplesDeadline(p) == \* mutant: keeps the oldest heartbeat allowed, below 0 at first
    /\ phase[p] = "running" /\ watchdog[p] = "sample"
    /\ watchdog' = [watchdog EXCEPT ![p] = "compare"]
    /\ nTimeNow' = [nTimeNow EXCEPT ![p] = now - Timeout]
    /\ UNCHANGED <<now, phase, closePosted, m_nPLCHeartBeat, restart, angel, daemonRun>>
WatchdogSamples(p) ==
    /\ phase[p] = "running" /\ watchdog[p] = "sample"
    /\ watchdog' = [watchdog EXCEPT ![p] = "compare"]
    /\ nTimeNow' = [nTimeNow EXCEPT ![p] = now]
    /\ UNCHANGED <<now, phase, closePosted, m_nPLCHeartBeat, restart, angel, daemonRun>>

\* The heartbeat is read after the clock.  Both are unsigned.
Span(p) == (nTimeNow[p] - m_nPLCHeartBeat[p]) % 2 ^ Width

WatchdogNeverLooksAgain(p) == \* mutant: the clock is read before the loop only
    /\ phase[p] = "running" /\ watchdog[p] = "compare"
    /\ Span(p) > Timeout
    /\ watchdog' = [watchdog EXCEPT ![p] = "ended"]
    /\ closePosted' = [closePosted EXCEPT ![p] = TRUE]
    /\ UNCHANGED <<now, phase, m_nPLCHeartBeat, nTimeNow, restart, angel, daemonRun>>
WatchdogCompares(p) ==
    /\ phase[p] = "running" /\ watchdog[p] = "compare"
    /\ IF Span(p) > Timeout
       THEN /\ watchdog' = [watchdog EXCEPT ![p] = "ended"]
            /\ closePosted' = [closePosted EXCEPT ![p] = TRUE]
       ELSE /\ watchdog' = [watchdog EXCEPT ![p] = "sample"]
            /\ UNCHANGED closePosted
    /\ UNCHANGED <<now, phase, m_nPLCHeartBeat, nTimeNow, restart, angel, daemonRun>>

\* The restart thread goes on while the main thread is in OnDestroy, until it
\* is killed there.
Alive(p) == phase[p] \in {"running", "closing"}

RestartDue(p) ==
    /\ phase[p] = "running" /\ restart[p] = "wait" /\ now = RestartAt
    /\ restart' = [restart EXCEPT ![p] = "sleep"]
    /\ UNCHANGED <<now, phase, closePosted, m_nPLCHeartBeat, nTimeNow, watchdog, angel, daemonRun>>

\* Sleep(1000) takes it past the second; then it starts a process of its own
\* name, which fails at times, twice over.
RestartCreates(p) ==
    /\ Alive(p) /\ restart[p] = "sleep" /\ now > RestartAt
    /\ \/ \E q \in Procs :
            /\ Starts(q)
            /\ restart' = [restart EXCEPT ![p] = "created", ![q] = "wait"]
       \/ /\ restart' = [restart EXCEPT ![p] = "created"]
          /\ UNCHANGED <<phase, closePosted, m_nPLCHeartBeat, nTimeNow, watchdog>>
    /\ UNCHANGED <<now, angel, daemonRun>>

RestartCloses(p) ==
    /\ Alive(p) /\ restart[p] = "created"
    /\ restart' = [restart EXCEPT ![p] = "done"]
    /\ closePosted' = [closePosted EXCEPT ![p] = TRUE]
    /\ UNCHANGED <<now, phase, m_nPLCHeartBeat, nTimeNow, watchdog, angel, daemonRun>>

\* The main thread takes the message; OnDestroy waits for the watchdog first.
Closes(p) ==
    /\ phase[p] = "running" /\ closePosted[p]
    /\ phase' = [phase EXCEPT ![p] = "closing"]
    /\ watchdog' = [watchdog EXCEPT ![p] = "ended"]
    /\ UNCHANGED <<now, closePosted, m_nPLCHeartBeat, nTimeNow, restart, angel, daemonRun>>

\* A slot is reset, so that processes that are gone are all alike.
Leaves(p, to) ==
    /\ phase' = [phase EXCEPT ![p] = to]
    /\ closePosted' = [closePosted EXCEPT ![p] = FALSE]
    /\ m_nPLCHeartBeat' = [m_nPLCHeartBeat EXCEPT ![p] = 0]
    /\ nTimeNow' = [nTimeNow EXCEPT ![p] = 0]
    /\ watchdog' = [watchdog EXCEPT ![p] = "sample"]
    /\ restart' = [restart EXCEPT ![p] = "wait"]
    /\ UNCHANGED <<now, angel, daemonRun>>

Exits(p)   == phase[p] = "closing" /\ Leaves(p, "none")
Hangs(p)   == MayHang /\ phase[p] = "closing" /\ Leaves(p, "hung")
Crashes(p) == Alive(p) /\ Leaves(p, "none")

-----------------------------------------------------------------------------
(* The daemon and the operator. *)

PresentIfOpen(p) == phase[p] = "running" \* mutant: a process on its way out is not counted
Present(p) == phase[p] # "none"

\* FindProcess, then StartProcess, which may fail, then Sleep.
AngelLooks ==
    /\ angel = "loop" /\ daemonRun
    /\ ~\E p \in Procs : Present(p)
    /\ angel' = "start"
    /\ UNCHANGED <<now, proc, daemonRun>>

AngelGivesUp == \* mutant: leaves its loop when StartProcess fails
    /\ angel = "start"
    /\ \/ /\ angel' = "loop"
          /\ \E q \in Procs : Starts(q) /\ restart' = [restart EXCEPT ![q] = "wait"]
       \/ angel' = "gone" /\ UNCHANGED proc
    /\ UNCHANGED <<now, daemonRun>>
AngelStarts ==
    /\ angel = "start"
    /\ angel' = "loop"
    /\ \/ \E q \in Procs : Starts(q) /\ restart' = [restart EXCEPT ![q] = "wait"]
       \/ UNCHANGED proc
    /\ UNCHANGED <<now, daemonRun>>

AngelEnds ==
    /\ angel = "loop" /\ ~daemonRun
    /\ angel' = "gone"
    /\ UNCHANGED <<now, proc, daemonRun>>

\* A second daemon ends at once: the mutex is there as long as the first is.
OperatorStartsAngel ==
    /\ angel = "gone"
    /\ angel' = "loop" /\ daemonRun' = TRUE
    /\ UNCHANGED <<now, proc>>

\* IDM_STOPDAEMON of the window's menu.
OperatorStopsDaemon(p) ==
    /\ phase[p] = "running" /\ daemonRun
    /\ daemonRun' = FALSE
    /\ UNCHANGED <<now, proc, angel>>

OperatorCloses(p) ==
    /\ phase[p] = "running" /\ ~closePosted[p]
    /\ closePosted' = [closePosted EXCEPT ![p] = TRUE]
    /\ UNCHANGED <<now, phase, m_nPLCHeartBeat, nTimeNow, watchdog, restart, angel, daemonRun>>

Watches(p)  == WatchdogSamples(p) \/ WatchdogCompares(p)
Replaces(p) == RestartDue(p) \/ RestartCreates(p) \/ RestartCloses(p)

Next ==
    \/ Tick
    \/ \E p \in Procs :
         \/ ReaderBeats(p) \/ Watches(p) \/ Replaces(p)
         \/ Closes(p) \/ Exits(p) \/ Hangs(p) \/ Crashes(p)
         \/ OperatorStopsDaemon(p) \/ OperatorCloses(p)
    \/ AngelLooks \/ AngelStarts \/ AngelEnds \/ OperatorStartsAngel

Spec == Init /\ [][Next]_vars

(* Threads and processes that can run do; the daemon's CreateProcess does    *)
(* not fail for ever.                                                        *)
FairSpec ==
    /\ Spec
    /\ \A p \in Procs :
         WF_vars(Watches(p)) /\ WF_vars(Replaces(p)) /\ WF_vars(Closes(p)) /\ WF_vars(Exits(p))
    /\ WF_vars(AngelLooks) /\ WF_vars(AngelStarts) /\ WF_vars(AngelEnds)
    /\ SF_vars(AngelStarts /\ \E p \in Procs : phase'[p] # phase[p])

-----------------------------------------------------------------------------
(* Two processes never read the PLC and drive the TV walls side by side,     *)
(* whatever daemon, restart thread and watchdog do at once, but for the one  *)
(* that has just started its successor and not yet closed itself.            *)
Serving(p) == phase[p] = "running" /\ ~closePosted[p] /\ restart[p] # "created"
OneInstance == \A p, q \in Procs : Serving(p) /\ Serving(q) => p = q

(* A process whose reader stays silent is closed, even when the silence sets *)
(* in between the two readings the watchdog compares.                        *)
Silent(p) == phase[p] = "running" /\ now - m_nPLCHeartBeat[p] > Timeout
SilenceEnds == \A p \in Procs : Silent(p) ~> (~Silent(p) \/ closePosted[p])

(* There is always a running process again, whoever closed the last one,     *)
(* unless the daemon was stopped or a process hangs on its way out, which    *)
(* the daemon takes for a running one.                                       *)
KeptRunning ==
    \/ []<>(\E p \in Procs : phase[p] = "running")
    \/ <>(~daemonRun) \/ <>(\E p \in Procs : phase[p] = "hung")

(* "if this value is not refreshed for some time, the software restarts"     *)
(* (Client.h, of m_nPLCHeartBeat): the watchdog closes only a silent one.    *)
ClosedOnlyWhenSilent ==
    [][\A p \in Procs : WatchdogCompares(p) /\ closePosted'[p] /\ ~closePosted[p]
         => now - m_nPLCHeartBeat[p] > Timeout]_vars
=============================================================================
