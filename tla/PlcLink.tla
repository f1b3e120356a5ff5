------------------------------ MODULE PlcLink -------------------------------
(***************************************************************************)
(* The connections to the PLC or to the Modbus servers, and the state of   *)
(* the cameras written to them.                                            *)
(*                                                                         *)
(* Three threads use a connection, each with m_lockClient held: one logs   *)
(* in, one reads, and the host's one reports camera states (SetIpcState).  *)
(* A read that fails is what tells a connection is gone; the result of a   *)
(* write is not looked at.                                                 *)
(***************************************************************************)
EXTENDS Integers, FiniteSets

CONSTANTS
    Plc,       \* the client of PLC mode
    Servers,   \* the clients of Modbus mode
    Cams,      \* cameras in the group files
    MaxFaults  \* bound: failures of the network, of the servers and of requests

ASSUME LinkAssumption == Plc \in Servers /\ MaxFaults \in Nat

VARIABLES
    mode,      \* PLCORMODBUS of General.ini
    connected, \* m_bConnect
    session,   \* the connection last made: "none", "live" or "dead"
    reachable, \* whether a server answers
    stored,    \* m_stIpcOnlineState, m_stModbusIpcOnlineState: server -> camera -> state
    shown,     \* server -> camera -> whether its registers say the camera is online
    heard,     \* history: server -> camera -> the last state reported while connected
    vain,      \* history: <<server, camera>> whose last change was not written, or was wiped out
    faults

link == <<connected, session, reachable, stored, shown, heard, vain>>

States  == {0, 1, 2} \* 2: online
On(state) == state = 2
Clients == CASE mode = "plc" -> {Plc} [] mode = "modbus" -> Servers [] OTHER -> {}

LinkTypeOK ==
    /\ connected \in [Servers -> BOOLEAN] /\ reachable \in [Servers -> BOOLEAN]
    /\ session \in [Servers -> {"none", "live", "dead"}]
    /\ stored \in [Servers -> [Cams -> States]] /\ heard \in [Servers -> [Cams -> States]]
    /\ shown \in [Servers -> [Cams -> BOOLEAN]]
    /\ vain \subseteq Servers \X Cams
    /\ faults \in 0..MaxFaults

\* The registers may still hold what an earlier run of the program wrote.
LinkInit ==
    /\ connected = [s \in Servers |-> FALSE] /\ session = [s \in Servers |-> "none"]
    /\ reachable = [s \in Servers |-> TRUE]
    /\ stored = [s \in Servers |-> [c \in Cams |-> 0]] /\ heard = stored
    /\ \E left \in [Cams -> BOOLEAN] :
          shown = [s \in Servers |-> [c \in Cams |-> s \in Clients /\ left[c]]]
    /\ vain = {x \in Servers \X Cams : shown[x[1]][x[2]]}

Fault == faults < MaxFaults /\ faults' = faults + 1

-----------------------------------------------------------------------------
(* Login and LoginModbus, called for each client once a second. *)

AlreadyInHandle(s) == session[s] # "none" \* mutant: goes by the handle
AlreadyIn(s) == connected[s]

Login(s) ==
    /\ s \in Clients /\ ~AlreadyIn(s)
    /\ \/ /\ reachable[s]
          /\ connected' = [connected EXCEPT ![s] = TRUE]
          /\ session' = [session EXCEPT ![s] = "live"]
          /\ UNCHANGED faults
       \/ /\ reachable[s] /\ Fault \* refused
          /\ UNCHANGED <<connected, session>>
    /\ UNCHANGED <<mode, reachable, stored, shown, heard, vain>>

(* ReadPLCDataProcess and ReadModbusDataProcess, as far as the connection    *)
(* goes; Modbus closes it at once, S7 leaves it as it is.                    *)
ReadFails(s) ==
    /\ s \in Clients /\ connected[s]
    /\ \/ session[s] = "dead" /\ UNCHANGED faults
       \/ session[s] = "live" /\ Fault
    /\ connected' = [connected EXCEPT ![s] = FALSE]
    /\ session' = [session EXCEPT ![s] = IF mode = "modbus" THEN "none" ELSE @]
    /\ UNCHANGED <<mode, reachable, stored, shown, heard, vain>>

(* SetIpcState: CheckWriteIpcState of every client, for one camera.          *)

TakesAlways(s, c, state) == state # stored[s][c] \* mutant: with no connection too
Takes(s, c, state) == connected[s] /\ state # stored[s][c]

Reports(c, state) ==
    LET takes == {s \in Clients : Takes(s, c, state)}
    IN  \E fails \in SUBSET takes :
        /\ {s \in takes : session[s] # "live"} \subseteq fails
        /\ IF \E s \in fails : session[s] = "live" THEN Fault ELSE UNCHANGED faults
        /\ stored' = [s \in Servers |->
                IF s \in takes THEN [stored[s] EXCEPT ![c] = state] ELSE stored[s]]
        /\ shown' = [s \in Servers |->
                IF s \in takes \ fails THEN [shown[s] EXCEPT ![c] = On(state)] ELSE shown[s]]
        /\ vain' = (vain \ {<<s, c>> : s \in takes}) \cup {<<s, c>> : s \in {f \in fails : connected[f]}}
        /\ heard' = [s \in Servers |->
                IF connected[s] THEN [heard[s] EXCEPT ![c] = state] ELSE heard[s]]
        /\ UNCHANGED <<mode, connected, session, reachable>>

-----------------------------------------------------------------------------
(* The network and the servers. *)

LinkBreaks(s) ==
    /\ s \in Clients /\ reachable[s] /\ Fault
    /\ reachable' = [reachable EXCEPT ![s] = FALSE]
    /\ session' = [session EXCEPT ![s] = IF @ = "live" THEN "dead" ELSE @]
    /\ UNCHANGED <<mode, connected, stored, shown, heard, vain>>

LinkMended(s) ==
    /\ ~reachable[s] /\ reachable' = [reachable EXCEPT ![s] = TRUE]
    /\ UNCHANGED <<mode, connected, session, stored, shown, heard, vain, faults>>

\* A server that starts anew has its registers cleared.
ServerRestarts(s) ==
    /\ s \in Clients /\ reachable[s] /\ Fault
    /\ session' = [session EXCEPT ![s] = IF @ = "live" THEN "dead" ELSE @]
    /\ shown' = [shown EXCEPT ![s] = [c \in Cams |-> FALSE]]
    /\ vain' = vain \cup {<<s, c>> : c \in {k \in Cams : shown[s][k]}}
    /\ UNCHANGED <<mode, connected, reachable, stored, heard>>

LinkNext ==
    \/ \E s \in Servers : Login(s) \/ ReadFails(s) \/ LinkBreaks(s) \/ LinkMended(s) \/ ServerRestarts(s)
    \/ \E c \in Cams, state \in States : Reports(c, state)

\* Both threads go round for ever; a read of a dead connection fails at last.
LinkFairness ==
    \A s \in Servers :
        WF_link(Login(s)) /\ WF_link(session[s] = "dead" /\ ReadFails(s))

-----------------------------------------------------------------------------
(* What a server's registers say of a camera is the state last reported      *)
(* while it was connected: reports dropped before are made up for by the     *)
(* next one, and reconnecting forgets nothing; unless the write failed or    *)
(* the server has started anew since (CheckWriteIpcState, WriteIpcState).    *)
StateOnPlc ==
    \A s \in Clients, c \in Cams :
        <<s, c>> \notin vain => shown[s][c] = On(heard[s][c])

(* A server that stays reachable is connected again, however its sessions    *)
(* ended, and whatever becomes of the other servers (RunReConnect,           *)
(* RunReConnectModbus).                                                      *)
LinkComesBack ==
    \A s \in Servers :
        <>[](s \in Clients /\ reachable[s]) => <>[](connected[s] /\ session[s] = "live")
=============================================================================
