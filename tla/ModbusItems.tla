----------------------------- MODULE ModbusItems ----------------------------
(***************************************************************************)
(* What the Modbus reader does with the registers of a crane (the loop of  *)
(* CClient::ReadModbusDataProcess): the switch register names the console  *)
(* (desk) the crane is driven from, 0 for none, the bits of a second       *)
(* request the modes asked for on each of its screens.                     *)
(***************************************************************************)
EXTENDS Desks

CONSTANTS
    Desks,      \* the consoles the switch register may name
    Screens,    \* 1..screen_num of modbus.ini
    PlcScreens, \* nScreenNum of PLC mode, which ClearPriority goes by
    Priority,   \* <<screen, mode>> with an address -> its priority (m_ModbusScreenAddMap)
    WallOf,     \* Displayed -> the TV wall (ip, port)
    BitImages   \* crane -> the bits its registers may hold (all of them, or fewer for TLC)

\* The 32*32 bytes of old values that memset clears hold the screens 0 to 15.
ASSUME ModbusAssumption ==
    /\ Desks \subseteq 1..MaxCrane /\ Screens \subseteq 1..15 /\ PlcScreens \in Nat
    /\ DOMAIN Priority \subseteq Screens \X (1..TopMode)
    /\ \A x \in DOMAIN Priority : Priority[x] \in 0..255
    /\ DOMAIN WallOf = Displayed
    /\ DOMAIN BitImages = Rmgs
    /\ \A g \in Rmgs : BitImages[g] \subseteq SUBSET DOMAIN Priority

VARIABLES
    console,  \* m_stGroupSwitchState: crane -> its desk
    cells,    \* m_MapScreenState: crane -> the <<screen, mode>> cells that are 1
    answered, \* m_mapPriority: crane -> screen -> the priority last answered
    asked     \* history: crane -> screen -> the mode last asked for on its desk

Unasked == <<>>

modbusItems == <<console, cells, answered, asked>>

ModbusTypeOK ==
    /\ console \in [Rmgs -> {0} \cup Desks]
    /\ cells \in [Rmgs -> SUBSET (Screens \X Marks)]
    /\ answered \in [Rmgs -> [Screens -> 0..255]]
    /\ asked \in [Rmgs -> [Screens -> Marks] \cup {Unasked}]

ModbusInit ==
    /\ console = [g \in Rmgs |-> 0] /\ cells = [g \in Rmgs |-> {}]
    /\ answered = [g \in Rmgs |-> [s \in Screens |-> 0]]
    /\ asked = [g \in Rmgs |-> Unasked]

-----------------------------------------------------------------------------
(* A hand-over: the walls of the desk the crane leaves are closed, its       *)
(* priorities and old values forgotten, and the old values of the crane that *)
(* has that desk's number.  A release (0) is noted, and nothing else.        *)

HandedOver(g, desk) == desk \notin {0, console[g]}

PrioritiesKept(g, desk) == answered[g] \* mutant: ClearPriority left out
PrioritiesLeft(g, desk) ==
    [s \in Screens |-> IF HandedOver(g, desk) /\ s <= PlcScreens THEN 0 ELSE answered[g][s]]

CellsLeft(g, desk) ==
    [c \in Rmgs |-> IF HandedOver(g, desk) /\ c \in {g, console[g]} THEN {} ELSE cells[c]]

OnWall == [x \in Displayed |-> {y \in Displayed : WallOf[y] = WallOf[x]}]

Closed(g, desk) ==
    IF HandedOver(g, desk) THEN UNION {OnWall[x] : x \in {y \in Displayed : y[1] = console[g]}}
    ELSE {}

(* SwitchScreenModbus *)

SetModes(bits, s) == {m \in 1..TopMode : <<s, m>> \in bits}

\* The best priority of a screen, and the last mode scanned that has it.
Best == [bits \in SUBSET DOMAIN Priority |-> [s \in Screens |->
    IF SetModes(bits, s) = {} THEN 0
    ELSE CHOOSE p \in {Priority[<<s, m>>] : m \in SetModes(bits, s)} :
            \A m \in SetModes(bits, s) : Priority[<<s, m>>] <= p]]
PlanFor == [bits \in SUBSET DOMAIN Priority |-> [s \in Screens |->
    IF SetModes(bits, s) = {} THEN 0
    ELSE CHOOSE m \in SetModes(bits, s) :
            /\ Priority[<<s, m>>] = Best[bits][s]
            /\ \A n \in SetModes(bits, s) : Priority[<<s, n>>] = Best[bits][s] => n <= m]]

Held(bits, s, prio) == Best[bits][s] # 0 /\ prio = Best[bits][s]
AskedAnew(old, bits, s, prio) ==
    /\ ~Held(bits, s, prio) /\ Best[bits][s] # 0
    /\ SetModes(old, s) # SetModes(bits, s)
BackToInitial(old, bits, s) == SetModes(bits, s) = {} /\ <<s, 0>> \notin old

NewRow(old, bits, prio) ==
    bits \cup {<<s, 0>> : s \in {t \in Screens :
        \/ BackToInitial(old, bits, t)
        \/ <<t, 0>> \in old /\ ~AskedAnew(old, bits, t, prio[t])}}

\* The displays of the desk that are to be sent a plan.
ToSend(g, desk, old, bits, prio) ==
    {x \in Displayed :
        /\ x[1] = desk /\ x[2] \in Screens
        /\ AskedAnew(old, bits, x[2], prio[x[2]]) \/ BackToInitial(old, bits, x[2])
        /\ HasPlan(x, g, PlanFor[bits][x[2]])}

-----------------------------------------------------------------------------
(* One turn of the loop; at most one of its messages does not get through.   *)

Releases(g) ==
    /\ console[g] # 0
    /\ console' = [console EXCEPT ![g] = 0]
    /\ asked' = [asked EXCEPT ![g] = Unasked]
    /\ UNCHANGED <<cells, answered, shows, unsent, misses>>

\* The walls that are closed, or one of them is not.
Closings(g, desk) ==
    {[shut |-> Closed(g, desk), fails |-> FALSE]} \cup
    {[shut |-> Closed(g, desk) \ OnWall[x], fails |-> TRUE] : x \in Closed(g, desk)}

Reached(fails) == IF fails THEN Miss ELSE UNCHANGED misses

\* The second request fails: the hand-over is noted all the same.
HalfReads(g, desk) ==
    /\ HandedOver(g, desk)
    /\ \E c \in Closings(g, desk) :
        /\ shows' = [x \in Displayed |-> IF x \in c.shut THEN Nothing ELSE shows[x]]
        /\ Reached(c.fails)
    /\ console' = [console EXCEPT ![g] = desk]
    /\ answered' = [answered EXCEPT ![g] = PrioritiesLeft(g, desk)]
    /\ cells' = CellsLeft(g, desk)
    /\ asked' = [asked EXCEPT ![g] = Unasked]
    /\ UNCHANGED unsent

FullyReads(g, desk, bits) ==
    LET old  == CellsLeft(g, desk)[g]
        prio == PrioritiesLeft(g, desk)
        to   == ToSend(g, desk, old, bits, prio)
        plan == PlanFor[bits]
    IN  /\ desk # 0 \/ console[g] = 0
        /\ \E c \in Closings(g, desk), lost \in {{}} \cup {{x} : x \in to} :
            /\ ~c.fails \/ lost = {}
            /\ Reached(c.fails \/ lost # {})
            /\ shows' = [x \in Displayed |->
                    CASE x \in to \ lost -> <<g, plan[x[2]]>>
                      [] x \in c.shut \ (to \ lost) -> Nothing
                      [] OTHER -> shows[x]]
            /\ unsent' = (unsent \ to) \cup lost
        /\ console' = [console EXCEPT ![g] = desk]
        /\ answered' = [answered EXCEPT ![g] = Best[bits]]
        /\ cells' = [CellsLeft(g, desk) EXCEPT ![g] = NewRow(@, bits, prio)]
        /\ asked' = [asked EXCEPT ![g] = IF desk = 0 THEN Unasked ELSE plan]

ReadsRegisters(g) ==
    \/ Releases(g)
    \/ \E desk \in {0} \cup Desks :
        HalfReads(g, desk) \/ \E bits \in BitImages[g] : FullyReads(g, desk, bits)

ModbusNext == \E g \in Rmgs : ReadsRegisters(g)

-----------------------------------------------------------------------------
\* The modes of a screen have priorities of their own, above 0.
Ranked(s) ==
    \A x, y \in DOMAIN Priority :
        x[1] = s /\ y[1] = s => Priority[x] > 0 /\ (Priority[x] = Priority[y] => x = y)

(* A screen that shows a crane bound to its console shows the mode the       *)
(* crane asks for: no change of its bits is missed, through hand-overs,      *)
(* releases, closed walls and failed requests, unless that picture was lost  *)
(* (ReadModbusDataProcess, SwitchScreenModbus).  It takes modes with         *)
(* priorities of their own, and no more screens than ClearPriority clears.   *)
ModbusShown ==
    \A x \in Displayed \ unsent, g \in Rmgs :
        (/\ shows[x][1] = g /\ console[g] = x[1] /\ asked[g] # Unasked
         /\ x[2] \in Screens /\ x[2] <= PlcScreens /\ Ranked(x[2])
         /\ HasPlan(x, g, asked[g][x[2]]))
            => shows[x] = <<g, asked[g][x[2]]>>
=============================================================================
