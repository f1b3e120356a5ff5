----------------------------- MODULE ModbusProofs ---------------------------
(***************************************************************************)
(* Nothing the Modbus registers ask for is missed by what a TV wall shows, *)
(* for all cranes, desks, screens, plans and bits, and modes that have     *)
(* priorities of their own.                                                *)
(***************************************************************************)
EXTENDS DataLinks, Numbers, TLAPS

\* Where the property speaks of a screen.
Clear(s) == s <= PlcScreens /\ Ranked(s)

Marked(old, s)   == <<s, 0>> \in old
Fresh(old, s)    == SetModes(old, s) = {} /\ ~Marked(old, s)
IsTop(m, set, s) ==
    IF set = {} THEN m = 0
    ELSE m \in set /\ \A n \in set : Priority[<<s, n>>] <= Priority[<<s, m>>]

\* Old values and the priority answered go with the mode asked for last, was;
\* another crane's hand-over may have emptied the row.
Fits(old, prio, was, s) ==
    /\ was # 0 => <<s, was>> \in DOMAIN Priority
    /\ prio = IF was = 0 THEN 0 ELSE Priority[<<s, was>>]
    /\ Fresh(old, s) \/ IsTop(was, SetModes(old, s), s)
    /\ Marked(old, s) => SetModes(old, s) = {}

RowInv(g, s) ==
    /\ (asked[g] = Unasked /\ console[g] # 0) => Fresh(cells[g], s) /\ answered[g][s] = 0
    /\ asked[g] # Unasked => Fits(cells[g], answered[g][s], asked[g][s], s)

ModbusInv ==
    /\ console \in [Rmgs -> {0} \cup Desks]
    /\ DOMAIN cells = Rmgs /\ DOMAIN answered = Rmgs /\ DOMAIN asked = Rmgs
    /\ mode # "modbus items" => \A g \in Rmgs : asked[g] = Unasked
    /\ \A g \in Rmgs, s \in Screens : Clear(s) => RowInv(g, s)
    /\ ModbusShown

-----------------------------------------------------------------------------
(* The mode a screen's bits ask for. *)

LEMMA PrioritiesAbove ==
    ASSUME NEW s \in Screens, Ranked(s), NEW m, <<s, m>> \in DOMAIN Priority
    PROVE  Priority[<<s, m>>] \in 1..255 /\ Priority[<<s, m>>] # 0
  <1>1. Priority[<<s, m>>] \in 0..255
    BY ModbusAssumption
  <1>2. Priority[<<s, m>>] > 0
    BY DEF Ranked
  <1>3. QED
    BY <1>1, <1>2

LEMMA TopExists ==
    ASSUME NEW bits \in SUBSET DOMAIN Priority, NEW s \in Screens, Ranked(s),
           SetModes(bits, s) # {}
    PROVE  /\ PlanFor[bits][s] \in SetModes(bits, s) /\ Best[bits][s] # 0
           /\ Best[bits][s] = Priority[<<s, PlanFor[bits][s]>>]
           /\ \A m \in SetModes(bits, s) : Priority[<<s, m>>] <= Best[bits][s]
  <1> DEFINE M == SetModes(bits, s)
             Q == {Priority[<<s, m>>] : m \in M}
  <1>1. \A m \in M : <<s, m>> \in DOMAIN Priority
    BY DEF SetModes
  <1>2. Q \in SUBSET (0..255) /\ Q # {}
    <2>1. \A m \in M : Priority[<<s, m>>] \in 0..255
      BY <1>1, ModbusAssumption
    <2>2. QED
      BY <2>1, ZenonT(40)
  <1>3. \E q \in Q : \A r \in Q : r <= q
    BY <1>2, MaxExists, 255 \in Nat
  <1>4. Best[bits][s] = CHOOSE p \in Q : \A m \in M : Priority[<<s, m>>] <= p
    BY DEF Best
  <1>5. Best[bits][s] \in Q /\ \A m \in M : Priority[<<s, m>>] <= Best[bits][s]
    <2>1. \E p \in Q : \A m \in M : Priority[<<s, m>>] <= p
      BY <1>3
    <2> HIDE DEF Q
    <2>2. QED
      BY <1>4, <2>1
  <1>6. PICK m \in M : Best[bits][s] = Priority[<<s, m>>]
    BY <1>5
  <1>7. \A n \in M : Priority[<<s, n>>] = Priority[<<s, m>>] => n = m
    BY <1>1 DEF Ranked
  <1>8. PlanFor[bits][s] = CHOOSE k \in M :
            /\ Priority[<<s, k>>] = Best[bits][s]
            /\ \A n \in M : Priority[<<s, n>>] = Best[bits][s] => n <= k
    BY DEF PlanFor
  <1>9. m <= m
    <2>1. m \in Nat
      BY DesksAssumption DEF SetModes
    <2>2. QED
      BY <2>1
  <1>10. PlanFor[bits][s] \in M /\ Priority[<<s, PlanFor[bits][s]>>] = Best[bits][s]
    <2>1. \E k \in M : /\ Priority[<<s, k>>] = Best[bits][s]
                       /\ \A n \in M : Priority[<<s, n>>] = Best[bits][s] => n <= k
      BY <1>6, <1>7, <1>9
    <2> HIDE DEF M
    <2>2. QED
      BY <1>8, <2>1
  <1>11. Best[bits][s] # 0
    BY <1>1, <1>6, PrioritiesAbove
  <1>12. QED
    BY <1>5, <1>10, <1>11

LEMMA TopOfNone ==
    ASSUME NEW bits \in SUBSET DOMAIN Priority, NEW s \in Screens, SetModes(bits, s) = {}
    PROVE  PlanFor[bits][s] = 0 /\ Best[bits][s] = 0
  BY DEF PlanFor, Best

\* The plan asked for fits the bits it is asked for by.
LEMMA PlanIsTop ==
    ASSUME NEW bits \in SUBSET DOMAIN Priority, NEW s \in Screens, Ranked(s)
    PROVE  /\ IsTop(PlanFor[bits][s], SetModes(bits, s), s)
           /\ PlanFor[bits][s] # 0 => <<s, PlanFor[bits][s]>> \in DOMAIN Priority
           /\ Best[bits][s] = IF PlanFor[bits][s] = 0 THEN 0 ELSE Priority[<<s, PlanFor[bits][s]>>]
           /\ PlanFor[bits][s] \in Marks
  <1>1. CASE SetModes(bits, s) = {}
    BY <1>1, TopOfNone, DesksAssumption DEF IsTop, Marks
  <1>2. CASE SetModes(bits, s) # {}
    <2>1. PlanFor[bits][s] \in SetModes(bits, s)
      BY <1>2, TopExists
    <2>2. PlanFor[bits][s] \in 1..TopMode /\ <<s, PlanFor[bits][s]>> \in bits
      BY <2>1 DEF SetModes
    <2>3. QED
      BY <1>2, <2>1, <2>2, TopExists, DesksAssumption DEF IsTop, Marks
  <1>3. QED
    BY <1>1, <1>2

-----------------------------------------------------------------------------
(* One screen in one turn. *)

\* After a hand-over a screen is always sent.
LEMMA FreshIsSent ==
    ASSUME NEW bits \in SUBSET DOMAIN Priority, NEW s \in Screens, Ranked(s),
           NEW old, Fresh(old, s)
    PROVE  AskedAnew(old, bits, s, 0) \/ BackToInitial(old, bits, s)
  <1>1. CASE SetModes(bits, s) = {}
    BY <1>1 DEF BackToInitial, Fresh, Marked
  <1>2. CASE SetModes(bits, s) # {}
    <2>1. Best[bits][s] # 0
      BY <1>2, TopExists
    <2>2. QED
      BY <1>2, <2>1 DEF AskedAnew, Held, Fresh
  <1>3. QED
    BY <1>1, <1>2

\* A screen that is not sent asks for what it asked for before.
LEMMA UnsentIsOld ==
    ASSUME NEW bits \in SUBSET DOMAIN Priority, NEW s \in Screens, Ranked(s),
           NEW old, NEW prio, NEW was, Fits(old, prio, was, s),
           ~AskedAnew(old, bits, s, prio), ~BackToInitial(old, bits, s)
    PROVE  PlanFor[bits][s] = was
  <1> DEFINE m == PlanFor[bits][s]
  <1>1. CASE SetModes(bits, s) = {}
    <2>1. Marked(old, s)
      BY <1>1 DEF BackToInitial, Marked
    <2>2. IsTop(was, {}, s)
      BY <2>1 DEF Fits, Fresh
    <2>3. QED
      BY <1>1, <2>2, TopOfNone DEF IsTop
  <1>2. CASE SetModes(bits, s) # {}
    <2>1. /\ m \in SetModes(bits, s) /\ Best[bits][s] # 0
          /\ Best[bits][s] = Priority[<<s, m>>]
          /\ \A n \in SetModes(bits, s) : Priority[<<s, n>>] <= Best[bits][s]
      BY <1>2, TopExists
    <2>2. <<s, m>> \in DOMAIN Priority
      BY <2>1 DEF SetModes
    <2>3. CASE Held(bits, s, prio)
      <3>1. was # 0 /\ Priority[<<s, was>>] = Priority[<<s, m>>]
        BY <2>1, <2>3 DEF Held, Fits
      <3>2. <<s, was>> = <<s, m>>
        BY <2>2, <3>1 DEF Fits, Ranked
      <3>3. QED
        BY <3>2
    <2>4. CASE ~Held(bits, s, prio)
      <3>1. SetModes(old, s) = SetModes(bits, s)
        BY <2>1, <2>4 DEF AskedAnew
      <3>2. was \in SetModes(bits, s) /\ Priority[<<s, m>>] <= Priority[<<s, was>>]
        BY <1>2, <2>1, <3>1 DEF Fits, Fresh, IsTop
      <3>3. <<s, was>> \in DOMAIN Priority
        BY <3>2 DEF SetModes
      <3>4. Priority[<<s, was>>] = Priority[<<s, m>>]
        <4>1. Priority[<<s, was>>] \in 1..255 /\ Priority[<<s, m>>] \in 1..255
          BY <2>2, <3>3, PrioritiesAbove
        <4>2. Priority[<<s, was>>] <= Priority[<<s, m>>]
          BY <2>1, <3>2
        <4>3. \A p, q \in 1..255 : p <= q /\ q <= p => p = q
          OBVIOUS
        <4>4. QED
          BY <3>2, <4>1, <4>2, <4>3
      <3>5. <<s, was>> = <<s, m>>
        BY <2>2, <3>3, <3>4 DEF Ranked
      <3>6. QED
        BY <3>5
    <2>5. QED
      BY <2>3, <2>4
  <1>3. QED
    BY <1>1, <1>2

\* The row a turn leaves fits the plan it asked for.
LEMMA NewRowFits ==
    ASSUME NEW bits \in SUBSET DOMAIN Priority, NEW s \in Screens, Ranked(s),
           NEW old, NEW prio, Marked(old, s) => SetModes(old, s) = {} /\ prio[s] = 0
    PROVE  Fits(NewRow(old, bits, prio), Best[bits][s], PlanFor[bits][s], s)
  <1> DEFINE new == NewRow(old, bits, prio)
  <1>1. SetModes(new, s) = SetModes(bits, s)
    <2>1. \A m \in 1..TopMode : m # 0
      OBVIOUS
    <2>2. \A m \in 1..TopMode : <<s, m>> \in new <=> <<s, m>> \in bits
      BY <2>1, Zenon DEF NewRow
    <2>3. QED
      BY <2>2 DEF SetModes
  <1>2. Marked(new, s) => SetModes(bits, s) = {}
    <2>1. SUFFICES ASSUME Marked(new, s), SetModes(bits, s) # {} PROVE FALSE
      OBVIOUS
    <2>2. <<s, 0>> \notin bits
      BY ModbusAssumption
    <2>3. BackToInitial(old, bits, s) \/ (Marked(old, s) /\ ~AskedAnew(old, bits, s, prio[s]))
      BY <2>1, <2>2 DEF NewRow, Marked
    <2>4. Best[bits][s] # 0
      BY <2>1, TopExists
    <2>5. QED
      BY <2>1, <2>3, <2>4 DEF BackToInitial, AskedAnew, Held
  <1> HIDE DEF new
  <1>3. QED
    BY <1>1, <1>2, PlanIsTop DEF Fits, new

-----------------------------------------------------------------------------
(* The loop. *)

LEMMA UnaskedIsEmpty == DOMAIN Unasked = {}
  BY DEF Unasked

LEMMA NothingIsNoCrane == \A h \in Rmgs : Nothing[1] # h
  BY DesksAssumption DEF Nothing

\* What a turn finds of a screen that has a desk, before it reads the bits:
\* the old values are forgotten, or fit what was asked for last.
LEMMA RowFound ==
    ASSUME ModbusInv, NEW g \in Rmgs, NEW desk \in {0} \cup Desks, desk # 0,
           NEW s \in Screens, Clear(s)
    PROVE  LET old  == CellsLeft(g, desk)[g]
               prio == PrioritiesLeft(g, desk)[s]
           IN  \/ Fresh(old, s) /\ prio = 0
               \/ /\ ~HandedOver(g, desk) /\ console[g] = desk /\ asked[g] # Unasked
                  /\ Fits(old, prio, asked[g][s], s)
  <1> DEFINE old == CellsLeft(g, desk)[g]
  <1>1. CASE HandedOver(g, desk)
    <2>1. old = {}
      BY <1>1 DEF CellsLeft
    <2>2. Fresh(old, s)
      BY <2>1 DEF Fresh, SetModes, Marked
    <2>3. PrioritiesLeft(g, desk)[s] = 0
      BY <1>1 DEF PrioritiesLeft, Clear
    <2>4. QED
      BY <2>2, <2>3
  <1>2. CASE ~HandedOver(g, desk)
    <2>1. old = cells[g] /\ PrioritiesLeft(g, desk)[s] = answered[g][s] /\ console[g] = desk
      BY <1>2 DEF CellsLeft, PrioritiesLeft, HandedOver
    <2>2. RowInv(g, s)
      BY DEF ModbusInv
    <2>3. QED
      BY <1>2, <2>1, <2>2 DEF RowInv
  <1>3. QED
    BY <1>1, <1>2

\* Another crane's turn leaves a row as it is, or empties it.
LEMMA OthersRow ==
    ASSUME NEW g \in Rmgs, NEW s \in Screens, RowInv(g, s),
           UNCHANGED <<console[g], answered[g], asked[g]>>, cells'[g] \in {cells[g], {}}
    PROVE  RowInv(g, s)'
  <1>1. SetModes({}, s) = {} /\ ~Marked({}, s)
    BY DEF SetModes, Marked
  <1>2. CASE cells'[g] = cells[g]
    BY <1>2 DEF RowInv
  <1>3. CASE cells'[g] = {}
    BY <1>1, <1>3 DEF RowInv, Fits, Fresh
  <1>4. QED
    BY <1>2, <1>3

\* A crane that is not asked for, or has no desk.
LEMMA IdleRow ==
    ASSUME NEW g \in Rmgs, NEW s \in Screens, asked'[g] = Unasked,
           console'[g] # 0 => Fresh(cells'[g], s) /\ answered'[g][s] = 0
    PROVE  RowInv(g, s)'
  BY DEF RowInv

\* A screen that shows the crane of this turn from before the turn.
LEMMA Stands ==
    ASSUME ModbusInv, NEW x \in Displayed \ unsent, NEW h \in Rmgs,
           UNCHANGED <<shows[x], console[h], asked[h]>>,
           shows[x][1] = h, console[h] = x[1], asked[h] # Unasked,
           x[2] \in Screens, Clear(x[2]), HasPlan(x, h, asked[h][x[2]])
    PROVE  shows'[x] = <<h, asked'[h][x[2]]>>
  BY DEF ModbusInv, ModbusShown, Clear

LEMMA ReleaseKept ==
    ASSUME ModbusInv, NEW g \in Rmgs, Releases(g), UNCHANGED mode
    PROVE  ModbusInv'
  <1> USE DEF Releases
  <1>1. \A h \in Rmgs \ {g} : UNCHANGED <<console[h], answered[h], asked[h], cells[h]>>
    BY DEF ModbusInv
  <1>2. console'[g] = 0 /\ asked'[g] = Unasked
    BY DEF ModbusInv
  <1>3. ASSUME NEW h \in Rmgs, NEW s \in Screens, Clear(s) PROVE RowInv(h, s)'
    <2>1. CASE h = g
      BY <1>2, <2>1, IdleRow
    <2>2. CASE h # g
      <3>1. RowInv(h, s)
        BY <1>3 DEF ModbusInv
      <3>2. QED
        BY <1>1, <2>2, <3>1, OthersRow
    <2>3. QED
      BY <2>1, <2>2
  <1>4. ModbusShown'
    <2>1. unsent' = unsent /\ shows' = shows
      OBVIOUS
    <2>2. \A h \in Rmgs : asked'[h] # Unasked => h # g
      BY <1>2
    <2>3. QED
      BY <1>1, <2>1, <2>2, Stands DEF ModbusShown, Clear, HasPlan
  <1>5. QED
    BY <1>3, <1>4 DEF ModbusInv, Clear, Ranked

LEMMA HalfReadKept ==
    ASSUME ModbusInv, mode = "modbus items", UNCHANGED mode, NEW g \in Rmgs,
           NEW desk \in {0} \cup Desks, HalfReads(g, desk)
    PROVE  ModbusInv'
  <1>1. /\ HandedOver(g, desk) /\ unsent' = unsent
        /\ console' = [console EXCEPT ![g] = desk]
        /\ answered' = [answered EXCEPT ![g] = PrioritiesLeft(g, desk)]
        /\ cells' = CellsLeft(g, desk)
        /\ asked' = [asked EXCEPT ![g] = Unasked]
    BY DEF HalfReads
  <1>2. PICK shut : shows' = [x \in Displayed |-> IF x \in shut THEN Nothing ELSE shows[x]]
    BY DEF HalfReads
  <1>3. \A h \in Rmgs \ {g} :
            UNCHANGED <<console[h], answered[h], asked[h]>> /\ cells'[h] \in {cells[h], {}}
    BY <1>1 DEF ModbusInv, CellsLeft
  <1>4. /\ asked'[g] = Unasked /\ cells'[g] = {}
        /\ answered'[g] = PrioritiesLeft(g, desk)
    BY <1>1 DEF ModbusInv, CellsLeft
  <1>5. ASSUME NEW h \in Rmgs, NEW s \in Screens, Clear(s) PROVE RowInv(h, s)'
    <2>1. CASE h = g
      <3>1. Fresh({}, s) /\ PrioritiesLeft(g, desk)[s] = 0
        BY <1>1, <1>5 DEF Fresh, SetModes, Marked, PrioritiesLeft, Clear
      <3>2. QED
        BY <1>4, <2>1, <3>1, IdleRow
    <2>2. CASE h # g
      <3>1. RowInv(h, s)
        BY <1>5 DEF ModbusInv
      <3>2. QED
        BY <1>3, <2>2, <3>1, OthersRow
    <2>3. QED
      BY <2>1, <2>2
  <1>6. ModbusShown'
    <2>1. \A x \in Displayed : shows'[x] \in {Nothing, shows[x]}
      BY <1>2
    <2>2. \A x \in Displayed, h \in Rmgs : shows'[x][1] = h => shows'[x] = shows[x]
      BY <2>1, NothingIsNoCrane
    <2>3. \A h \in Rmgs : asked'[h] # Unasked => h # g
      BY <1>4
    <2> SUFFICES ASSUME NEW x \in Displayed, x \notin unsent', NEW h \in Rmgs,
                        shows'[x][1] = h, console'[h] = x[1], asked'[h] # Unasked,
                        x[2] \in Screens, Clear(x[2]), HasPlan(x, h, asked'[h][x[2]])
                 PROVE  shows'[x] = <<h, asked'[h][x[2]]>>
      BY DEF ModbusShown, Clear, HasPlan, Ranked
    <2>4. UNCHANGED <<shows[x], unsent, console[h], asked[h]>>
      BY <1>1, <1>3, <2>2, <2>3
    <2>5. QED
      BY <2>4, Stands
  <1>7. console' \in [Rmgs -> {0} \cup Desks]
    BY <1>1 DEF ModbusInv
  <1>8. DOMAIN cells' = Rmgs /\ DOMAIN answered' = Rmgs /\ DOMAIN asked' = Rmgs
    BY <1>1 DEF ModbusInv, CellsLeft
  <1>9. QED
    BY <1>5, <1>6, <1>7, <1>8 DEF ModbusInv, Clear, Ranked

LEMMA FullReadKept ==
    ASSUME ModbusInv, mode = "modbus items", UNCHANGED mode, NEW g \in Rmgs,
           NEW desk \in {0} \cup Desks, NEW bits \in BitImages[g], FullyReads(g, desk, bits)
    PROVE  ModbusInv'
  <1> DEFINE old  == CellsLeft(g, desk)[g]
             prio == PrioritiesLeft(g, desk)
             to   == ToSend(g, desk, old, bits, prio)
             plan == PlanFor[bits]
  <1>1. /\ desk # 0 \/ console[g] = 0
        /\ console' = [console EXCEPT ![g] = desk]
        /\ answered' = [answered EXCEPT ![g] = Best[bits]]
        /\ cells' = [CellsLeft(g, desk) EXCEPT ![g] = NewRow(@, bits, prio)]
        /\ asked' = [asked EXCEPT ![g] = IF desk = 0 THEN Unasked ELSE plan]
    BY DEF FullyReads
  <1>2. PICK shut, lost :
            /\ lost \subseteq to
            /\ shows' = [x \in Displayed |->
                    CASE x \in to \ lost -> <<g, plan[x[2]]>>
                      [] x \in shut \ (to \ lost) -> Nothing
                      [] OTHER -> shows[x]]
            /\ unsent' = (unsent \ to) \cup lost
    BY ZenonT(40) DEF FullyReads
  <1>3. bits \in SUBSET DOMAIN Priority
    BY ModbusAssumption
  <1>4. \A h \in Rmgs \ {g} :
            UNCHANGED <<console[h], answered[h], asked[h]>> /\ cells'[h] \in {cells[h], {}}
    BY <1>1 DEF ModbusInv, CellsLeft
  <1>5. /\ console'[g] = desk /\ answered'[g] = Best[bits]
        /\ cells'[g] = NewRow(old, bits, prio)
        /\ asked'[g] = IF desk = 0 THEN Unasked ELSE plan
    BY <1>1 DEF ModbusInv, CellsLeft
  <1>6. ASSUME NEW h \in Rmgs, NEW s \in Screens, Clear(s) PROVE RowInv(h, s)'
    <2>1. CASE h = g /\ desk = 0
      BY <1>5, <2>1, IdleRow
    <2>2. CASE h = g /\ desk # 0
      <3>1. \/ Fresh(old, s) /\ prio[s] = 0
            \/ Fits(old, prio[s], asked[g][s], s)
        BY <1>6, <2>2, RowFound
      <3>2. Marked(old, s) => SetModes(old, s) = {} /\ prio[s] = 0
        <4> HIDE DEF old, prio
        <4>1. QED
          BY <3>1 DEF Fits, Fresh, IsTop
      <3>3. Fits(NewRow(old, bits, prio), Best[bits][s], plan[s], s)
        <4> HIDE DEF old, prio
        <4>1. QED
          BY <1>3, <1>6, <3>2, NewRowFits DEF Clear
      <3>4. plan # Unasked
        <4>1. DOMAIN plan = Screens
          BY <1>3 DEF PlanFor
        <4>2. QED
          BY <1>6, <4>1, UnaskedIsEmpty
      <3>5. QED
        BY <1>5, <2>2, <3>3, <3>4 DEF RowInv
    <2>3. CASE h # g
      <3>1. RowInv(h, s)
        BY <1>6 DEF ModbusInv
      <3>2. QED
        BY <1>4, <2>3, <3>1, OthersRow
    <2>4. QED
      BY <2>1, <2>2, <2>3
  <1>7. ModbusShown'
    <2> SUFFICES ASSUME NEW x \in Displayed, x \notin unsent', NEW h \in Rmgs,
                        shows'[x][1] = h, console'[h] = x[1], asked'[h] # Unasked,
                        x[2] \in Screens, Clear(x[2]), HasPlan(x, h, asked'[h][x[2]])
                 PROVE  shows'[x] = <<h, asked'[h][x[2]]>>
      BY DEF ModbusShown, Clear, HasPlan, Ranked
    <2>1. CASE x \in to
      <3>1. x \in to \ lost
        BY <1>2, <2>1
      <3>2. shows'[x] = <<g, plan[x[2]]>>
        BY <1>2, <3>1
      <3>3. h = g
        <4>1. \A p, q : <<p, q>>[1] = p
          OBVIOUS
        <4>2. QED
          BY <3>2, <4>1
      <3>4. QED
        BY <1>5, <3>2, <3>3
    <2>2. CASE x \notin to
      <3>1. shows'[x] = shows[x]
        <4>1. x \notin to \ lost
          BY <2>2
        <4>2. shows'[x] \in {Nothing, shows[x]}
          BY <1>2, <4>1
        <4>3. QED
          BY <4>2, NothingIsNoCrane
      <3>2. x \in Displayed \ unsent
        BY <1>2, <2>2
      <3>3. CASE h # g
        <4>1. UNCHANGED <<console[h], asked[h]>>
          BY <1>4, <3>3
        <4>2. shows[x][1] = h /\ console[h] = x[1] /\ asked[h] # Unasked
          BY <3>1, <4>1
        <4> HIDE DEF old, prio, to, plan
        <4>3. HasPlan(x, h, asked[h][x[2]])
          BY <4>1
        <4>4. QED
          BY <3>1, <3>2, <4>1, <4>2, <4>3, Stands
      <3>4. CASE h = g
        <4>1. desk # 0 /\ desk = x[1] /\ asked'[g] = plan
          BY <1>5, <3>4
        <4>2. /\ ~AskedAnew(old, bits, x[2], prio[x[2]])
              /\ ~BackToInitial(old, bits, x[2])
          BY <2>2, <3>4, <4>1 DEF ToSend
        <4>3. ~(Fresh(old, x[2]) /\ prio[x[2]] = 0)
          <5> HIDE DEF old, prio
          <5>1. QED
            BY <1>3, <4>2, FreshIsSent DEF Clear
        <4>4. /\ console[g] = desk /\ asked[g] # Unasked
              /\ Fits(old, prio[x[2]], asked[g][x[2]], x[2])
          BY <4>1, <4>3, RowFound
        <4>5. plan[x[2]] = asked[g][x[2]]
          <5> HIDE DEF old, prio
          <5>1. QED
            BY <1>3, <4>2, <4>4, UnsentIsOld DEF Clear
        <4>6. shows[x] = <<g, asked[g][x[2]]>>
          <5> HIDE DEF old, prio, to, plan
          <5>1. QED
            BY <3>1, <3>2, <3>4, <4>1, <4>4, <4>5 DEF ModbusInv, ModbusShown, Clear
        <4>7. QED
          BY <3>1, <3>4, <4>1, <4>5, <4>6
      <3>5. QED
        BY <3>3, <3>4
    <2>3. QED
      BY <2>1, <2>2
  <1>8. console' \in [Rmgs -> {0} \cup Desks]
    BY <1>1 DEF ModbusInv
  <1>9. DOMAIN cells' = Rmgs /\ DOMAIN answered' = Rmgs /\ DOMAIN asked' = Rmgs
    BY <1>1 DEF ModbusInv, CellsLeft
  <1>10. QED
    BY <1>6, <1>7, <1>8, <1>9 DEF ModbusInv, Clear, Ranked

-----------------------------------------------------------------------------
LEMMA ModbusStarts == Init => ModbusInv
  <1> SUFFICES ASSUME Init PROVE ModbusInv
    OBVIOUS
  <1>1. console = [g \in Rmgs |-> 0] /\ asked = [g \in Rmgs |-> Unasked]
    BY DEF Init, ModbusInit
  <1>2. DOMAIN cells = Rmgs /\ DOMAIN answered = Rmgs /\ DOMAIN asked = Rmgs
    BY DEF Init, ModbusInit
  <1>3. \A g \in Rmgs, s \in Screens : RowInv(g, s)
    BY <1>1 DEF RowInv
  <1>4. ModbusShown
    BY <1>1 DEF ModbusShown
  <1>5. QED
    BY <1>1, <1>2, <1>3, <1>4 DEF ModbusInv

\* With no Modbus reader at work, no mode is asked for.
LEMMA OtherSourcesKept ==
    ASSUME ModbusInv, mode # "modbus items", UNCHANGED <<mode, modbusItems>>
    PROVE  ModbusInv'
  <1>1. \A g \in Rmgs : asked'[g] = Unasked
    BY DEF ModbusInv, modbusItems
  <1>2. \A g \in Rmgs, s \in Screens : RowInv(g, s) => RowInv(g, s)'
    BY DEF RowInv, modbusItems
  <1>3. ModbusShown'
    BY <1>1 DEF ModbusShown
  <1>4. QED
    BY <1>1, <1>2, <1>3 DEF ModbusInv, modbusItems, Clear, Ranked

LEMMA ModbusStep == ModbusInv /\ [Next]_vars => ModbusInv'
  <1> SUFFICES ASSUME ModbusInv, [Next]_vars PROVE ModbusInv'
    OBVIOUS
  <1>1. CASE mode = "modbus items" /\ ModbusNext /\ UNCHANGED mode
    BY <1>1, ReleaseKept, HalfReadKept, FullReadKept DEF ModbusNext, ReadsRegisters
  <1>2. CASE mode # "modbus items" /\ UNCHANGED <<mode, modbusItems>>
    BY <1>2, OtherSourcesKept
  <1>3. CASE UNCHANGED vars
    BY <1>3 DEF vars, opcItems, modbusItems, ModbusInv, RowInv, Clear, ModbusShown, HasPlan
  <1>4. LinkNext => UNCHANGED mode
    BY DEF LinkNext, Login, ReadFails, LinkBreaks, LinkMended, ServerRestarts, Reports
  <1>5. QED
    BY <1>1, <1>2, <1>3, <1>4 DEF Next

(* A screen that shows a crane bound to its console shows the mode the crane *)
(* asks for, for any cranes, desks, screens, plans, walls and bits, unless   *)
(* that picture was lost; it takes modes with priorities of their own        *)
(* (SwitchScreenModbus).                                                     *)
THEOREM ModbusShownHolds == Spec => []ModbusShown
  <1>1. ModbusInv => ModbusShown
    BY DEF ModbusInv
  <1>2. QED
    BY <1>1, ModbusStarts, ModbusStep, PTL DEF Spec
=============================================================================
