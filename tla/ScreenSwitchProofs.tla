-------------------------- MODULE ScreenSwitchProofs --------------------------
(***************************************************************************)
(* Proofs about ScreenSwitch: the types, that a poll keeps to its console, *)
(* and that pictures are up to date - for any number of cranes, consoles,  *)
(* screens, modes and TV walls, when the configuration is complete and     *)
(* ranks its modes.                                                        *)
(***************************************************************************)
EXTENDS ScreenSwitch, Numbers, TLAPS

(* Modes 1 and up have the PLC bits, each of a priority of its own above 0:  *)
(* without it the code misses changes (the run tied_modes).                  *)
Ranked ==
    \A s \in Screens : \A m \in MappedModes(s) :
        /\ m # 0 /\ Priority[<<s, m>>] # 0
        /\ \A n \in MappedModes(s) : Priority[<<s, m>>] = Priority[<<s, n>>] => m = n

(* The modes a crane can ask for on a screen, all of which have a plan.      *)
FreePoints(c, s) == {i \in DOMAIN FreeModes[c] : FreeModes[c][i].screen = s}
Askable(c, s) == {0} \cup MappedModes(s) \cup {FreeModes[c][i].mode : i \in FreePoints(c, s)}
AllPlanned ==
    \A c \in Cranes, d \in Displays : \A m \in Askable(c, d[2]) : <<c, d[2], m>> \in Plans

-----------------------------------------------------------------------------
(* The strengthening: what the old values "on" and the answered priority p   *)
(* of a screen say of each other, and of the mode m its picture shows.       *)

RankedRow(s, on, p) ==
    /\ on \subseteq MappedModes(s) \cup {0}
    /\ 0 \in on => on = {0} /\ p = 0
    /\ on # {} /\ 0 \notin on =>
         \E m \in on : /\ Priority[<<s, m>>] = p
                       /\ \A n \in on : Priority[<<s, n>>] <= p
PlainRow(s, on) == on \subseteq MappedModes(s) \cup {0} \/ \E m \in on : on = {m}
RowFits(s, on, p) == IF enablePriority THEN RankedRow(s, on, p) ELSE PlainRow(s, on)

RankedPic(s, on, p, m) ==
    /\ p # 0 => m \in MappedModes(s) /\ Priority[<<s, m>>] = p
    /\ p = 0 /\ on # {} => m = 0
PlainPic(on, m) == on # {} => m \in on /\ \A n \in on : n <= m
PicFits(s, on, p, m) == IF enablePriority THEN RankedPic(s, on, p, m) ELSE PlainPic(on, m)

(* Nothing is claimed of a crane that switches with the height, or has       *)
(* free-mode points while priorities are on, as in Regular.                  *)
Covered(c) == c \notin HeightOn /\ (enablePriority => FreeModes[c] = <<>>)

RowsFit == \A c \in Cranes, s \in Screens : Covered(c) => RowFits(s, Row(state[c], s), prio[c][s])
PicFitsOn(d, pic) ==
    LET c == pic.crane
    IN  c # 0 /\ bound[c] = d[1] /\ Covered(c) =>
          /\ PicFits(d[2], Row(state[c], d[2]), prio[c][d[2]], pic.mode)
          /\ plc[c].free = {} => pic.mode = TopMode(plc[c], d[2])
PicsFit(pics) == \A d \in Displays : PicFitsOn(d, pics[d])

(* Nothing is sent to a console before the crane of its number has been      *)
(* through SwitchScreen.                                                     *)
FirstDark == \A d \in Displays : FirstSwitch(d[1]) => shown[d] = Nothing

IInv == TypeOK /\ RowsFit /\ PicsFit(saved) /\ PicsFit(shown) /\ FirstDark
-----------------------------------------------------------------------------
LEMMA LastPointExists ==
  ASSUME NEW c \in Cranes, NEW points \in SUBSET DOMAIN FreeModes[c], points # {}
  PROVE  \E i \in points : LastPoint(points) = {i}
  <1>1. FreeModes[c] \in Seq([screen : Screens, mode : Modes])
    BY ConfigAssumption
  <1>2. PICK n \in Nat : DOMAIN FreeModes[c] = 1..n
    BY <1>1
  <1>3. points \in SUBSET (0..n)
    BY <1>2
  <1>4. PICK i \in points : \A j \in points : j <= i
    BY <1>3, MaxExists
  <1> QED
    BY <1>2, <1>4 DEF LastPoint

(* TopMode is a set mode, of the highest priority, or, with priorities off,  *)
(* the largest one.                                                          *)
LEMMA TopModeTop ==
  ASSUME enablePriority \in BOOLEAN, NEW c \in Cranes, NEW img \in Image(c), NEW s \in Screens,
         SetModes(img, s) # {}
  PROVE  /\ TopMode(img, s) \in SetModes(img, s)
         /\ \A n \in SetModes(img, s) :
              IF enablePriority THEN Priority[<<s, n>>] <= Priority[<<s, TopMode(img, s)>>]
              ELSE n <= TopMode(img, s)
  <1> DEFINE M == SetModes(img, s)
  <1>1. M \subseteq MappedModes(s) /\ M \subseteq 0..ModeMax /\ ModeMax \in Nat
    BY ConfigAssumption DEF SetModes, MappedModes, Image, Modes
  <1>2. \A m \in M : Priority[<<s, m>>] \in 0..255
    BY <1>1, ConfigAssumption DEF MappedModes
  <1>3. Best(img, s) # {}
    <2>1. CASE ~enablePriority
      <3>1. PICK m \in M : \A n \in M : n <= m
        BY <1>1, MaxExists
      <3> QED
        BY <2>1, <3>1, <1>1 DEF Best
    <2>2. CASE enablePriority
      <3> DEFINE Q == {Priority[<<s, m>>] : m \in M}
      <3>1. Q \in SUBSET (0..255) /\ Q # {}
        BY <1>2, ZenonT(40)
      <3>2. PICK q \in Q : \A r \in Q : r <= q
        BY <3>1, MaxExists, 255 \in Nat
      <3> DEFINE T == {m \in M : Priority[<<s, m>>] = q}
      <3>3. T \in SUBSET (0..ModeMax) /\ T # {}
        BY <1>1, <3>2
      <3>4. PICK m \in T : \A n \in T : n <= m
        BY <3>3, <1>1, MaxExists
      <3>5. m \in M /\ Priority[<<s, m>>] = q
        BY <3>4
      <3>6. ASSUME NEW n \in M
            PROVE  \/ Priority[<<s, n>>] < Priority[<<s, m>>]
                   \/ Priority[<<s, n>>] = Priority[<<s, m>>] /\ n <= m
        <4>1. Priority[<<s, n>>] <= q
          BY <3>2, <3>6
        <4>2. Priority[<<s, n>>] = q => n <= m
          BY <3>4, <3>6
        <4>3. Priority[<<s, n>>] \in 0..255 /\ q \in 0..255
          BY <1>2, <3>5, <3>6
        <4> HIDE DEF Q, T
        <4> QED
          BY <3>5, <4>1, <4>2, <4>3
      <3> QED
        BY <2>2, <3>5, <3>6 DEF Best
    <2> QED
      BY <2>1, <2>2
  <1>4. TopMode(img, s) \in Best(img, s)
    BY <1>3 DEF TopMode
  <1>5. TopMode(img, s) \in M
    BY <1>4 DEF Best
  <1>6. ASSUME NEW n \in M
        PROVE  IF enablePriority THEN Priority[<<s, n>>] <= Priority[<<s, TopMode(img, s)>>]
               ELSE n <= TopMode(img, s)
    <2>1. Priority[<<s, n>>] \in 0..255 /\ Priority[<<s, TopMode(img, s)>>] \in 0..255
      BY <1>2, <1>5, <1>6
    <2>2. IF enablePriority
          THEN \/ Priority[<<s, n>>] < Priority[<<s, TopMode(img, s)>>]
               \/ Priority[<<s, n>>] = Priority[<<s, TopMode(img, s)>>] /\ n <= TopMode(img, s)
          ELSE n <= TopMode(img, s)
      BY <1>4, <1>6 DEF Best
    <2>3. CASE enablePriority
      <3>1. \/ Priority[<<s, n>>] < Priority[<<s, TopMode(img, s)>>]
            \/ Priority[<<s, n>>] = Priority[<<s, TopMode(img, s)>>]
        BY <2>2, <2>3
      <3>2. Priority[<<s, n>>] <= Priority[<<s, TopMode(img, s)>>]
        <4> DEFINE a == Priority[<<s, n>>] b == Priority[<<s, TopMode(img, s)>>]
        <4>1. a \in 0..255 /\ b \in 0..255 /\ (a < b \/ a = b)
          BY <2>1, <3>1
        <4> HIDE DEF a, b
        <4>2. a <= b
          BY <4>1
        <4> QED
          BY <4>2 DEF a, b
      <3> QED
        BY <2>3, <3>2
    <2>4. CASE ~enablePriority
      BY <2>2, <2>4
    <2> QED
      BY <2>3, <2>4
  <1> QED
    BY <1>5, <1>6

-----------------------------------------------------------------------------
(* What SwitchScreen does to one screen, priorities off and on.              *)

LEMMA ModesAre == 0 \in Modes /\ Modes \subseteq Nat
  <1>1. ModeMax \in 0..31
    BY ConfigAssumption, Zenon
  <1> QED
    BY <1>1 DEF Modes

LEMMA SetModesMapped ==
  ASSUME NEW c \in Cranes, NEW img \in Image(c), NEW s \in Screens, Ranked
  PROVE  /\ SetModes(img, s) \subseteq MappedModes(s) /\ MappedModes(s) \subseteq Modes
         /\ 0 \notin MappedModes(s) /\ 0 \in Modes /\ Modes \subseteq Nat
         /\ \A m \in MappedModes(s) : Priority[<<s, m>>] \in 0..255
  <1>1. \A m \in MappedModes(s) : <<s, m>> \in PlcScreenAdd
    BY DEF MappedModes
  <1>2. \A m \in MappedModes(s) : Priority[<<s, m>>] \in 0..255
    BY <1>1, ConfigAssumption
  <1>3. SetModes(img, s) \subseteq MappedModes(s) /\ MappedModes(s) \subseteq Modes
    BY DEF SetModes, MappedModes, Image
  <1>4. 0 \notin MappedModes(s)
    BY DEF Ranked
  <1>5. 0 \in Modes /\ Modes \subseteq Nat
    BY ModesAre
  <1> QED
    BY <1>2, <1>3, <1>4, <1>5

(* The row goes on fitting; what is sent is the top mode and fits; when      *)
(* nothing is sent, a picture that fitted before shows the top mode and fits *)
SwitchAnswers(img, s, on, p) ==
    LET on2   == SwitchedState(img, s, on, p)
        p2    == SwitchedPriority(img, s, p)
        sends == SwitchSends(img, s, on, p)
    IN  /\ RowFits(s, on2, p2)
        /\ sends # {} => sends = {TopMode(img, s)} /\ PicFits(s, on2, p2, TopMode(img, s))
        /\ sends = {} => ~(on = {} /\ p = 0)
        /\ sends = {} => \A m \in Modes : PicFits(s, on, p, m) =>
                           m = TopMode(img, s) /\ PicFits(s, on2, p2, m)

LEMMA PlainSwitch ==
  ASSUME NEW c \in Cranes, NEW img \in Image(c), NEW s \in Screens, NEW on \in SUBSET Modes,
         NEW p, enablePriority = FALSE, Ranked, PlainRow(s, on)
  PROVE  SwitchAnswers(img, s, on, p)
  <1>0. SUFFICES LET on2   == SwitchedState(img, s, on, p)
                     sends == SwitchSends(img, s, on, p)
                 IN  /\ PlainRow(s, on2)
                     /\ sends # {} => sends = {TopMode(img, s)} /\ PlainPic(on2, TopMode(img, s))
                     /\ sends = {} => on # {}
                     /\ sends = {} => \A m \in Modes : PlainPic(on, m) =>
                                        m = TopMode(img, s) /\ PlainPic(on2, m)
    BY DEF SwitchAnswers, RowFits, PicFits
  <1> DEFINE T == SetModes(img, s)
             W == MappedModes(s)
             on2 == SwitchedState(img, s, on, p)
             sends == SwitchSends(img, s, on, p)
  <1>1. /\ T \subseteq W /\ W \subseteq Modes /\ 0 \notin W /\ 0 \in Modes /\ Modes \subseteq Nat
    BY SetModesMapped
  <1>2. ~Held(img, s, p)
    BY DEF Held
  <1>3. Scanned(img, s, on) = T \cup (on \cap {0})
    BY <1>1 DEF Scanned
  <1>4. ModeSwitch(img, s, on, p) <=> T # on \cap W
    BY <1>2, Zenon DEF ModeSwitch
  <1>5. BackToInitial(img, s, on, p) <=> T = {} /\ (T # on \cap W \/ 0 \notin on)
    BY <1>2, <1>3, <1>4 DEF BackToInitial
  <1>6. sends = IF T # on \cap W \/ (T = {} /\ 0 \notin on) THEN {TopMode(img, s)} ELSE {}
    BY <1>4, <1>5 DEF SwitchSends
  <1>7. on2 = ((T \cup (on \cap {0})) \ (IF T # on \cap W THEN {0} ELSE {}))
               \cup (IF T = {} /\ (T # on \cap W \/ 0 \notin on) THEN {0} ELSE {})
    BY <1>3, <1>4, <1>5 DEF SwitchedState
  <1>8. CASE T = {}
    <2>1. TopMode(img, s) = 0
      BY <1>8 DEF TopMode
    <2>2. on2 = {0}
      BY <1>7, <1>8
    <2>3. PlainRow(s, on2) /\ PlainPic(on2, 0)
      BY <2>2 DEF PlainRow, PlainPic
    <2>4. ASSUME sends = {} PROVE on = {0}
      <3>1. on \cap W = {} /\ 0 \in on
        BY <1>6, <1>8, <2>4
      <3> QED
        BY <3>1 DEF PlainRow
    <2> QED
      BY <1>6, <2>1, <2>2, <2>3, <2>4 DEF PlainPic
  <1>9. CASE T # {} /\ T # on \cap W
    <2>1. on2 = T /\ sends = {TopMode(img, s)}
      BY <1>1, <1>6, <1>7, <1>9
    <2>2. PlainRow(s, on2)
      BY <1>1, <2>1 DEF PlainRow
    <2>3. PlainPic(on2, TopMode(img, s))
      BY <1>9, <2>1, TopModeTop DEF PlainPic
    <2> QED
      BY <2>1, <2>2, <2>3
  <1>10. CASE T # {} /\ T = on \cap W
    <2>1. on2 = T \cup (on \cap {0}) /\ sends = {}
      BY <1>6, <1>7, <1>10
    <2>2. on = T \cup (on \cap {0})
      BY <1>1, <1>10 DEF PlainRow
    <2>3. TopMode(img, s) \in T /\ \A n \in T : n <= TopMode(img, s)
      BY <1>10, TopModeTop
    <2>4. ASSUME NEW m \in Modes, PlainPic(on, m) PROVE m = TopMode(img, s)
      <3>1. m \in on /\ \A n \in on : n <= m
        BY <1>10, <2>2, <2>4 DEF PlainPic
      <3>2. TopMode(img, s) <= m /\ TopMode(img, s) \in Nat \ {0} /\ m \in Nat
        BY <1>1, <2>2, <2>3, <3>1
      <3>3. m \in T
        BY <2>2, <3>1, <3>2
      <3>4. m <= TopMode(img, s)
        BY <2>3, <3>3
      <3> QED
        BY <3>2, <3>4
    <2> QED
      BY <1>10, <2>1, <2>2, <2>4 DEF PlainPic
  <1> QED
    BY <1>8, <1>9, <1>10

LEMMA RankedSwitch ==
  ASSUME NEW c \in Cranes, NEW img \in Image(c), NEW s \in Screens, NEW on \in SUBSET Modes,
         NEW p \in 0..255, enablePriority = TRUE, Ranked, RankedRow(s, on, p)
  PROVE  SwitchAnswers(img, s, on, p)
  <1>0. SUFFICES LET on2   == SwitchedState(img, s, on, p)
                     p2    == SwitchedPriority(img, s, p)
                     sends == SwitchSends(img, s, on, p)
                 IN  /\ RankedRow(s, on2, p2)
                     /\ sends # {} => sends = {TopMode(img, s)} /\ RankedPic(s, on2, p2, TopMode(img, s))
                     /\ sends = {} => ~(on = {} /\ p = 0)
                     /\ sends = {} => \A m \in Modes : RankedPic(s, on, p, m) =>
                                        m = TopMode(img, s) /\ RankedPic(s, on2, p2, m)
    BY DEF SwitchAnswers, RowFits, PicFits
  <1> DEFINE T == SetModes(img, s)
             W == MappedModes(s)
             top == TopMode(img, s)
             q == TopPriority(img, s)
             on2 == SwitchedState(img, s, on, p)
             p2 == SwitchedPriority(img, s, p)
             sends == SwitchSends(img, s, on, p)
  <1>1. /\ T \subseteq W /\ W \subseteq Modes /\ 0 \notin W /\ 0 \in Modes /\ Modes \subseteq Nat
        /\ \A m \in W : Priority[<<s, m>>] \in 0..255
    BY SetModesMapped
  <1>2. Held(img, s, p) <=> q # 0 /\ q = p
    BY DEF Held
  <1>3. Scanned(img, s, on) = T \cup (on \cap {0})
    BY <1>1 DEF Scanned
  <1>4. ModeSwitch(img, s, on, p) <=> q # 0 /\ q # p /\ T # on \cap W
    BY <1>2, Zenon DEF ModeSwitch
  <1>5. CASE T = {}
    <2>1. top = 0 /\ q = 0
      BY <1>5 DEF TopMode, TopPriority
    <2>2. ~Held(img, s, p) /\ ~ModeSwitch(img, s, on, p)
      BY <1>2, <1>4, <2>1
    <2>3. BackToInitial(img, s, on, p) <=> 0 \notin on
      BY <1>3, <1>5, <2>2 DEF BackToInitial
    <2>4. on2 = {0} /\ p2 = 0
      BY <1>3, <1>5, <2>1, <2>2, <2>3 DEF SwitchedState, SwitchedPriority
    <2>5. sends = IF 0 \notin on THEN {0} ELSE {}
      BY <2>1, <2>2, <2>3 DEF SwitchSends
    <2>6. 0 \in on => on = {0} /\ p = 0
      BY DEF RankedRow
    <2> QED
      BY <2>1, <2>4, <2>5, <2>6 DEF RankedRow, RankedPic
  <1>6. ASSUME T # {}
        PROVE  /\ top \in T /\ q = Priority[<<s, top>>] /\ q \in 0..255 /\ q # 0
               /\ \A n \in T : Priority[<<s, n>>] <= q
    <2>1. top \in T /\ \A n \in T : Priority[<<s, n>>] <= Priority[<<s, top>>]
      BY <1>6, TopModeTop
    <2>2. q = Priority[<<s, top>>]
      BY <1>6 DEF TopPriority
    <2>3. q # 0
      BY <1>1, <2>1, <2>2 DEF Ranked
    <2> QED
      BY <1>1, <2>1, <2>2, <2>3
  <1>7. T # {} => RankedRow(s, T, q)
    BY <1>1, <1>6 DEF RankedRow
  <1>8. T # {} => ~BackToInitial(img, s, on, p)
    BY DEF BackToInitial
  <1>9. CASE T # {} /\ q = p
    <2>1. Held(img, s, p) /\ ~ModeSwitch(img, s, on, p) /\ p # 0
      BY <1>2, <1>4, <1>6, <1>9
    <2>2. 0 \notin on
      BY <2>1 DEF RankedRow
    <2>3. on2 = T /\ p2 = p /\ sends = {}
      BY <1>3, <1>8, <1>9, <2>1, <2>2 DEF SwitchedState, SwitchedPriority, SwitchSends
    <2>4. ASSUME NEW m \in Modes, RankedPic(s, on, p, m) PROVE m = top
      <3>1. m \in W /\ top \in W /\ Priority[<<s, m>>] = Priority[<<s, top>>]
        BY <1>1, <1>6, <1>9, <2>1, <2>4 DEF RankedPic
      <3> QED
        BY <3>1 DEF Ranked
    <2>5. \A m \in Modes : RankedPic(s, on, p, m) => RankedPic(s, T, p, m)
      BY <2>1 DEF RankedPic
    <2> QED
      BY <1>7, <1>9, <2>1, <2>3, <2>4, <2>5
  <1>10. CASE T # {} /\ q # p
    <2>1. T # on \cap W
      <3>1. SUFFICES ASSUME T = on \cap W PROVE FALSE
        OBVIOUS
      <3>2. on = T /\ 0 \notin on
        BY <1>1, <1>10, <3>1, ZenonT(40) DEF RankedRow
      <3>3. PICK m \in T : Priority[<<s, m>>] = p /\ \A n \in T : Priority[<<s, n>>] <= p
        BY <1>10, <3>2 DEF RankedRow
      <3>4. q <= p /\ p <= q /\ q \in 0..255
        BY <1>6, <1>10, <3>3
      <3> QED
        BY <1>10, <3>4
    <2>2. ModeSwitch(img, s, on, p) /\ ~Held(img, s, p)
      BY <1>2, <1>4, <1>6, <1>10, <2>1
    <2>3. on2 = T /\ p2 = q /\ sends = {top}
      BY <1>1, <1>3, <1>8, <1>10, <2>2 DEF SwitchedState, SwitchedPriority, SwitchSends
    <2>4. RankedPic(s, T, q, top)
      BY <1>1, <1>6, <1>10 DEF RankedPic
    <2> QED
      BY <1>7, <1>10, <2>3, <2>4
  <1> QED
    BY <1>5, <1>9, <1>10

LEMMA SwitchAnswered ==
  ASSUME NEW c \in Cranes, NEW img \in Image(c), NEW s \in Screens, NEW on \in SUBSET Modes,
         NEW p \in 0..255, enablePriority \in BOOLEAN, Ranked, RowFits(s, on, p)
  PROVE  SwitchAnswers(img, s, on, p)
  <1>1. CASE enablePriority = FALSE
    BY <1>1, PlainSwitch DEF RowFits
  <1>2. CASE enablePriority = TRUE
    BY <1>2, RankedSwitch DEF RowFits
  <1> QED
    BY <1>1, <1>2

(* What FreeModeSwitch does to one screen.                                   *)
LEMMA SeqElement == ASSUME NEW S, NEW f \in Seq(S), NEW i \in DOMAIN f PROVE f[i] \in S
  OBVIOUS

LEMMA FreeTakenPoints ==
  ASSUME NEW c \in Cranes, NEW img \in Image(c), NEW s \in Screens, NEW on \in SUBSET Modes
  PROVE  /\ FreeTaken(c, img, s, on) \subseteq FreePoints(c, s)
         /\ FreePoints(c, s) \subseteq DOMAIN FreeModes[c]
         /\ \A i \in DOMAIN FreeModes[c] : FreeModes[c][i].mode \in Modes
  <1>1. FreeModes[c] \in Seq([screen : Screens, mode : Modes])
    BY ConfigAssumption
  <1>2. \A i \in DOMAIN FreeModes[c] : FreeModes[c][i] \in [screen : Screens, mode : Modes]
    BY <1>1, SeqElement, Zenon
  <1>3. img.free \subseteq DOMAIN FreeModes[c]
    BY DEF Image
  <1>4. \A i \in DOMAIN FreeModes[c] : FreeModes[c][i].mode \in Modes
    BY <1>2
  <1>5. FreeOn(c, img, s) \subseteq FreePoints(c, s)
    BY <1>3 DEF FreeOn, FreePoints
  <1>6. FreeTaken(c, img, s, on) \subseteq FreeOn(c, img, s)
    BY Zenon DEF FreeTaken
  <1>7. FreePoints(c, s) \subseteq DOMAIN FreeModes[c]
    BY Zenon DEF FreePoints
  <1> QED
    BY <1>4, <1>5, <1>6, <1>7

LEMMA FreeRow ==
  ASSUME NEW c \in Cranes, NEW img \in Image(c), NEW s \in Screens, NEW on \in SUBSET Modes
  PROVE  /\ FreeState(c, img, s, on) \in SUBSET Modes
         /\ PlainRow(s, on) => PlainRow(s, FreeState(c, img, s, on))
  <1> DEFINE taken == FreeTaken(c, img, s, on)
  <1>1. CASE taken = {}
    BY <1>1 DEF FreeState
  <1>2. CASE taken # {}
    <2>1. PICK i \in taken : LastPoint(taken) = {i}
      BY <1>2, FreeTakenPoints, LastPointExists
    <2>2. FreeState(c, img, s, on) = {FreeModes[c][i].mode}
      BY <1>2, <2>1 DEF FreeState
    <2>3. FreeModes[c][i].mode \in Modes
      BY <2>1, FreeTakenPoints
    <2> QED
      BY <2>2, <2>3 DEF PlainRow
  <1> QED
    BY <1>1, <1>2

LEMMA FreePic ==
  ASSUME NEW c \in Cranes, NEW img \in Image(c), NEW d \in Displays, NEW on \in SUBSET Modes,
         AllPlanned, d[2] \in Screens
  PROVE  LET on2   == FreeState(c, img, d[2], on)
             sends == FreeSends(c, img, d[2], on)
         IN  /\ sends \subseteq Askable(c, d[2])
             /\ sends = {} => on2 = on
             /\ sends # {} => \E m \in Modes : sends = {m} /\ PlainPic(on2, m)
  <1> DEFINE s == d[2]
             taken == FreeTaken(c, img, s, on)
             planned == {j \in taken : <<c, s, FreeModes[c][j].mode>> \in Plans}
  <1>1. planned = taken
    <2>1. taken \subseteq FreePoints(c, s)
      BY FreeTakenPoints
    <2>2. \A j \in taken : FreeModes[c][j].mode \in Askable(c, s)
      <3> HIDE DEF taken
      <3> QED
        BY <2>1 DEF Askable
    <2>3. \A j \in taken : <<c, s, FreeModes[c][j].mode>> \in Plans
      <3> HIDE DEF taken
      <3> QED
        BY <2>2 DEF AllPlanned
    <2> HIDE DEF taken
    <2> QED
      BY <2>3
  <1>2. FreeSends(c, img, s, on) = {FreeModes[c][i].mode : i \in LastPoint(taken)}
    BY <1>1, Zenon DEF FreeSends
  <1>3. CASE taken = {}
    <2>1. FreeSends(c, img, s, on) = {}
      BY <1>2, <1>3 DEF LastPoint
    <2> QED
      BY <1>3, <2>1 DEF FreeState
  <1>4. CASE taken # {}
    <2>1. PICK i \in taken : LastPoint(taken) = {i}
      BY <1>4, FreeTakenPoints, LastPointExists
    <2> DEFINE m == FreeModes[c][i].mode
    <2>2. FreeState(c, img, s, on) = {m} /\ FreeSends(c, img, s, on) = {m}
      BY <1>2, <1>4, <2>1 DEF FreeState
    <2>a. i \in FreePoints(c, s) /\ i \in DOMAIN FreeModes[c]
      BY <2>1, FreeTakenPoints
    <2>b. Modes \subseteq Nat
      BY ModesAre
    <2>c. m \in Modes
      BY <2>a, FreeTakenPoints
    <2>d. m \in Askable(c, s)
      BY <2>a DEF Askable
    <2>3. m \in Modes /\ m \in Askable(c, s) /\ m \in Nat
      BY <2>b, <2>c, <2>d
    <2>4. PlainPic({m}, m)
      <3> HIDE DEF m
      <3> QED
        BY <2>3 DEF PlainPic
    <2> QED
      BY <2>2, <2>3, <2>4
  <1> QED
    BY <1>3, <1>4

-----------------------------------------------------------------------------
(* Types.                                                                    *)
LEMMA OldTyped ==
  ASSUME TypeOK, NEW c \in Cranes, NEW img \in Image(c)
  PROVE  /\ BoundState(c, img.console) \in [Cranes -> SUBSET (Screens \X Modes)]
         /\ ClearPriority(c, img.console) \in [Screens -> 0..255]
         /\ \A s \in Screens : /\ OldRow(c, img, s) \in SUBSET Modes
                               /\ OldPriority(c, img, s) \in 0..255
  <1>1. BoundState(c, img.console) \in [Cranes -> SUBSET (Screens \X Modes)]
    BY DEF TypeOK, BoundState
  <1>2. ClearPriority(c, img.console) \in [Screens -> 0..255]
    BY DEF TypeOK, ClearPriority
  <1>3. \A s \in Screens : OldRow(c, img, s) \in SUBSET Modes
    BY DEF OldRow, Row
  <1>4. \A s \in Screens : OldPriority(c, img, s) \in 0..255
    BY <1>2 DEF OldPriority
  <1> QED
    BY <1>1, <1>2, <1>3, <1>4

LEMMA TopTyped ==
  ASSUME TypeOK, NEW c \in Cranes, NEW img \in Image(c), NEW s \in Screens
  PROVE  /\ TopMode(img, s) \in Modes /\ TopPriority(img, s) \in 0..255
         /\ SetModes(img, s) \in SUBSET Modes
  <1>1. enablePriority \in BOOLEAN
    BY DEF TypeOK
  <1>2. \A m \in SetModes(img, s) : m \in Modes /\ <<s, m>> \in PlcScreenAdd
    BY DEF SetModes, Image
  <1>3. CASE SetModes(img, s) = {}
    BY <1>3, ModesAre DEF TopMode, TopPriority
  <1>4. CASE SetModes(img, s) # {}
    <2>1. TopMode(img, s) \in SetModes(img, s)
      BY <1>1, <1>4, TopModeTop
    <2>2. TopPriority(img, s) = Priority[<<s, TopMode(img, s)>>]
      BY <1>4 DEF TopPriority
    <2>3. TopPriority(img, s) \in 0..255
      BY <1>2, <2>1, <2>2, ConfigAssumption
    <2> QED
      BY <1>2, <2>1, <2>3
  <1> QED
    BY <1>3, <1>4

LEMMA NewTyped ==
  ASSUME TypeOK, NEW c \in Cranes, NEW img \in Image(c), NEW s \in Screens
  PROVE  /\ NewRow(c, img, s) \in SUBSET Modes
         /\ NewPriority(c, img, s) \in 0..255
         /\ Sends(c, img, s) \in SUBSET Modes
  <1> DEFINE on == OldRow(c, img, s)
             p == OldPriority(c, img, s)
  <1>1. on \in SUBSET Modes /\ p \in 0..255
    BY OldTyped
  <1>2. CASE img.free # {}
    <2>1. FreeState(c, img, s, on) \in SUBSET Modes
      BY <1>1, FreeRow
    <2>2. FreeSends(c, img, s, on) \in SUBSET Modes
      <3>1. LastPoint({j \in FreeTaken(c, img, s, on) : <<c, s, FreeModes[c][j].mode>> \in Plans})
              \subseteq FreeTaken(c, img, s, on)
        BY Zenon DEF LastPoint
      <3>2. FreeTaken(c, img, s, on) \subseteq DOMAIN FreeModes[c]
        BY <1>1, FreeTakenPoints
      <3>3. \A i \in DOMAIN FreeModes[c] : FreeModes[c][i].mode \in Modes
        BY <1>1, FreeTakenPoints
      <3> QED
        BY <3>1, <3>2, <3>3, Zenon DEF FreeSends
    <2> QED
      BY <1>1, <1>2, <2>1, <2>2 DEF NewRow, NewPriority, Sends
  <1>3. CASE img.free = {}
    <2>1. Scanned(img, s, on) \in SUBSET Modes
      BY <1>1, TopTyped DEF Scanned
    <2>2. SwitchedState(img, s, on, p) \in SUBSET Modes
      BY <2>1, ModesAre DEF SwitchedState
    <2>3. SwitchedPriority(img, s, p) \in 0..255
      BY <1>1, TopTyped DEF SwitchedPriority
    <2>4. SwitchSends(img, s, on, p) \in SUBSET Modes
      BY TopTyped DEF SwitchSends
    <2> QED
      BY <1>3, <2>2, <2>3, <2>4 DEF NewRow, NewPriority, Sends
  <1> QED
    BY <1>2, <1>3

LEMMA DisplayScreens == \A d \in Displays : d[1] \in Consoles /\ d[2] \in Screens /\ d[1] # 0
  BY ConfigAssumption DEF Displays

LEMMA HeightTyped ==
  ASSUME TypeOK, NEW c \in Cranes, NEW img \in Image(c)
  PROVE  /\ NewHeight(c, img) \in SUBSET (Screens \X Modes)
         /\ \A s : /\ HeightSends(c, img, s) \in SUBSET Modes
                   /\ c \notin HeightOn => HeightSends(c, img, s) = {}
  <1> DEFINE points == HeightPoints(c, img)
  <1>1. c \in HeightOn => points \in Seq([screen : Screens, mode : Modes])
    <2>1. img.height \in Heights
      BY DEF Image
    <2> QED
      BY <2>1, ConfigAssumption DEF HeightPoints
  <1>2. c \in HeightOn => \A i \in DOMAIN points : points[i] \in [screen : Screens, mode : Modes]
    <2> HIDE DEF points
    <2> QED
      BY <1>1, SeqElement, Zenon
  <1>3. c \notin HeightOn => DOMAIN points = {}
    BY DEF HeightPoints
  <1> HIDE DEF points
  <1>4. \A i \in DOMAIN points : points[i].screen \in Screens /\ points[i].mode \in Modes
    BY <1>2, <1>3
  <1>5. NewHeight(c, img) \in SUBSET (Screens \X Modes)
    <2>1. CASE c \notin HeightOn
      BY <2>1 DEF NewHeight, TypeOK
    <2>2. CASE c \in HeightOn
      <3>1. NewHeight(c, img) = {<<points[i].screen, points[i].mode>> : i \in DOMAIN points}
        BY <2>2, Zenon DEF NewHeight, points
      <3> QED
        BY <1>4, <3>1
    <2> QED
      BY <2>1, <2>2
  <1>6. ASSUME NEW s
        PROVE  /\ HeightSends(c, img, s) \in SUBSET Modes
               /\ c \notin HeightOn => HeightSends(c, img, s) = {}
    <2> DEFINE sent == {i \in DOMAIN points : /\ points[i].screen = s
                                              /\ <<s, points[i].mode>> \notin oldHeight[c]
                                             /\ <<c, s, points[i].mode>> \in Plans}
    <2>1. HeightSends(c, img, s) = {points[i].mode : i \in LastPoint(sent)}
      BY Zenon DEF HeightSends, points
    <2>2. LastPoint(sent) \subseteq DOMAIN points
      BY Zenon DEF LastPoint
    <2> HIDE DEF sent
    <2> QED
      BY <1>3, <1>4, <2>1, <2>2
  <1> QED
    BY <1>5, <1>6

LEMMA NewPicturesTyped ==
  ASSUME TypeOK, NEW c \in Cranes, NEW img \in Image(c), NEW d \in Displays
  PROVE  /\ \A pic \in New(c, img, d) \cup NewByHeight(c, img, d) :
               pic \in Picture /\ pic.crane = c /\ img.console = d[1]
         /\ \A pic \in New(c, img, d) : pic.mode \in Sends(c, img, d[2])
         /\ c \notin HeightOn => NewByHeight(c, img, d) = {}
  <1>1. /\ Sends(c, img, d[2]) \subseteq Modes
        /\ HeightSends(c, img, d[2]) \subseteq Modes
        /\ c \notin HeightOn => HeightSends(c, img, d[2]) = {}
    BY DisplayScreens, NewTyped, HeightTyped
  <1>2. ASSUME NEW pic \in New(c, img, d)
        PROVE  /\ pic \in Picture /\ pic.crane = c /\ img.console = d[1]
               /\ pic.mode \in Sends(c, img, d[2])
    <2>1. PICK m \in Sends(c, img, d[2]) :
            pic = [crane |-> c, mode |-> m] /\ d[1] = img.console
      BY DEF New, NewPictures
    <2> QED
      BY <1>1, <2>1 DEF Picture
  <1>3. ASSUME NEW pic \in NewByHeight(c, img, d)
        PROVE  /\ pic \in Picture /\ pic.crane = c /\ img.console = d[1]
               /\ c \in HeightOn
    <2>1. PICK m \in HeightSends(c, img, d[2]) :
            pic = [crane |-> c, mode |-> m] /\ d[1] = img.console
      BY DEF NewByHeight, NewPictures
    <2> QED
      BY <1>1, <2>1 DEF Picture
  <1> QED
    BY <1>2, <1>3

(* What a poll makes of a picture: takes it away, sends another, or leaves   *)
(* it where it was; what it keeps for a restart: the same.                   *)
LEMMA LatestPictures ==
  ASSUME NEW c, NEW img, NEW d, NEW pic
  PROVE  LET pics == New(c, img, d) \cup NewByHeight(c, img, d)
         IN  /\ \/ Latest(Kept(c, img, d), pic) \in pics
                \/ Latest(Kept(c, img, d), pic) = pic /\ pics = {}
             /\ \/ Latest(Sent(c, img, d), pic) \in pics
                \/ Latest(Sent(c, img, d), pic) = pic /\ (pics = {} \/ FirstSwitch(img.console))
  <1> DEFINE k == img.console
             pics == New(c, img, d) \cup NewByHeight(c, img, d)
  <1>1. \A S, x : IF S = {} THEN Latest(S, x) = x ELSE Latest(S, x) \in S
    BY DEF Latest
  <1>2. Kept(c, img, d) \subseteq pics /\ (Kept(c, img, d) = {} => pics = {})
    BY Zenon DEF Kept
  <1>3. k \in Cranes /\ NewFirst(c, img)[k] => FirstSwitch(k)
    BY DEF NewFirst, FirstSwitch
  <1>4. Sent(c, img, d) \subseteq pics /\ (Sent(c, img, d) = {} => pics = {} \/ FirstSwitch(k))
    BY <1>3 DEF Sent
  <1> QED
    BY <1>1, <1>2, <1>4

LEMMA HandleTyped ==
  ASSUME TypeOK, NEW c \in Cranes, NEW img \in Image(c), HandleImage(c, img)
  PROVE  /\ bound' \in [Cranes -> {0} \cup Consoles]
         /\ state' \in [Cranes -> SUBSET (Screens \X Modes)]
         /\ prio' \in [Cranes -> [Screens -> 0..255]]
         /\ first' \in [Cranes -> BOOLEAN]
         /\ oldHeight' \in [Cranes -> SUBSET (Screens \X Modes)]
         /\ saved' \in [Displays -> Picture]
         /\ shown' \in [Displays -> Picture]
  <1> DEFINE k == img.console
  <1>1. bound' \in [Cranes -> {0} \cup Consoles]
    BY DEF HandleImage, TypeOK, Image
  <1>2. state' \in [Cranes -> SUBSET (Screens \X Modes)]
    <2>1. UNION {{s} \X NewRow(c, img, s) : s \in Screens} \subseteq Screens \X Modes
      BY NewTyped
    <2> QED
      BY <2>1, OldTyped DEF HandleImage
  <1>3. prio' \in [Cranes -> [Screens -> 0..255]]
    <2>1. [s \in Screens |-> NewPriority(c, img, s)] \in [Screens -> 0..255]
      BY NewTyped
    <2> QED
      BY <2>1 DEF HandleImage, TypeOK
  <1>4. /\ first' \in [Cranes -> BOOLEAN]
        /\ oldHeight' \in [Cranes -> SUBSET (Screens \X Modes)]
    <2>1. NewHeight(c, img) \in SUBSET (Screens \X Modes)
      BY HeightTyped
    <2> QED
      BY <2>1 DEF HandleImage, NewFirst, TypeOK
  <1>5. Nothing \in Picture
    BY ModesAre DEF Nothing, Picture
  <1>6. \A d \in Displays : \A pic \in Picture :
          Latest(Kept(c, img, d), pic) \in Picture /\ Latest(Sent(c, img, d), pic) \in Picture
    BY LatestPictures, NewPicturesTyped
  <1>7. saved' \in [Displays -> Picture]
    BY <1>5, <1>6 DEF HandleImage, TypeOK
  <1>8. shown' \in [Displays -> Picture]
    BY <1>5, <1>6 DEF HandleImage, TypeOK
  <1> QED
    BY <1>1, <1>2, <1>3, <1>4, <1>7, <1>8

LEMMA Turns == 1 \in Cranes /\ \A c \in Cranes : Next1(c) \in Cranes
  <1>1. NumCranes \in Nat \ {0}
    BY ConfigAssumption
  <1> QED
    BY <1>1 DEF Cranes, Next1

LEMMA TypeStep == TypeOK /\ [Next]_vars => TypeOK'
  <1> SUFFICES ASSUME TypeOK, [Next]_vars PROVE TypeOK'
    OBVIOUS
  <1>1. ASSUME NEW img \in DBImages[turn], Poll(img) PROVE TypeOK'
    <2>1. turn \in Cranes /\ img \in Image(turn)
      BY <1>1, ImageAssumption DEF TypeOK
    <2>2. turn' \in Cranes
      BY <1>1, <2>1, Turns DEF Poll
    <2>3. DOMAIN plc' = Cranes /\ \A c \in Cranes : plc'[c] \in Image(c)
      BY <1>1, <2>1 DEF Poll, TypeOK
    <2>4. enablePriority' \in BOOLEAN /\ connect' \in BOOLEAN /\ refresh' \in BOOLEAN
      BY <1>1 DEF Poll, TypeOK
    <2>5. CASE bound[turn] = 0 /\ img.console = 0
      <3>1. saved' \in [Displays -> Picture]
        BY <1>1, <2>5, ModesAre DEF Poll, TypeOK, Nothing, Picture
      <3> QED
        BY <1>1, <2>2, <2>3, <2>4, <2>5, <3>1 DEF Poll, TypeOK
    <2>6. CASE ~(bound[turn] = 0 /\ img.console = 0)
      <3>1. HandleImage(turn, img)
        BY <1>1, <2>6 DEF Poll
      <3> QED
        BY <2>1, <2>2, <2>3, <2>4, <3>1, HandleTyped DEF TypeOK
    <2> QED
      BY <2>5, <2>6
  <1>2. CASE ReadFails
    BY <1>2, Turns DEF ReadFails, TypeOK
  <1>3. CASE Login
    BY <1>3 DEF Login, TypeOK
  <1>4. CASE groupConfigureRefreshCall
    BY <1>4 DEF groupConfigureRefreshCall, TypeOK
  <1>5. CASE UNCHANGED vars
    BY <1>5 DEF vars, TypeOK
  <1> QED
    BY <1>1, <1>2, <1>3, <1>4, <1>5 DEF Next

-----------------------------------------------------------------------------
(* One poll of a crane, for one of its screens and for the picture on a      *)
(* display of the console its DB names.                                      *)
LEMMA OldFits ==
  ASSUME TypeOK, NEW c \in Cranes, NEW img \in Image(c), NEW s \in Screens
  PROVE  /\ bound[c] = img.console => /\ OldRow(c, img, s) = Row(state[c], s)
                                      /\ OldPriority(c, img, s) = prio[c][s]
         /\ bound[c] # img.console => OldRow(c, img, s) = {} /\ OldPriority(c, img, s) = 0
         /\ RowFits(s, Row(state[c], s), prio[c][s])
              => RowFits(s, OldRow(c, img, s), OldPriority(c, img, s))
  <1>1. CASE bound[c] = img.console
    BY <1>1 DEF OldRow, OldPriority, BoundState, ClearPriority
  <1>2. CASE bound[c] # img.console
    <2>1. BoundState(c, img.console)[c] = {}
      BY <1>2 DEF BoundState
    <2>2. OldRow(c, img, s) = {} /\ OldPriority(c, img, s) = 0
      BY <1>2, <2>1 DEF OldRow, OldPriority, ClearPriority, Row
    <2>3. RowFits(s, {}, 0)
      BY DEF RowFits, RankedRow, PlainRow
    <2> QED
      BY <1>2, <2>2, <2>3
  <1> QED
    BY <1>1, <1>2

LEMMA FreeMeansPlain ==
  ASSUME TypeOK, NEW c \in Cranes, NEW img \in Image(c), Covered(c), img.free # {}
  PROVE  enablePriority = FALSE
  <1>1. img.free \subseteq DOMAIN FreeModes[c]
    BY DEF Image
  <1>2. FreeModes[c] # <<>>
    BY <1>1
  <1> QED
    BY <1>2 DEF Covered, TypeOK

LEMMA RowStep ==
  ASSUME TypeOK, Ranked, NEW c \in Cranes, NEW img \in Image(c), NEW s \in Screens, Covered(c),
         RowFits(s, Row(state[c], s), prio[c][s])
  PROVE  RowFits(s, NewRow(c, img, s), NewPriority(c, img, s))
  <1> DEFINE on == OldRow(c, img, s)
             p == OldPriority(c, img, s)
  <1>1. on \in SUBSET Modes /\ p \in 0..255 /\ RowFits(s, on, p)
    BY OldTyped, OldFits
  <1>2. CASE img.free # {}
    <2>1. enablePriority = FALSE
      BY <1>2, FreeMeansPlain
    <2>2. PlainRow(s, FreeState(c, img, s, on))
      BY <1>1, <2>1, FreeRow DEF RowFits
    <2> QED
      BY <1>2, <2>1, <2>2 DEF RowFits, NewRow
  <1>3. CASE img.free = {}
    <2>1. SwitchAnswers(img, s, on, p)
      BY <1>1, SwitchAnswered DEF TypeOK
    <2> QED
      BY <1>3, <2>1 DEF SwitchAnswers, NewRow, NewPriority
  <1> QED
    BY <1>2, <1>3

(* On the sends of a screen: what they show fits and is the top mode; when   *)
(* there is none, what fitted before still does.                             *)
LEMMA SendsStep ==
  ASSUME TypeOK, Ranked, AllPlanned, NEW c \in Cranes, NEW img \in Image(c), NEW d \in Displays,
         Covered(c), RowFits(d[2], Row(state[c], d[2]), prio[c][d[2]])
  PROVE  LET s     == d[2]
             on2   == NewRow(c, img, s)
             p2    == NewPriority(c, img, s)
             sends == Sends(c, img, s)
             top   == TopMode(img, s)
         IN  /\ sends \subseteq Askable(c, s)
             /\ \A m \in sends : PicFits(s, on2, p2, m) /\ (img.free = {} => m = top)
             /\ sends = {} /\ img.free = {} =>
                  ~(OldRow(c, img, s) = {} /\ OldPriority(c, img, s) = 0)
             /\ sends = {} => \A m \in Modes :
                  PicFits(s, OldRow(c, img, s), OldPriority(c, img, s), m) =>
                    PicFits(s, on2, p2, m) /\ (img.free = {} => m = top)
  <1> DEFINE s == d[2]
             on == OldRow(c, img, s)
             p == OldPriority(c, img, s)
  <1>1. s \in Screens
    BY DisplayScreens
  <1>2. on \in SUBSET Modes /\ p \in 0..255 /\ RowFits(s, on, p)
    BY <1>1, OldTyped, OldFits
  <1>3. TopMode(img, s) \in Askable(c, s)
    <2>1. SetModes(img, s) \subseteq MappedModes(s)
      BY <1>1, SetModesMapped
    <2>2. SetModes(img, s) # {} => TopMode(img, s) \in SetModes(img, s)
      BY <1>1, TopModeTop DEF TypeOK
    <2> QED
      BY <2>1, <2>2 DEF Askable, TopMode
  <1>4. CASE img.free # {}
    <2>1. enablePriority = FALSE
      BY <1>4, FreeMeansPlain
    <2>2. NewRow(c, img, s) = FreeState(c, img, s, on) /\ Sends(c, img, s) = FreeSends(c, img, s, on)
      BY <1>4 DEF NewRow, Sends
    <2>3. \A o, q, m : PicFits(s, o, q, m) <=> PlainPic(o, m)
      BY <2>1 DEF PicFits
    <2>4. /\ Sends(c, img, s) \subseteq Askable(c, s)
          /\ Sends(c, img, s) = {} => NewRow(c, img, s) = on
          /\ Sends(c, img, s) # {} =>
               \E m \in Modes : Sends(c, img, s) = {m} /\ PlainPic(NewRow(c, img, s), m)
      <3>1. LET on2   == FreeState(c, img, d[2], on)
                sends == FreeSends(c, img, d[2], on)
            IN  /\ sends \subseteq Askable(c, d[2])
                /\ sends = {} => on2 = on
                /\ sends # {} => \E m \in Modes : sends = {m} /\ PlainPic(on2, m)
        <4> HIDE DEF on
        <4> QED
          BY <1>1, <1>2, FreePic
      <3> QED
        BY <2>2, <3>1
    <2> QED
      BY <1>4, <2>3, <2>4
  <1>5. CASE img.free = {}
    <2>1. SwitchAnswers(img, s, on, p)
      BY <1>1, <1>2, SwitchAnswered DEF TypeOK
    <2>2. /\ NewRow(c, img, s) = SwitchedState(img, s, on, p)
          /\ NewPriority(c, img, s) = SwitchedPriority(img, s, p)
          /\ Sends(c, img, s) = SwitchSends(img, s, on, p)
      BY <1>5 DEF NewRow, NewPriority, Sends
    <2> HIDE DEF s, on, p
    <2>3. /\ Sends(c, img, s) # {} =>
               /\ Sends(c, img, s) = {TopMode(img, s)}
               /\ PicFits(s, NewRow(c, img, s), NewPriority(c, img, s), TopMode(img, s))
          /\ Sends(c, img, s) = {} => ~(on = {} /\ p = 0)
          /\ Sends(c, img, s) = {} => \A m \in Modes : PicFits(s, on, p, m) =>
               m = TopMode(img, s) /\ PicFits(s, NewRow(c, img, s), NewPriority(c, img, s), m)
      BY <2>1, <2>2 DEF SwitchAnswers
    <2> QED
      BY <1>3, <1>5, <2>3 DEF s, on, p
  <1> QED
    BY <1>4, <1>5

LEMMA HandleRows ==
  ASSUME TypeOK, NEW c \in Cranes, NEW img \in Image(c), HandleImage(c, img)
  PROVE  /\ bound'[c] = img.console
         /\ \A s \in Screens : /\ Row(state'[c], s) = NewRow(c, img, s)
                               /\ prio'[c][s] = NewPriority(c, img, s)
         /\ \A x \in Cranes \ {c} : /\ bound'[x] = bound[x] /\ prio'[x] = prio[x]
                                    /\ state'[x] \in {state[x], {}}
  <1>1. bound' = [bound EXCEPT ![c] = img.console] /\ bound \in [Cranes -> {0} \cup Consoles]
    BY DEF HandleImage, TypeOK
  <1>2. prio' = [prio EXCEPT ![c] = [s \in Screens |-> NewPriority(c, img, s)]]
        /\ prio \in [Cranes -> [Screens -> 0..255]]
    BY DEF HandleImage, TypeOK
  <1>3. state' = [BoundState(c, img.console) EXCEPT
                   ![c] = UNION {{s} \X NewRow(c, img, s) : s \in Screens}]
        /\ BoundState(c, img.console) \in [Cranes -> SUBSET (Screens \X Modes)]
    BY OldTyped DEF HandleImage
  <1>4. ASSUME NEW s \in Screens
        PROVE  Row(state'[c], s) = NewRow(c, img, s) /\ prio'[c][s] = NewPriority(c, img, s)
    <2>1. state'[c] = UNION {{r} \X NewRow(c, img, r) : r \in Screens}
      BY <1>3
    <2>2. NewRow(c, img, s) \subseteq Modes
      BY NewTyped
    <2>3. \A m \in Modes : <<s, m>> \in state'[c] <=> m \in NewRow(c, img, s)
      BY <2>1
    <2> QED
      BY <1>2, <2>2, <2>3 DEF Row
  <1>5. ASSUME NEW x \in Cranes \ {c}
        PROVE  /\ bound'[x] = bound[x] /\ prio'[x] = prio[x]
               /\ state'[x] \in {state[x], {}}
    <2>1. state'[x] = BoundState(c, img.console)[x]
      BY <1>3
    <2>2. BoundState(c, img.console)[x] \in {state[x], {}}
      BY DEF BoundState
    <2> QED
      BY <1>1, <1>2, <2>1, <2>2
  <1> QED
    BY <1>1, <1>4, <1>5

(* A complete plan turns every send into a picture.                          *)
LEMMA SendsShow ==
  ASSUME AllPlanned, NEW c \in Cranes, NEW img \in Image(c), NEW d \in Displays,
         img.console = d[1], Sends(c, img, d[2]) \subseteq Askable(c, d[2]), New(c, img, d) = {}
  PROVE  Sends(c, img, d[2]) = {}
  <1> SUFFICES ASSUME NEW m \in Sends(c, img, d[2]) PROVE FALSE
    OBVIOUS
  <1>1. <<c, d[2], m>> \in Plans
    BY DEF AllPlanned
  <1>2. [crane |-> c, mode |-> m] \in New(c, img, d)
    BY <1>1 DEF New, NewPictures
  <1> QED
    BY <1>2

(* A picture that a poll sends, leaves or takes away fits afterwards.        *)
LEMMA PicStep ==
  ASSUME TypeOK, Ranked, AllPlanned, RowsFit, NEW c \in Cranes, NEW img \in Image(c),
         HandleImage(c, img), plc'[c] = img, \A y \in Cranes \ {c} : plc'[y] = plc[y],
         NEW d \in Displays, NEW pic \in Picture, PicFitsOn(d, pic), NEW pic2,
         \/ pic2 = Nothing
         \/ pic2 \in New(c, img, d) \cup NewByHeight(c, img, d)
         \/ pic2 = pic /\ New(c, img, d) = {},
         pic2.crane # 0, bound'[pic2.crane] = d[1], Covered(pic2.crane)
  PROVE  /\ PicFits(d[2], Row(state'[pic2.crane], d[2]), prio'[pic2.crane][d[2]], pic2.mode)
         /\ plc'[pic2.crane].free = {} => pic2.mode = TopMode(plc'[pic2.crane], d[2])
  <1> DEFINE s == d[2]
             x == pic2.crane
  <1>1. s \in Screens /\ plc'[c] = img /\ \A y \in Cranes \ {c} : plc'[y] = plc[y]
    BY DisplayScreens
  <1>2. /\ bound'[c] = img.console
        /\ Row(state'[c], s) = NewRow(c, img, s) /\ prio'[c][s] = NewPriority(c, img, s)
    BY <1>1, HandleRows
  <1>3. ASSUME x = c
        PROVE  /\ Sends(c, img, s) \subseteq Askable(c, s)
               /\ \A m \in Sends(c, img, s) : /\ PicFits(s, NewRow(c, img, s), NewPriority(c, img, s), m)
                                              /\ img.free = {} => m = TopMode(img, s)
               /\ Sends(c, img, s) = {} /\ img.free = {} =>
                    ~(OldRow(c, img, s) = {} /\ OldPriority(c, img, s) = 0)
               /\ Sends(c, img, s) = {} => \A m \in Modes :
                    PicFits(s, OldRow(c, img, s), OldPriority(c, img, s), m) =>
                      /\ PicFits(s, NewRow(c, img, s), NewPriority(c, img, s), m)
                      /\ img.free = {} => m = TopMode(img, s)
    <2>1. RowFits(s, Row(state[c], s), prio[c][s]) /\ Covered(c)
      BY <1>1, <1>3 DEF RowsFit
    <2> QED
      BY <2>1, SendsStep
  <1>4. CASE pic2 = Nothing
    BY <1>4 DEF Nothing
  <1>5. CASE pic2 \in New(c, img, d) \cup NewByHeight(c, img, d)
    <2>1. x = c /\ pic2.mode \in Sends(c, img, s)
      BY <1>5, NewPicturesTyped DEF Covered
    <2>2. /\ PicFits(s, NewRow(c, img, s), NewPriority(c, img, s), pic2.mode)
          /\ img.free = {} => pic2.mode = TopMode(img, s)
      <3>1. \A m \in Sends(c, img, s) : /\ PicFits(s, NewRow(c, img, s), NewPriority(c, img, s), m)
                                        /\ img.free = {} => m = TopMode(img, s)
        BY <1>3, <2>1
      <3> QED
        BY <2>1, <3>1, Zenon
    <2>3. /\ Row(state'[x], s) = NewRow(c, img, s) /\ prio'[x][s] = NewPriority(c, img, s)
          /\ plc'[x] = img
      BY <1>1, <1>2, <2>1
    <2> QED
      BY <2>2, <2>3
  <1>6. CASE pic2 = pic /\ New(c, img, d) = {}
    <2>1. x \in Cranes /\ pic.mode \in Modes
      BY <1>6 DEF Picture
    <2>2. CASE x = c
      <3>1. img.console = d[1]
        BY <1>2, <2>2
      <3>2. Sends(c, img, s) = {}
        BY <1>3, <1>6, <2>2, <3>1, SendsShow
      <3>3. PicFits(s, OldRow(c, img, s), OldPriority(c, img, s), pic.mode)
        <4>1. CASE bound[c] = img.console
          <5>1. PicFits(s, Row(state[c], s), prio[c][s], pic.mode)
            BY <1>6, <2>2, <3>1, <4>1 DEF PicFitsOn
          <5> QED
            BY <1>1, <4>1, <5>1, OldFits
        <4>2. CASE bound[c] # img.console
          <5>1. OldRow(c, img, s) = {} /\ OldPriority(c, img, s) = 0
            BY <1>1, <4>2, OldFits
          <5>2. img.free # {}
            BY <1>3, <2>2, <3>2, <5>1
          <5>3. enablePriority = FALSE
            BY <2>2, <5>2, FreeMeansPlain
          <5> QED
            BY <5>1, <5>3 DEF PicFits, PlainPic
        <4> QED
          BY <4>1, <4>2
      <3> QED
        BY <1>1, <1>2, <1>3, <1>6, <2>1, <2>2, <3>2, <3>3
    <2>3. CASE x # c
      <3>1. /\ bound'[x] = bound[x] /\ prio'[x] = prio[x] /\ plc'[x] = plc[x]
            /\ state'[x] \in {state[x], {}}
        BY <1>1, <2>1, <2>3, HandleRows
      <3>2. /\ PicFits(s, Row(state[x], s), prio[x][s], pic.mode)
            /\ plc[x].free = {} => pic.mode = TopMode(plc[x], s)
        BY <1>6, <3>1 DEF PicFitsOn
      <3>3. PicFits(s, {}, prio[x][s], pic.mode)
        BY <3>2 DEF PicFits, RankedPic, PlainPic
      <3>4. Row({}, s) = {}
        BY DEF Row
      <3> QED
        BY <1>6, <3>1, <3>2, <3>3, <3>4
    <2> QED
      BY <2>2, <2>3
  <1> QED
    BY <1>4, <1>5, <1>6

(* A picture of a crane on no console is left to the crane's next poll: the  *)
(* crane that is skipped is on none.                                         *)
LEMMA SkipStep ==
  ASSUME TypeOK, NEW c \in Cranes, bound[c] = 0,
         \A y \in Cranes \ {c} : plc'[y] = plc[y], NEW d \in Displays, NEW pic \in Picture,
         PicFitsOn(d, pic), pic.crane # 0, bound[pic.crane] = d[1], Covered(pic.crane)
  PROVE  /\ PicFits(d[2], Row(state[pic.crane], d[2]), prio[pic.crane][d[2]], pic.mode)
         /\ plc'[pic.crane].free = {} => pic.mode = TopMode(plc'[pic.crane], d[2])
  <1>1. pic.crane \in Cranes /\ pic.crane # c
    BY DisplayScreens DEF Picture
  <1>2. plc'[pic.crane] = plc[pic.crane]
    BY <1>1
  <1> QED
    BY <1>2 DEF PicFitsOn

LEMMA SameFlag ==
  ASSUME enablePriority' = enablePriority
  PROVE  /\ RowsFit' <=> \A c \in Cranes, s \in Screens :
                           Covered(c) => RowFits(s, Row(state'[c], s), prio'[c][s])
         /\ \A d, pic : PicFitsOn(d, pic)' <=>
              (pic.crane # 0 /\ bound'[pic.crane] = d[1] /\ Covered(pic.crane) =>
                /\ PicFits(d[2], Row(state'[pic.crane], d[2]), prio'[pic.crane][d[2]], pic.mode)
                /\ plc'[pic.crane].free = {} => pic.mode = TopMode(plc'[pic.crane], d[2]))
  <1>1. \A c : Covered(c)' <=> Covered(c)
    BY DEF Covered
  <1>2. \A x, d : TopMode(plc[x], d[2])' = TopMode(plc'[x], d[2])
    BY DEF TopMode, Best, SetModes
  <1>3. \A s, on, p : RowFits(s, on, p)' <=> RowFits(s, on, p)
    BY DEF RowFits
  <1>4. \A s, on, p, m : PicFits(s, on, p, m)' <=> PicFits(s, on, p, m)
    BY DEF PicFits
  <1> QED
    BY <1>1, <1>2, <1>3, <1>4 DEF RowsFit, PicFitsOn

(* A poll preserves the invariant: one step per conjunct.                    *)
LEMMA HandleStep ==
  ASSUME IInv, Ranked, AllPlanned, NEW img \in Image(turn), HandleImage(turn, img),
         plc' = [plc EXCEPT ![turn] = img], enablePriority' = enablePriority
  PROVE  RowsFit' /\ PicsFit(saved)' /\ PicsFit(shown)' /\ FirstDark'
  <1> DEFINE c == turn
  <1>1. TypeOK /\ RowsFit /\ PicsFit(saved) /\ PicsFit(shown) /\ FirstDark
    BY DEF IInv
  <1>2. c \in Cranes /\ saved \in [Displays -> Picture] /\ shown \in [Displays -> Picture]
    BY <1>1 DEF TypeOK
  <1>3. RowsFit'
    <2>1. ASSUME NEW x \in Cranes, NEW s \in Screens, Covered(x)
          PROVE  RowFits(s, Row(state'[x], s), prio'[x][s])
      <3>1. RowFits(s, Row(state[x], s), prio[x][s])
        BY <1>1, <2>1 DEF RowsFit
      <3>2. CASE x = c
        BY <1>1, <1>2, <2>1, <3>1, <3>2, RowStep, HandleRows
      <3>3. CASE x # c
        <4>1. state'[x] \in {state[x], {}} /\ prio'[x] = prio[x]
          BY <1>1, <1>2, <3>3, HandleRows
        <4>2. RowFits(s, {}, prio[x][s])
          BY DEF RowFits, RankedRow, PlainRow
        <4>3. Row({}, s) = {}
          BY DEF Row
        <4> QED
          BY <3>1, <4>1, <4>2, <4>3
      <3> QED
        BY <3>2, <3>3
    <2> QED
      BY <2>1, SameFlag
  <1>p. ASSUME NEW d \in Displays, NEW pic \in Picture, PicFitsOn(d, pic), NEW pic2,
               \/ pic2 = Nothing
               \/ pic2 \in New(c, img, d) \cup NewByHeight(c, img, d)
               \/ pic2 = pic /\ New(c, img, d) = {},
               pic2.crane # 0 /\ bound'[pic2.crane] = d[1] /\ Covered(pic2.crane)
        PROVE  /\ PicFits(d[2], Row(state'[pic2.crane], d[2]), prio'[pic2.crane][d[2]], pic2.mode)
               /\ plc'[pic2.crane].free = {} => pic2.mode = TopMode(plc'[pic2.crane], d[2])
    <2>1. plc'[c] = img /\ \A y \in Cranes \ {c} : plc'[y] = plc[y]
      BY <1>1, <1>2 DEF TypeOK
    <2> QED
      BY <1>1, <1>2, <1>p, <2>1, PicStep
  <1>4. PicsFit(saved)'
    <2>1. ASSUME NEW d \in Displays
          PROVE  \/ saved'[d] = Nothing
                 \/ saved'[d] \in New(c, img, d) \cup NewByHeight(c, img, d)
                 \/ saved'[d] = saved[d] /\ New(c, img, d) = {}
      <3>1. saved'[d] = IF refresh /\ c = NumCranes THEN Nothing
                        ELSE Latest(Kept(c, img, d), saved[d])
        BY DEF HandleImage
      <3>2. \/ Latest(Kept(c, img, d), saved[d]) \in New(c, img, d) \cup NewByHeight(c, img, d)
            \/ Latest(Kept(c, img, d), saved[d]) = saved[d] /\ New(c, img, d) = {}
        BY LatestPictures
      <3> QED
        BY <3>1, <3>2
    <2>2. ASSUME NEW d \in Displays, saved'[d].crane # 0, bound'[saved'[d].crane] = d[1],
                 Covered(saved'[d].crane)
          PROVE  /\ PicFits(d[2], Row(state'[saved'[d].crane], d[2]),
                             prio'[saved'[d].crane][d[2]], saved'[d].mode)
                 /\ plc'[saved'[d].crane].free = {} =>
                      saved'[d].mode = TopMode(plc'[saved'[d].crane], d[2])
      <3> DEFINE pic == saved[d]
                 pic2 == saved'[d]
      <3>1. pic \in Picture /\ PicFitsOn(d, pic)
        BY <1>1, <1>2 DEF PicsFit
      <3>2. \/ pic2 = Nothing
            \/ pic2 \in New(c, img, d) \cup NewByHeight(c, img, d)
            \/ pic2 = pic /\ New(c, img, d) = {}
        BY <2>1
      <3>3. pic2.crane # 0 /\ bound'[pic2.crane] = d[1] /\ Covered(pic2.crane)
        BY <2>2
      <3> HIDE DEF pic, pic2, c
      <3>4. /\ PicFits(d[2], Row(state'[pic2.crane], d[2]), prio'[pic2.crane][d[2]], pic2.mode)
            /\ plc'[pic2.crane].free = {} => pic2.mode = TopMode(plc'[pic2.crane], d[2])
        BY <1>p, <3>1, <3>2, <3>3, Zenon
      <3> QED
        BY <3>4 DEF pic2
    <2> QED
      BY <2>2, SameFlag DEF PicsFit
  <1>5. PicsFit(shown)'
    <2>1. ASSUME NEW d \in Displays
          PROVE  \/ shown'[d] = Nothing
                 \/ shown'[d] \in New(c, img, d) \cup NewByHeight(c, img, d)
                 \/ shown'[d] = shown[d] /\ New(c, img, d) = {}
      <3> DEFINE pics == New(c, img, d) \cup NewByHeight(c, img, d)
                 left == IF d \in CloseAllIpcInGroup(c, img.console) THEN Nothing ELSE shown[d]
      <3>1. shown'[d] = Latest(Sent(c, img, d), left)
        BY DEF HandleImage
      <3>2. \/ shown'[d] \in pics
            \/ shown'[d] = left /\ (pics = {} \/ FirstSwitch(img.console))
        <4> HIDE DEF left
        <4> QED
          BY <3>1, LatestPictures
      <3>3. pics # {} => img.console = d[1]
        BY <1>1, <1>2, NewPicturesTyped
      <3>4. FirstSwitch(d[1]) => shown[d] = Nothing
        BY <1>1 DEF FirstDark
      <3> QED
        BY <3>2, <3>3, <3>4
    <2>2. ASSUME NEW d \in Displays, shown'[d].crane # 0, bound'[shown'[d].crane] = d[1],
                 Covered(shown'[d].crane)
          PROVE  /\ PicFits(d[2], Row(state'[shown'[d].crane], d[2]),
                             prio'[shown'[d].crane][d[2]], shown'[d].mode)
                 /\ plc'[shown'[d].crane].free = {} =>
                      shown'[d].mode = TopMode(plc'[shown'[d].crane], d[2])
      <3> DEFINE pic == shown[d]
                 pic2 == shown'[d]
      <3>1. pic \in Picture /\ PicFitsOn(d, pic)
        BY <1>1, <1>2 DEF PicsFit
      <3>2. \/ pic2 = Nothing
            \/ pic2 \in New(c, img, d) \cup NewByHeight(c, img, d)
            \/ pic2 = pic /\ New(c, img, d) = {}
        BY <2>1
      <3>3. pic2.crane # 0 /\ bound'[pic2.crane] = d[1] /\ Covered(pic2.crane)
        BY <2>2
      <3> HIDE DEF pic, pic2, c
      <3>4. /\ PicFits(d[2], Row(state'[pic2.crane], d[2]), prio'[pic2.crane][d[2]], pic2.mode)
            /\ plc'[pic2.crane].free = {} => pic2.mode = TopMode(plc'[pic2.crane], d[2])
        BY <1>p, <3>1, <3>2, <3>3, Zenon
      <3> QED
        BY <3>4 DEF pic2
    <2> QED
      BY <2>2, SameFlag DEF PicsFit
  <1>6. FirstDark'
    <2> SUFFICES ASSUME NEW d \in Displays, FirstSwitch(d[1])' PROVE shown'[d] = Nothing
      BY DEF FirstDark
    <2>1. FirstSwitch(d[1]) /\ d[1] \in Cranes /\ NewFirst(c, img)[d[1]]
      BY <1>1 DEF FirstSwitch, HandleImage, NewFirst, TypeOK
    <2>2. shown[d] = Nothing
      BY <1>1, <2>1 DEF FirstDark
    <2>3. New(c, img, d) # {} \/ NewByHeight(c, img, d) # {} => img.console = d[1]
      BY <1>1, <1>2, NewPicturesTyped
    <2>4. Sent(c, img, d) = {}
      BY <2>1, <2>3 DEF Sent
    <2> QED
      BY <2>2, <2>4 DEF HandleImage, Latest
  <1> QED
    BY <1>3, <1>4, <1>5, <1>6

LEMMA InvInit == Init => IInv
  <1> SUFFICES ASSUME Init PROVE IInv
    OBVIOUS
  <1>1. 1 \in Cranes /\ 0 \in Modes
    BY Turns, ModesAre
  <1>2. TypeOK
    <2>1. Nothing \in Picture
      BY <1>1 DEF Nothing, Picture
    <2>2. \A c \in Cranes : plc[c] \in Image(c)
      BY ConfigAssumption DEF Init, Blank, Image
    <2>3. /\ enablePriority \in BOOLEAN /\ connect \in BOOLEAN /\ turn \in Cranes
          /\ refresh \in BOOLEAN /\ first \in [Cranes -> BOOLEAN]
      BY <1>1 DEF Init
    <2>4. /\ bound \in [Cranes -> {0} \cup Consoles]
          /\ state \in [Cranes -> SUBSET (Screens \X Modes)]
          /\ oldHeight \in [Cranes -> SUBSET (Screens \X Modes)]
      BY DEF Init
    <2>5. prio \in [Cranes -> [Screens -> 0..255]]
      BY DEF Init
    <2>6. saved \in [Displays -> Picture] /\ shown \in [Displays -> Picture]
      BY <2>1 DEF Init
    <2>7. DOMAIN plc = Cranes
      BY DEF Init
    <2> QED
      BY <2>2, <2>3, <2>4, <2>5, <2>6, <2>7 DEF TypeOK
  <1>3. RowsFit
    <2>1. \A c \in Cranes, s \in Screens : Row(state[c], s) = {}
      BY DEF Init, Row
    <2> QED
      BY <2>1 DEF RowsFit, RowFits, RankedRow, PlainRow
  <1>4. \A d \in Displays : saved[d].crane = 0 /\ shown[d] = Nothing /\ shown[d].crane = 0
    BY DEF Init, Nothing
  <1>5. PicsFit(saved) /\ PicsFit(shown) /\ FirstDark
    BY <1>4 DEF PicsFit, PicFitsOn, FirstDark
  <1> QED
    BY <1>2, <1>3, <1>5 DEF IInv

LEMMA InvStep ==
  ASSUME Ranked, AllPlanned, IInv, [Next]_vars
  PROVE  IInv'
  <1>1. TypeOK /\ TypeOK'
    BY TypeStep DEF IInv
  <1>2. ASSUME NEW img \in DBImages[turn], Poll(img) PROVE IInv'
    <2>1. /\ turn \in Cranes /\ img \in Image(turn) /\ enablePriority' = enablePriority
          /\ plc' = [plc EXCEPT ![turn] = img]
      BY <1>1, <1>2, ImageAssumption DEF Poll, TypeOK
    <2>2. CASE ~(bound[turn] = 0 /\ img.console = 0)
      <3>1. HandleImage(turn, img)
        BY <1>2, <2>2 DEF Poll
      <3> QED
        BY <1>1, <2>1, <3>1, HandleStep DEF IInv
    <2>3. CASE bound[turn] = 0 /\ img.console = 0
      <3>1. UNCHANGED <<bound, state, prio, first, shown>>
        BY <1>2, <2>3 DEF Poll
      <3>2. \A d \in Displays : saved'[d] \in {saved[d], Nothing}
        BY <1>2, <2>3 DEF Poll
      <3>3. \A y \in Cranes \ {turn} : plc'[y] = plc[y]
        BY <2>1
      <3>4. saved \in [Displays -> Picture] /\ shown \in [Displays -> Picture]
        BY <1>1 DEF TypeOK
      <3>5. ASSUME NEW d \in Displays, NEW pic \in Picture, PicFitsOn(d, pic)
            PROVE  PicFitsOn(d, pic)'
        <4>1. ASSUME pic.crane # 0, bound[pic.crane] = d[1], Covered(pic.crane)
              PROVE  /\ PicFits(d[2], Row(state[pic.crane], d[2]), prio[pic.crane][d[2]], pic.mode)
                     /\ plc'[pic.crane].free = {} => pic.mode = TopMode(plc'[pic.crane], d[2])
          BY <1>1, <2>1, <2>3, <3>3, <3>5, <4>1, SkipStep
        <4> QED
          BY <2>1, <3>1, <4>1, SameFlag
      <3>6. \A d \in Displays : PicFitsOn(d, Nothing)'
        BY DEF PicFitsOn, Nothing
      <3>7. PicsFit(shown)'
        BY <3>1, <3>4, <3>5 DEF IInv, PicsFit
      <3>8. PicsFit(saved)'
        BY <3>2, <3>4, <3>5, <3>6 DEF IInv, PicsFit
      <3>9. RowsFit'
        BY <2>1, <3>1, SameFlag DEF IInv, RowsFit
      <3>10. FirstDark'
        BY <3>1 DEF IInv, FirstDark, FirstSwitch
      <3> QED
        BY <1>1, <3>7, <3>8, <3>9, <3>10 DEF IInv
    <2> QED
      BY <2>2, <2>3
  <1>3. ASSUME UNCHANGED <<enablePriority, bound, state, prio, first, saved, shown, plc>>
        PROVE  IInv'
    <2>1. RowsFit'
      BY <1>3, SameFlag DEF IInv, RowsFit
    <2>2. PicsFit(saved)' /\ PicsFit(shown)'
      BY <1>3, SameFlag DEF IInv, PicsFit, PicFitsOn
    <2>3. FirstDark'
      BY <1>3 DEF IInv, FirstDark, FirstSwitch
    <2> QED
      BY <1>1, <2>1, <2>2, <2>3 DEF IInv
  <1>4. CASE ReadFails
    BY <1>3, <1>4 DEF ReadFails
  <1>5. CASE Login
    BY <1>3, <1>5 DEF Login
  <1>6. CASE groupConfigureRefreshCall
    BY <1>3, <1>6 DEF groupConfigureRefreshCall
  <1>7. CASE UNCHANGED vars
    BY <1>3, <1>7 DEF vars
  <1> QED
    BY <1>2, <1>4, <1>5, <1>6, <1>7 DEF Next

-----------------------------------------------------------------------------
(* The tables the reader keeps - bound consoles, old values, priorities,     *)
(* first-switch flags, saved and shown plans - always hold values of their   *)
(* ranges: no poll, reconnect or refresh of ReadPLCDataProcess leaves them.  *)
THEOREM TypeCorrect == Spec => []TypeOK
  <1>1. Init => TypeOK
    BY InvInit DEF IInv
  <1> QED
    BY <1>1, TypeStep, PTL DEF Spec

(* For every configuration: what a poll changes on the TV walls is either a  *)
(* screen of the console its DB names, to a picture of the polled crane, or  *)
(* goes dark on a TV wall of the console the crane was just released from    *)
(* (SwitchScreen, FreeModeSwitch, CloseAllIpcInGroup).                       *)
THEOREM PollsKeepToTheirConsole == Spec => PollKeepsToItsConsole
  <1> DEFINE Local ==
        \A d \in Displays : shown'[d] # shown[d] =>
          \/ shown'[d].crane = turn /\ plc'[turn].console = d[1]
          \/ /\ shown'[d] = Nothing /\ plc'[turn].console = 0
             /\ \E s \in Screens : /\ <<bound[turn], s>> \in Displays
                                   /\ Group2Pc[<<bound[turn], s>>] = Group2Pc[d]
  <1>1. ASSUME TypeOK, Next PROVE Local
    <2>1. ASSUME NEW img \in DBImages[turn], Poll(img), NEW d \in Displays, shown'[d] # shown[d]
          PROVE  \/ shown'[d].crane = turn /\ plc'[turn].console = d[1]
                 \/ /\ shown'[d] = Nothing /\ plc'[turn].console = 0
                    /\ \E s \in Screens : /\ <<bound[turn], s>> \in Displays
                                          /\ Group2Pc[<<bound[turn], s>>] = Group2Pc[d]
      <3>1. turn \in Cranes /\ img \in Image(turn) /\ plc'[turn] = img
        BY <1>1, <2>1, ImageAssumption DEF Poll, TypeOK
      <3>2. HandleImage(turn, img)
        BY <2>1 DEF Poll
      <3> DEFINE left == IF d \in CloseAllIpcInGroup(turn, img.console) THEN Nothing
                         ELSE shown[d]
      <3>3. shown'[d] = Latest(Sent(turn, img, d), left)
        BY <3>2 DEF HandleImage
      <3>4. shown'[d] \in New(turn, img, d) \cup NewByHeight(turn, img, d) \/ shown'[d] = left
        <4> HIDE DEF left
        <4> QED
          BY <3>3, LatestPictures
      <3>5. CASE shown'[d] \in New(turn, img, d) \cup NewByHeight(turn, img, d)
        BY <1>1, <3>1, <3>5, NewPicturesTyped
      <3>6. CASE shown'[d] = Nothing /\ d \in CloseAllIpcInGroup(turn, img.console)
        BY <3>1, <3>6 DEF CloseAllIpcInGroup
      <3> QED
        BY <2>1, <3>4, <3>5, <3>6
    <2>2. ASSUME UNCHANGED shown PROVE Local
      BY <2>2
    <2>3. (ReadFails \/ Login \/ groupConfigureRefreshCall) => UNCHANGED shown
      BY DEF ReadFails, Login, groupConfigureRefreshCall
    <2> QED
      BY <1>1, <2>1, <2>2, <2>3 DEF Next
  <1>2. TypeOK /\ [Next]_vars => [Local]_vars
    BY <1>1
  <1> QED
    BY <1>2, TypeCorrect, PTL DEF Spec, PollKeepsToItsConsole

(* When every mode a crane can ask for has a plan, and the modes with PLC    *)
(* bits are ranked (none is mode 0, no two of a screen share a priority),    *)
(* SwitchScreen misses no change of a crane's bits: every picture of a crane *)
(* that is on its console shows the mode the bits ask for most, whatever     *)
(* moves, releases, resets, reconnections and refreshes came before.         *)
THEOREM ShownIsCurrentHolds ==
  ASSUME Ranked, AllPlanned
  PROVE  Spec => []ShownIsCurrent
  <1>1. IInv => ShownIsCurrent
    BY DEF IInv, PicsFit, PicFitsOn, ShownIsCurrent, Regular, UpToDate, Covered
  <1>2. IInv /\ [Next]_vars => IInv'
    BY InvStep
  <1> QED
    BY <1>1, <1>2, InvInit, PTL DEF Spec

(* The same of the plans CutMapIpcInfo::updateGroupInfo keeps for a TV wall  *)
(* restart.                                                                  *)
THEOREM SavedIsCurrentHolds ==
  ASSUME Ranked, AllPlanned
  PROVE  Spec => []SavedIsCurrent
  <1>1. IInv => SavedIsCurrent
    BY DEF IInv, PicsFit, PicFitsOn, SavedIsCurrent, Regular, UpToDate, Covered
  <1>2. IInv /\ [Next]_vars => IInv'
    BY InvStep
  <1> QED
    BY <1>1, <1>2, InvInit, PTL DEF Spec

-----------------------------------------------------------------------------
(* What is left of BoundCraneOnAir: a crane whose console and TV walls no    *)
(* other crane is ever driven from, and which is never in free mode.         *)

OwnWalls(c, k) ==
    \A x \in Cranes \ {c} : \A img \in DBImages[x] : \A d \in Displays, s \in Screens :
        d[1] = k /\ <<img.console, s>> \in Displays
            => Group2Pc[<<img.console, s>>] # Group2Pc[d]
NeverFree(c) == \A img \in DBImages[c] : img.free = {}
OnAir(c, k) ==
    bound[c] = k =>
        \A d \in Displays : d[1] = k =>
            /\ shown[d].crane = c
            /\ Regular(c) => shown[d].mode = TopMode(plc[c], d[2])

(* A crane that comes to a console is sent to every screen of it at once:    *)
(* its old values and priorities have been reset.                            *)
LEMMA TakeOverSends ==
  ASSUME IInv, Ranked, AllPlanned, NEW c \in Cranes, NEW img \in Image(c), img.free = {},
         NEW d \in Displays, img.console = d[1], bound[c] # d[1]
  PROVE  New(c, img, d) # {}
  <1> DEFINE s == d[2]
             T == SetModes(img, s)
  <1>1. s \in Screens /\ TypeOK
    BY DisplayScreens DEF IInv
  <1>2. OldRow(c, img, s) = {} /\ OldPriority(c, img, s) = 0
    BY <1>1, OldFits
  <1>3. T \subseteq MappedModes(s)
    BY <1>1, SetModesMapped
  <1>4. CASE T # {}
    <2>1. TopMode(img, s) \in T
      BY <1>1, <1>4, TopModeTop DEF TypeOK
    <2>2. TopPriority(img, s) # 0
      BY <1>1, <1>3, <1>4, <2>1 DEF TopPriority, Ranked
    <2>3. ModeSwitch(img, s, {}, 0)
      BY <1>4, <2>2 DEF ModeSwitch, Held
    <2>4. SwitchSends(img, s, {}, 0) = {TopMode(img, s)}
      BY <2>3 DEF SwitchSends
    <2>5. TopMode(img, s) \in Askable(c, s)
      BY <1>3, <2>1 DEF Askable
    <2> QED
      BY <1>2, <2>4, <2>5, SendsShow DEF Sends
  <1>5. CASE T = {}
    <2>1. TopPriority(img, s) = 0 /\ TopMode(img, s) = 0
      BY <1>5 DEF TopPriority, TopMode
    <2>2. BackToInitial(img, s, {}, 0)
      BY <1>5, <2>1 DEF BackToInitial, Held, Scanned
    <2>3. SwitchSends(img, s, {}, 0) = {0}
      BY <2>1, <2>2 DEF SwitchSends
    <2>4. 0 \in Askable(c, s)
      BY DEF Askable
    <2> QED
      BY <1>2, <2>3, <2>4, SendsShow DEF Sends
  <1> QED
    BY <1>4, <1>5

\* Cranes stay on consoles their DBs name.
Named == \A x \in Cranes : bound[x] = 0 \/ \E img \in DBImages[x] : bound[x] = img.console
AirInv(c, k) ==
    /\ IInv /\ Named
    /\ bound[c] = k => \A d \in Displays : d[1] = k => shown[d].crane = c

LEMMA AirPoll ==
  ASSUME NEW c \in Cranes, NEW k \in Consoles \ Cranes, OwnWalls(c, k), NeverFree(c),
         Ranked, AllPlanned, AirInv(c, k), NEW img \in DBImages[turn], HandleImage(turn, img),
         NEW d \in Displays, d[1] = k, bound'[c] = k
  PROVE  shown'[d].crane = c
  <1> DEFINE pics == New(turn, img, d) \cup NewByHeight(turn, img, d)
             left == IF d \in CloseAllIpcInGroup(turn, img.console) THEN Nothing ELSE shown[d]
  <1>1. turn \in Cranes /\ img \in Image(turn) /\ TypeOK
    BY ImageAssumption DEF AirInv, IInv, TypeOK
  <1>2. shown'[d] = Latest(Sent(turn, img, d), left)
    BY DEF HandleImage
  <1>3. \A pic \in pics : pic.crane = turn /\ img.console = d[1]
    BY <1>1, NewPicturesTyped
  <1>4. bound'[turn] = img.console /\ \A x \in Cranes \ {turn} : bound'[x] = bound[x]
    BY <1>1, HandleRows
  <1>5. \/ shown'[d] \in pics
        \/ shown'[d] = left /\ (pics = {} \/ FirstSwitch(img.console))
    <2> HIDE DEF left
    <2> QED
      BY <1>2, LatestPictures
  <1>6. CASE turn = c
    <2>1. img.console = k /\ k # 0 /\ ~FirstSwitch(k)
      BY <1>4, <1>6, ConfigAssumption DEF FirstSwitch
    <2>2. left = shown[d]
      BY <2>1 DEF CloseAllIpcInGroup
    <2>3. CASE bound[c] = k
      BY <1>3, <1>5, <1>6, <2>2, <2>3 DEF AirInv
    <2>4. CASE bound[c] # k
      <3>1. New(turn, img, d) # {}
        BY <1>1, <1>6, <2>1, <2>4, TakeOverSends DEF AirInv, NeverFree
      <3> QED
        BY <1>3, <1>5, <1>6, <2>1, <3>1
    <2> QED
      BY <2>3, <2>4
  <1>7. CASE turn # c
    <2>1. bound[c] = k /\ shown[d].crane = c
      BY <1>4, <1>7 DEF AirInv
    <2>2. d \in DOMAIN Group2Pc /\ d = <<d[1], d[2]>> /\ d[2] \in Screens
      BY ConfigAssumption DEF Displays
    <2>3. img.console # k
      BY <1>1, <1>7, <2>2 DEF OwnWalls, Displays
    <2>4. d \notin CloseAllIpcInGroup(turn, img.console)
      <3>1. SUFFICES ASSUME bound[turn] # 0, NEW s \in Screens, <<bound[turn], s>> \in Displays,
                            Group2Pc[<<bound[turn], s>>] = Group2Pc[d]
                     PROVE  FALSE
        BY DEF CloseAllIpcInGroup
      <3>2. PICK old \in DBImages[turn] : bound[turn] = old.console
        BY <1>1, <3>1 DEF AirInv, Named
      <3> QED
        BY <1>1, <1>7, <3>1, <3>2 DEF OwnWalls
    <2> QED
      BY <1>3, <1>5, <2>1, <2>3, <2>4
  <1> QED
    BY <1>6, <1>7

LEMMA AirStep ==
  ASSUME NEW c \in Cranes, NEW k \in Consoles \ Cranes, OwnWalls(c, k), NeverFree(c),
         Ranked, AllPlanned
  PROVE  AirInv(c, k) /\ [Next]_vars => AirInv(c, k)'
  <1> SUFFICES ASSUME AirInv(c, k), [Next]_vars PROVE AirInv(c, k)'
    OBVIOUS
  <1>1. IInv /\ IInv' /\ TypeOK
    BY InvStep DEF AirInv, IInv
  <1>2. ASSUME NEW img \in DBImages[turn], Poll(img), HandleImage(turn, img) PROVE AirInv(c, k)'
    <2>1. turn \in Cranes /\ img \in Image(turn)
      BY <1>1, ImageAssumption DEF TypeOK
    <2>2. Named'
      BY <1>2, <2>1, <1>1, HandleRows DEF AirInv, Named
    <2>3. bound'[c] = k => \A d \in Displays : d[1] = k => shown'[d].crane = c
      BY <1>2, AirPoll
    <2> QED
      BY <1>1, <2>2, <2>3 DEF AirInv
  <1>3. ASSUME UNCHANGED <<bound, shown>> PROVE AirInv(c, k)'
    BY <1>1, <1>3 DEF AirInv, Named
  <1>4. ASSUME NEW img \in DBImages[turn], Poll(img) PROVE AirInv(c, k)'
    BY <1>2, <1>3, <1>4 DEF Poll
  <1>5. CASE ReadFails \/ Login \/ groupConfigureRefreshCall \/ UNCHANGED vars
    BY <1>3, <1>5 DEF ReadFails, Login, groupConfigureRefreshCall, vars
  <1> QED
    BY <1>4, <1>5 DEF Next

(* A crane that has its console and its TV walls to itself is on every       *)
(* screen of the console from the poll that finds it there until the one     *)
(* that finds it gone, in the mode its bits ask for, through reconnections,  *)
(* refreshes and whatever other cranes do elsewhere: what hand_over finds    *)
(* takes a second crane on the same TV walls (ReadPLCDataProcess).           *)
THEOREM AloneOnAir ==
  ASSUME NEW c \in Cranes, NEW k \in Consoles \ Cranes, OwnWalls(c, k), NeverFree(c),
         Ranked, AllPlanned
  PROVE  Spec => []OnAir(c, k)
  <1>1. Init => AirInv(c, k)
    <2>1. Init => IInv
      BY InvInit
    <2>2. Init => \A x \in Cranes : bound[x] = 0
      BY DEF Init
    <2>3. k # 0
      BY ConfigAssumption
    <2> QED
      BY <2>1, <2>2, <2>3 DEF AirInv, Named
  <1>2. AirInv(c, k) /\ [Next]_vars => AirInv(c, k)'
    BY AirStep
  <1>3. AirInv(c, k) => OnAir(c, k)
    <2> SUFFICES ASSUME AirInv(c, k), bound[c] = k, NEW d \in Displays, d[1] = k
                 PROVE  shown[d].crane = c /\ (Regular(c) => shown[d].mode = TopMode(plc[c], d[2]))
      BY DEF OnAir
    <2>1. shown[d].crane = c /\ c # 0
      BY DEF AirInv, Cranes
    <2>2. PicFitsOn(d, shown[d])
      BY DEF AirInv, IInv, PicsFit
    <2> QED
      BY <2>1, <2>2 DEF PicFitsOn, Regular, Covered
  <1> QED
    BY <1>1, <1>2, <1>3, PTL DEF Spec
=============================================================================
