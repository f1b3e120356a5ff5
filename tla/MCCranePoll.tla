----------------------------- MODULE MCCranePoll ----------------------------
(***************************************************************************)
(* Two cranes and two consoles with a TV wall each.  Crane 1 has cameras 1 *)
(* and 3, with a gap between them; camera 1 is commanded directly, 3 by    *)
(* way of the TV walls.  A site uses one part of the DB: what a part       *)
(* remembers does not meet the other parts.                                *)
(***************************************************************************)
EXTENDS CranePoll, TLC

MCKnown    == {<<1, 1>>, <<1, 3>>, <<2, 1>>}
MCResetCams == {<<1, 1>>}
MCSpecial  == <<1, 3>> :> 0
\* Zooms for feet 1 and heights 1 and 2, other ones at height 1 in twin-lift mode.
MCZoom(z)  == <<1, 1, FALSE>> :> z @@ <<1, 2, FALSE>> :> z + 1 @@ <<1, 1, TRUE>> :> z + 2
MCZoomTable   == <<1, 1>> :> MCZoom(1)
MCFollowTable == <<1, 3>> :> (3 :> 7)
MCCallPoints  == 1 :> {1, 2, 3} @@ 2 :> {}
MCCuts        == {[screen |-> 1, index |-> 2], [screen |-> 2, index |-> 1]}
MCCutScreen   == <<1, 1>>

Asks(pressed1, pressed3) ==
    [i \in Ipcs |-> IF i = 1 THEN pressed1 ELSE IF i = 3 THEN pressed3 ELSE {}]
CutTo(i) == [k \in MCCuts |-> i]

Ptz(c, s, pressed) == [Blank EXCEPT !.console = c, !.sel = s, !.buttons = pressed]
PtzImages ==
    {Ptz(1, s, Asks(b, {})) : s \in {{1}, {1, 2, 3}}, b \in SUBSET {1, 5}}
    \cup {Ptz(1, {}, Asks(b, {})) : b \in SUBSET {1}}
    \cup {Ptz(1, s, Asks({}, b)) : s \in {{3}, {1, 2, 3}}, b \in {{}, {2}}}
    \cup {Ptz(0, {1, 3}, Asks(b, {})) : b \in SUBSET {1}}
\* The hoist on the ground side, at both heights in range, at one of them
\* with two containers, and above 127.
Places == {<<0, 1, FALSE>>, <<1, 1, FALSE>>, <<1, 2, FALSE>>, <<1, 1, TRUE>>, <<1, 200, FALSE>>}
Hoist(c, s, pressed, p) ==
    [Blank EXCEPT !.console = c, !.sel = s, !.buttons = Asks(pressed, {}),
                  !.feet = p[1], !.height = p[2], !.double = p[3]]
HoistImages ==
    {Hoist(c, {}, {}, p) : c \in 0..1, p \in Places}
    \cup {Hoist(1, {1}, b, p) : b \in SUBSET {5}, p \in Places}
CallImages == {[Blank EXCEPT !.console = c, !.call = x] : c \in 0..1, x \in BOOLEAN}
\* Crane 1 also switches the screen to a plan of one window, and names a
\* camera there is none of; crane 2 only uses console 2.
CutImages(consoles, ipcs, plans) ==
    {[Blank EXCEPT !.console = c, !.cuts = CutTo(i), !.plan = p] :
        c \in consoles, i \in ipcs, p \in plans}

MCDBImages ==
    "ptz" :> (1 :> PtzImages @@ 2 :> {Blank})
    @@ "hoist" :> (1 :> HoistImages @@ 2 :> {Blank})
    @@ "call" :> (1 :> CallImages @@ 2 :> {Blank})
    @@ "cuts" :> (1 :> CutImages({0}, {1}, {NoSwitch}) \cup CutImages({2}, 0..1, {NoSwitch})
                         \cup CutImages({1}, 1..3, {NoSwitch}) \cup CutImages({1}, {1}, {<<1, 1>>})
                  @@ 2 :> CutImages({0, 2}, {1}, {NoSwitch}))
=============================================================================
