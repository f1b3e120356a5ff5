---------------------------- MODULE PresetPoints ----------------------------
(***************************************************************************)
(* Preset points on call (CClient::PresetPointCall): while the DB's call   *)
(* bit is set, each camera of the crane's list is sent to its preset       *)
(* point, once; when the bit has fallen, each is sent back to "resetPos".  *)
(* A failing call is tried again in the next poll, a given number of       *)
(* times; of the way back there is one pass.                               *)
(*                                                                         *)
(* A command that fails is one whose HTTP answer does not come: the camera *)
(* may have moved all the same.                                            *)
(***************************************************************************)
EXTENDS Crane

CONSTANTS
    CallPoints \* crane -> the indices of its list (PRESETPOINTCALLCAM), {} without one

Gives == 5 \* a call that has failed more often than this before is given up

ASSUME CallAssumption == CallPoints \in [Cranes -> SUBSET Ipcs]

VARIABLES
    pointStatuse, \* crane -> the points still to be called
    erroTime,     \* crane -> point -> failures counted
    resetDone,    \* mPresetPointCallResetMap: the pass back is over
    tries,        \* history: commands of a point that failed since one arrived or was given up
    asked,        \* history: crane -> polls in a row with the call bit set
    away          \* history: <<crane, point>> called with success and not back since

points == <<pointStatuse, erroTime, resetDone, tries, away>>
preset == <<points, asked>>

PresetTypeOK ==
    /\ pointStatuse \in [Cranes -> SUBSET Ipcs]
    /\ erroTime \in [Cranes -> [Ipcs -> 0..Gives + 2]]
    /\ resetDone \in [Cranes -> BOOLEAN]
    /\ tries \in [Cranes -> [Ipcs -> 0..Gives + 2]]
    /\ asked \in [Cranes -> 0..Gives + 2]
    /\ away \subseteq Cranes \X Ipcs

PresetInit ==
    /\ pointStatuse = CallPoints
    /\ erroTime = [g \in Cranes |-> [i \in Ipcs |-> 0]]
    /\ resetDone = [g \in Cranes |-> TRUE]
    /\ tries = [g \in Cranes |-> [i \in Ipcs |-> 0]]
    /\ asked = [g \in Cranes |-> 0]
    /\ away = {}

\* The points the group files name a camera for.
Callable(g) == {i \in CallPoints[g] : <<g, i>> \in Known}

\* erroTime++ > 5: the count is raised whether or not it is over the limit.
GivenUpLater(g, i) == erroTime[g][i] > Gives + 1 \* mutant: one more try
GivenUpSooner(g, i) == erroTime[g][i] >= Gives   \* mutant: one try less
GivenUp(g, i) == erroTime[g][i] > Gives

-----------------------------------------------------------------------------
(* The call bit is set: the points still to be called, of which some fail.   *)

CallsPoints(g, fails) ==
    LET called == Callable(g) \cap pointStatuse[g]
        failed == called \cap fails
    IN  /\ resetDone' = [resetDone EXCEPT ![g] = FALSE]
        /\ pointStatuse' = [pointStatuse EXCEPT ![g] =
                @ \ {i \in called : i \notin fails \/ GivenUp(g, i)}]
        /\ erroTime' = [erroTime EXCEPT ![g] = [i \in Ipcs |->
                IF i \in failed THEN @[i] + 1 ELSE @[i]]]
        /\ tries' = [tries EXCEPT ![g] = [i \in Ipcs |->
                IF i \in failed THEN @[i] + 1 ELSE IF i \in called THEN 0 ELSE @[i]]]
        /\ away' = away \cup {<<g, i>> : i \in called \ failed}

(* It is not: one pass back, after which none is made until the next call.   *)

ResetsPoints(g, fails) ==
    LET back == Callable(g)
        over == {i \in back : i \notin fails \/ GivenUp(g, i)}
    IN  IF resetDone[g] THEN UNCHANGED points
        ELSE /\ resetDone' = [resetDone EXCEPT ![g] = TRUE]
             /\ pointStatuse' = [pointStatuse EXCEPT ![g] = @ \cup over]
             /\ erroTime' = [erroTime EXCEPT ![g] = [i \in Ipcs |->
                    IF i \in over THEN 0 ELSE IF i \in back THEN @[i] + 1 ELSE @[i]]]
             /\ tries' = [tries EXCEPT ![g] = [i \in Ipcs |->
                    IF i \in over THEN 0 ELSE IF i \in back THEN @[i] + 1 ELSE @[i]]]
             /\ away' = away \ {<<g, i>> : i \in back \ fails}

\* The points a poll sends a command for.
Tried(g, img) ==
    IF img.call THEN Callable(g) \cap pointStatuse[g]
    ELSE IF resetDone[g] THEN {} ELSE Callable(g)

PassOnce(g, img, fails) == \* mutant: a call is tried in its first poll only
    IF CallPoints[g] = {} \/ (img.call /\ ~resetDone[g]) THEN UNCHANGED points
    ELSE IF img.call THEN CallsPoints(g, fails) ELSE ResetsPoints(g, fails)
Pass(g, img, fails) ==
    IF CallPoints[g] = {} THEN UNCHANGED points
    ELSE IF img.call THEN CallsPoints(g, fails) ELSE ResetsPoints(g, fails)

PresetPoll(g, img, fails) ==
    /\ Pass(g, img, fails)
    /\ asked' = [asked EXCEPT ![g] =
            IF ~img.call THEN 0 ELSE IF @ = Gives + 2 THEN @ ELSE @ + 1]

\* A refresh reads the lists anew; the flags of the passes keep their values.
PresetRefresh ==
    /\ pointStatuse' = CallPoints
    /\ erroTime' = [g \in Cranes |-> [i \in Ipcs |-> 0]]
    /\ tries' = [g \in Cranes |-> [i \in Ipcs |-> 0]]
    /\ asked' = [g \in Cranes |-> 0]
    /\ UNCHANGED <<resetDone, away>>

-----------------------------------------------------------------------------
(* A point is no longer to be called only when it was called with success,   *)
(* or seven commands to its camera have failed in a row.  Calls and ways     *)
(* back share the counter, and so a short press can use up tries of the next *)
(* call, but never the counter is left over from a camera that answered      *)
(* (PresetPointCall).                                                        *)
CalledOrGivenUp ==
    \A g \in Cranes : \A i \in Callable(g) \ pointStatuse[g] :
        <<g, i>> \in away \/ tries[g][i] = Gives + 2

(* However calls and ways back have failed before, seven polls in a row with *)
(* the call bit set are enough for every camera of the list to be called or  *)
(* given up (PresetPointCall).                                               *)
CallsSettle ==
    \A g \in Cranes : asked[g] = Gives + 2 => Callable(g) \cap pointStatuse[g] = {}
=============================================================================
