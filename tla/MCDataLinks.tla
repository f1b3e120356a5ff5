----------------------------- MODULE MCDataLinks ----------------------------
(***************************************************************************)
(* Two Modbus servers, one camera; an OPC server with the item of a crane  *)
(* and those of two consoles, one of them read directly.  Of the cranes    *)
(* and consoles that may be named, number 3 is not configured, and crane 2 *)
(* has no plan for mode 1 and no device to talk to.  Of the buttons of the *)
(* joystick two are for the same camera, as all are in General.ini, and    *)
(* one is for none.                                                        *)
(***************************************************************************)
EXTENDS DataLinks

MCItemList  == <<"mode", "ros1", "ros2">>
MCDisplayed == {<<1, 1>>, <<2, 1>>}
MCPlanned   == {<<1, 1, 0>>, <<1, 1, 1>>, <<1, 1, 2>>, <<2, 1, 0>>, <<2, 1, 2>>}
MCPriority  == [x \in {<<1, 1>>, <<1, 2>>} |-> x[2]]
MCImages    == <<SUBSET DOMAIN MCPriority, {{<<1, 2>>}}>>
MCButton    == <<"a", "a", "b">>
MCPositions == {<<0, 0, 0>>, <<0, 0, 500>>, <<-500, 0, 0>>, <<-500, 0, 500>>, <<967, 0, 0>>,
                <<50, 0, 0>>, <<-500, -500, 0>>, <<0, -500, 0>>, <<0, 700, 0>>, <<50, 700, 0>>}
MCWallOf    == [x \in MCDisplayed |-> x[1]]
=============================================================================
