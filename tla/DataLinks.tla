----------------------------- MODULE DataLinks ------------------------------
(***************************************************************************)
(* The sources the program may be told to serve, of which it starts one:   *)
(* those of CClientManager::Init (PLC, Modbus, OPC), and the joystick,     *)
(* which comes with another library in place of PlcConnect.  OPC and       *)
(* Modbus are taken in two halves: the connection, and what is made of the *)
(* items and registers once there is one; the latter depends on the former *)
(* only in that any item may read as 0, and a request may fail.            *)
(***************************************************************************)
EXTENDS PlcLink, OpcLink, OpcItems, ModbusItems, Joystick

CONSTANTS Modes \* PLCORMODBUS and LOAD_DLL of General.ini

vars == <<mode, faults, link, opc, opcItems, modbusItems, joy>>

TypeOK ==
    /\ mode \in Modes /\ LinkTypeOK /\ OpcTypeOK
    /\ DesksTypeOK /\ ItemsTypeOK /\ ModbusTypeOK /\ JoystickTypeOK

Init ==
    /\ mode \in Modes /\ faults = 0 /\ LinkInit /\ OpcInit
    /\ DesksInit /\ ItemsInit /\ ModbusInit /\ JoystickInit

Next ==
    \/ mode \in {"plc", "modbus"} /\ LinkNext /\ UNCHANGED <<opc, opcItems, modbusItems, joy>>
    \/ mode = "opc" /\ OpcNext /\ UNCHANGED <<mode, faults, link, opcItems, modbusItems, joy>>
    \/ mode = "opc items" /\ ItemsNext /\ UNCHANGED <<mode, faults, link, opc, modbusItems, joy>>
    \/ /\ mode = "modbus items" /\ ModbusNext
       /\ UNCHANGED <<mode, faults, link, opc, driven, row, quiet, button, talks, read, strays, joy>>
    \/ mode = "joystick" /\ JoystickNext /\ UNCHANGED <<mode, faults, link, opc, opcItems, modbusItems>>

Spec == Init /\ [][Next]_vars

FairSpec ==
    /\ Spec
    /\ mode \in {"plc", "modbus"} => LinkFairness
    /\ mode = "opc" => OpcFairness
=============================================================================
