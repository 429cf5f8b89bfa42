----------------------------- MODULE MCDevices -----------------------------
(***************************************************************************)
(* Devices with two actors on the platforms with two types and one actor     *)
(* elsewhere.                                                                *)
(***************************************************************************)
EXTENDS Devices

CONSTANTS a1, a2

MCActorsOn == [h \in AllHosts |-> IF h \in {"x86_coap", "android"} THEN {a1, a2} ELSE {a1}]
=============================================================================
