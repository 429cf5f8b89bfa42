---------------------------- MODULE MCTransport ----------------------------
(***************************************************************************)
(* Transport with the URI each platform starts from, for TLC.                *)
(***************************************************************************)
EXTENDS Transport

MCUri == [h \in AllHosts |-> IF h = "spritzer" THEN "calvinip" ELSE "ssdp"]
=============================================================================
