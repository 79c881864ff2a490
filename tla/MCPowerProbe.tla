---------------------------- MODULE MCPowerProbe ----------------------------
(* Two devices, one found on and one found off. *)
EXTENDS PowerProbe

MCFound == [d \in Devices |-> IF d = 1 THEN "on" ELSE "off"]
=============================================================================
