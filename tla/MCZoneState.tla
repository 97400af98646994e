----------------------------- MODULE MCZoneState -----------------------------
(* Instances of ZoneState for TLC. *)
EXTENDS MCPdnsConfigCB, ZoneState
=============================================================================
