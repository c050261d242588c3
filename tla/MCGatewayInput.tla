--------------------------- MODULE MCGatewayInput ---------------------------
(* Instances of GatewayInput for TLC. *)
EXTENDS GatewayInput

OneButton == {"left"}
RdpModifiers == {"control", "alt", "command"}
RdpKeys == {"control", "space"}
AltKey == {"alt"}
NoMessages == {}
=============================================================================
