--------------------------- MODULE MCGatewayStream ---------------------------
(* Instances of GatewayStream for TLC. *)
EXTENDS GatewayStream

OneFd == {3}

PeerCaller == {"peer"}

PlainHello == {"HELLO"}
=============================================================================
