--------------------------- MODULE MCGatewayAcks ---------------------------
(* Two ids that wrap (2, 1, 2, 1, 2) for five commands to two motes.       *)
EXTENDS GatewayAcks

MCAddr == {1, 2}
MCId == 0..2
=============================================================================
