--------------------------- MODULE MCMoteDelivery ---------------------------
(***************************************************************************)
(* Four messages for a mote with two blocks: two of them share first byte  *)
(* and destination, as an own message and one that is forwarded for a      *)
(* member of the cluster may, a third one shares the first byte only, and  *)
(* the fourth neither, so that the pool is exhausted.                      *)
(***************************************************************************)
EXTENDS MoteDelivery

MCMsg == {"own", "member", "local", "later"}
MCAddr == {"gateway", "localGateway"}
MCId == {4, 8}
MCTo == [m \in MCMsg |-> IF m = "local" THEN "localGateway" ELSE "gateway"]
MCIds == [m \in MCMsg |-> IF m = "later" THEN 8 ELSE 4]
=============================================================================
