---------------------------- MODULE MCRunningCow ----------------------------
(***************************************************************************)
(* Two cows, of which the first may run, both outside clusters or the      *)
(* first in the cluster of the second.  One reading raises the alarm and a *)
(* message of samples is sent with every sample.                           *)
(***************************************************************************)
EXTENDS RunningCow

MCHeads == {[m \in Mote |-> defaultGateway],
            [m \in Mote |-> IF m = 1 THEN 2 ELSE defaultGateway]}
=============================================================================
