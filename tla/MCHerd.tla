------------------------------- MODULE MCHerd -------------------------------
(* Three registered cows, as at the start of the list in gateway.h:52 but  *)
(* with a gap in the addresses, a window of three and two packets of a cow *)
(* a minute.                                                               *)
EXTENDS Herd, TLC

MCCows == (0 :> 1) @@ (1 :> 2) @@ (2 :> 5)
=============================================================================
