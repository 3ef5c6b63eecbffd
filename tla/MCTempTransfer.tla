--------------------------- MODULE MCTempTransfer ---------------------------
(* Indices of three bits: the queue fills up, and its indices and the size *)
(* of a message wrap.                                                      *)
EXTENDS TempTransfer
=============================================================================
