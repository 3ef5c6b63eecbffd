------------------------------ MODULE MoteAcks ------------------------------
(***************************************************************************)
(* The retransmission list of a mote (krava.c) in an arbitrary network:    *)
(* any message may be sent, any acknowledgement may arrive at any moment,  *)
(* between any two steps of the error_recovery process.                    *)
(***************************************************************************)
EXTENDS AckList

\* Pushes without looking for an older entry.
AddToAckListWrong(to, id, msg) ==
    Push(ack_list, ack_mem, to, id, msg) /\ UNCHANGED entry

\* addToAckList: an entry with the same id and destination is taken out
\* before the new one is pushed; with the pool exhausted nothing is stored
\* (the callers ignore the returned 1).
AddToAckList(to, id, msg) ==
    LET after == FindRemove(id, to) IN
    /\ Push(after.list, after.mem, to, id, msg)
    /\ UNCHANGED entry

Init == AckInit

Next ==
    \/ \E to \in Addr, id \in Id, msg \in Msg : AddToAckList(to, id, msg)
    \/ \E id \in Id, mote \in Addr : ReceiveAck(id, mote)
    \/ StartRound
    \/ RetryEntry

Spec == Init /\ [][Next]_ackVars

-----------------------------------------------------------------------------
\* No entry stays on the list once its counter has reached the limit
\* (krava.c:779-782).
RetryLeft == \A b \in Pending : slot[b].retries < NUM_OF_RETRIES

\* The same for the block under the cursor, even when an acknowledgement freed
\* it during the wait at krava.c:769: the counter never passes the limit.
CursorRetryLeft == entry # Null => slot[entry].retries < NUM_OF_RETRIES

\* While the entry under the cursor is on the list, the removal by key at
\* krava.c:781 takes out that entry and no other, which the gateway's list does
\* not keep to.  A cursor whose entry an acknowledgement took off the list during
\* the wait at krava.c:769 may remove a fresh entry with the same key instead.
GivesUpCounted ==
    [][RetryEntry /\ entry \in Pending => Pending \ Pending' \subseteq {entry}]_ackVars
=============================================================================
