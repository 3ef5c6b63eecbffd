---------------------------- MODULE MoteDelivery ----------------------------
(***************************************************************************)
(* A mote's retransmission list at work on a lossy mesh: its own messages  *)
(* and those it forwards for the members of its cluster travel to the      *)
(* destination, which acknowledges every copy.  Packets and                *)
(* acknowledgements stay under way once they were sent: one that is taken  *)
(* twice was duplicated, one that is never taken was lost, and nothing     *)
(* makes anybody take them.                                                *)
(*                                                                         *)
(* fate and tx are history: they say how a message left the list and how   *)
(* often it was sent since it was last put there.                          *)
(***************************************************************************)
EXTENDS MoteAcks

CONSTANTS
    ToOf,      \* the destination of each message
    IdOf,      \* the first byte of each message: its type and id
    Forwarded  \* messages of cluster members, which may come in again

ASSUME RoutingAssumption ==
    /\ ToOf \in [Msg -> Addr]
    /\ IdOf \in [Msg -> Id]
    /\ Forwarded \subseteq Msg

\* What the list and an acknowledgement know a message by.  Two messages may
\* share it: every mote counts its ids from the same start, so that an own and a
\* forwarded message do, and a mote's own ids come back after nine messages.
KeyOf(m) == <<IdOf[m], ToOf[m]>>

VARIABLES
    air,       \* messages sent to their destinations
    acks,      \* acknowledgements sent back, <<id, from>>
    received,  \* messages that reached their destination
    fate,
    tx

vars == <<ackVars, air, acks, received, fate, tx>>

Fates == {"new", "pending", "confirmed", "given_up", "superseded", "untracked"}

DInit ==
    /\ AckInit
    /\ air = {} /\ acks = {} /\ received = {}
    /\ fate = [m \in Msg |-> "new"]
    /\ tx = [m \in Msg |-> 0]

-----------------------------------------------------------------------------
\* The messages whose entries a step takes off the list.
Leaving(mem) == {slot[b].msg : b \in ack_mem \ mem}

\* sendMessage, sendCommand, sendEmergencyTwo... or forward: mesh_send, then
\* addToAckList.  A member that missed our acknowledgement sends its message
\* again, and it is forwarded again under the same id.
Send(m) ==
    LET mem == FindRemove(IdOf[m], ToOf[m]).mem
        stored == IF mem = Block THEN "untracked" ELSE "pending"
    IN  /\ fate[m] = "new" \/ m \in Forwarded
        /\ AddToAckList(ToOf[m], IdOf[m], m)
        /\ air' = air \cup {m}
        /\ fate' = [n \in Msg |-> IF n = m THEN stored
                                  ELSE IF n \in Leaving(mem) THEN "superseded"
                                  ELSE fate[n]]
        /\ tx' = [tx EXCEPT ![m] = 1]
        /\ UNCHANGED <<acks, received>>

\* recv at the destination: every copy is acknowledged with its first byte.
Deliver(m) ==
    /\ m \in air
    /\ received' = received \cup {m}
    /\ acks' = acks \cup {KeyOf(m)}
    /\ UNCHANGED <<ackVars, air, fate, tx>>

\* recv on the mote, the branch for packets of one byte.
RecvAck(id, from) ==
    /\ <<id, from>> \in acks
    /\ ReceiveAck(id, from)
    /\ fate' = [n \in Msg |-> IF n \in Leaving(FindRemove(id, from).mem)
                              THEN "confirmed" ELSE fate[n]]
    /\ UNCHANGED <<air, acks, received, tx>>

\* error_recovery, the two places where it wakes up.
BeginRound == StartRound /\ UNCHANGED <<air, acks, received, fate, tx>>

Retry ==
    /\ RetryEntry
    /\ LET m == slot[entry].msg IN
       /\ air' = air \cup {m}
       /\ tx' = IF fate[m] = "pending" THEN [tx EXCEPT ![m] = @ + 1] ELSE tx
    /\ fate' = [n \in Msg |-> IF n \in Leaving(ack_mem')
                              THEN "given_up" ELSE fate[n]]
    /\ UNCHANGED <<acks, received>>

DNext ==
    \/ \E m \in Msg : Send(m) \/ Deliver(m)
    \/ \E id \in Id, from \in Addr : RecvAck(id, from)
    \/ BeginRound
    \/ Retry

DSpec == DInit /\ [][DNext]_vars

\* etimer_set re-arms the recovery timer on every path through the loop at
\* krava.c:759-792 and Contiki delivers every expired timer, so error_recovery
\* keeps waking up; nothing is assumed of the network.
FairDSpec == DSpec /\ WF_vars(BeginRound) /\ WF_vars(Retry)

-----------------------------------------------------------------------------
\* The list, the cursor that goes stale during the wait at krava.c:769 and the
\* pool together keep the promise of ReliableSend, also while messages of other
\* motes are forwarded again and messages share their first byte.
Reliable == INSTANCE ReliableSend WITH
    Limit <- NUM_OF_RETRIES, tries <- tx, Again <- Forwarded, Key <- KeyOf
Implements == Reliable!Spec

\* An acknowledgement (krava.c:46-50) says that a message with its first byte
\* reached the destination, however late it is.  Only for a message that shares
\* its first byte with no other is that the one it is taken for.
ConfirmedWasReceived ==
    \A m \in Msg : fate[m] = "confirmed" =>
        \E n \in received : KeyOf(n) = KeyOf(m)

\* "we can assume the number will be unique" (libmessage.c:21): no message that
\* waits is dropped to make room for another one with its number (krava.c:556).
NeverSuperseded == \A m \in Msg : fate[m] # "superseded"
=============================================================================
