---------------------------- MODULE ReliableSend ----------------------------
(***************************************************************************)
(* What a mote promises about a message it hands to the retransmission     *)
(* list, without the list, the timers or the network.                      *)
(*                                                                         *)
(* A message whose key no other message has, and which is handed over      *)
(* once, is repeated until it is confirmed or has been sent once and       *)
(* repeated Limit times; it ends in one way only, and a confirmation means *)
(* that it arrived.                                                        *)
(*                                                                         *)
(* Messages that share a key, its twins, are promised less: a later one    *)
(* takes the place of one that waits, what is left of one that is over may *)
(* end another before its time, and a confirmation means that one of them  *)
(* arrived.  A message that is handed over again starts anew; what is left *)
(* of its first life may repeat it or give it up, so that only its end is  *)
(* promised.                                                               *)
(***************************************************************************)
EXTENDS Naturals

CONSTANTS
    Msg,
    Limit,
    Again,    \* messages that may be handed over more than once
    Key(_)    \* what an acknowledgement names a message by

VARIABLES
    fate,     \* new, pending, confirmed, given_up, superseded or untracked
    tries,    \* how many times it has been sent
    received  \* the messages that reached their destination

Init ==
    /\ fate = [m \in Msg |-> "new"]
    /\ tries = [m \in Msg |-> 0]
    /\ received = {}

Twins(m) == {n \in Msg \ {m} : Key(n) = Key(m)}

Submit(m) ==
    /\ fate[m] = "new" \/ m \in Again
    /\ \E f \in {"pending", "untracked"} :
           fate' = [n \in Msg |->
               IF n = m THEN f
               ELSE IF n \in Twins(m) /\ fate[n] = "pending" THEN "superseded"
               ELSE fate[n]]
    /\ tries' = [tries EXCEPT ![m] = 1]
    /\ UNCHANGED received

Arrive(m) ==
    /\ tries[m] > 0
    /\ received' = received \cup {m}
    /\ UNCHANGED <<fate, tries>>

Confirm(m) ==
    /\ fate[m] = "pending"
    /\ \E n \in received : Key(n) = Key(m)
    /\ fate' = [fate EXCEPT ![m] = "confirmed"]
    /\ UNCHANGED <<tries, received>>

Repeat(m) ==
    /\ fate[m] = "pending"
    /\ tries[m] < Limit \/ m \in Again
    /\ tries' = [tries EXCEPT ![m] = @ + 1]
    /\ UNCHANGED <<fate, received>>

LastRepeat(m) ==
    /\ fate[m] = "pending"
    /\ tries[m] = Limit \/ m \in Again
    /\ tries' = [tries EXCEPT ![m] = @ + 1]
    /\ fate' = [fate EXCEPT ![m] = "given_up"]
    /\ UNCHANGED received

\* Given up in the name of a twin that is over.
CutShort(m) ==
    /\ fate[m] = "pending"
    /\ \E n \in Twins(m) : fate[n] \notin {"new", "pending"}
    /\ fate' = [fate EXCEPT ![m] = "given_up"]
    /\ UNCHANGED <<tries, received>>

Next ==
    \E m \in Msg :
        \/ Submit(m) \/ Arrive(m) \/ Confirm(m)
        \/ Repeat(m) \/ LastRepeat(m) \/ CutShort(m)

Spec == Init /\ [][Next]_<<fate, tries, received>>
=============================================================================
