---------------------------- MODULE TempTransfer ----------------------------
(***************************************************************************)
(* The temperature transfer of assignments 2 and 3: the sending mote keeps *)
(* its measurements in a circular queue with 8-bit indices and sends the   *)
(* whole queue with every new one; the receiving mote answers every packet *)
(* with one byte, and the sending mote then removes as many measurements   *)
(* as it sent last.                                                        *)
(*                                                                         *)
(* A measurement is its number; its index, the number modulo RANGE, is     *)
(* only printed.  received, overwritten, removed and answer are history.    *)
(***************************************************************************)
EXTENDS Naturals, Sequences, FiniteSets, SequencesExt

CONSTANTS
    RANGE,           \* 256: of a uint8_t, and the length of message_queue
    PACKETBUF_SIZE,  \* 128: bytes a packet has room for
    MaxTaken,        \* bound on the measurements of a behaviour
    MaxAir           \* bound on the packets under way

ASSUME RangeAssumption == RANGE \in Nat /\ RANGE > 3
ASSUME PacketAssumption == PACKETBUF_SIZE \in Nat /\ PACKETBUF_SIZE >= 3
ASSUME BoundAssumption == MaxTaken \in Nat /\ MaxAir \in Nat

FROM_MOTE_ADDRESS == 1
Garbage == 0          \* a cell never written, or memory behind the array

VARIABLES
    message_queue, queue_first, queue_last, queue_length,
    message_size,
    myAddress,   \* of the sending mote, which its button changes
    taken,       \* how many measurements were taken: packetIndex
    air,         \* packets under way
    acks,        \* acknowledgements under way, which are all alike
    received,    \* measurements that reached the receiving mote
    overwritten, \* measurements that fell out of a full queue
    removed,     \* measurements an acknowledgement removed
    answer       \* what the next acknowledgement is: "due", "none", "doubtful"

queueVars == <<message_queue, queue_first, queue_last, queue_length>>
vars == <<queueVars, message_size, myAddress, taken, air, acks, received,
          overwritten, removed, answer>>

Init ==
    /\ message_queue = [i \in 0..RANGE - 1 |-> Garbage]
    /\ queue_first = 0 /\ queue_last = 0 /\ queue_length = 0
    /\ message_size = 0 /\ myAddress = FROM_MOTE_ADDRESS /\ taken = 0
    /\ air = {} /\ acks = 0
    /\ received = {} /\ overwritten = {} /\ removed = {} /\ answer = "none"

-----------------------------------------------------------------------------
(* The queue.  The operators give queue_first and queue_length; those whose *)
(* names end in Wrong are what a plausible mistake would make of the        *)
(* definition that follows them, and no specification uses them.           *)

\* An index of eight bits counts on.
Next8(i) == (i + 1) % RANGE

\* Counts on when the queue is full.
AfterAddWrong(first, last, length) == [first |-> first, length |-> length + 1]

\* queue_add, after queue_last and queue_length were increased: a queue that
\* comes around to its start loses the oldest measurement.  (The other condition,
\* queue_length > MAX_QUEUE_SIZE, is false of every uint8_t.)
AfterAdd(first, last, length) ==
    IF first = last THEN [first |-> Next8(first), length |-> length]
    ELSE [first |-> first, length |-> length + 1]

\* Takes the length for granted.
AfterRemoveWrong(num) ==
    [first |-> (queue_first + num) % RANGE,
     length |-> IF num > queue_length THEN 0 ELSE queue_length - num]

\* queue_remove_first
AfterRemove(num) ==
    IF num > queue_length THEN [first |-> queue_last, length |-> 0]
    ELSE [first |-> (queue_first + num) % RANGE, length |-> queue_length - num]

\* The queue from the oldest to the newest.
Waiting(first, length, queue) ==
    [k \in 1..length |-> queue[(first + k) % RANGE]]

\* Starts at the cell that is free.
CopiedWrong(first, length, queue) ==
    [k \in 1..length |-> IF first + k <= RANGE THEN queue[first + k - 1] ELSE Garbage]

\* queue_get_first: the index is not cut to eight bits, so that the copy goes on
\* behind the array.
Copied(first, length, queue) ==
    [k \in 1..length |-> IF first + k < RANGE THEN queue[first + k] ELSE Garbage]

-----------------------------------------------------------------------------
SmallerOf(a, b) == IF a < b THEN a ELSE b

\* send_temperature.  Of the copy only message_size bytes are sent, a number
\* of eight bits, and of these as many as a packet has room for.
SendTemperature ==
    LET last == Next8(queue_last)
        q == AfterAdd(queue_first, last, queue_length)
        queue == [message_queue EXCEPT ![last] = taken + 1]
        size == (3 * q.length) % RANGE
        items == SmallerOf(size, PACKETBUF_SIZE) \div 3
        cut == size > PACKETBUF_SIZE \/ q.first + q.length >= RANGE
    IN  /\ myAddress = FROM_MOTE_ADDRESS
        /\ taken < MaxTaken
        /\ taken' = taken + 1
        /\ queue_last' = last
        /\ queue_first' = q.first /\ queue_length' = q.length
        /\ message_queue' = queue
        /\ message_size' = size
        /\ air' = air \cup {SubSeq(Copied(q.first, q.length, queue), 1, items)}
        /\ Cardinality(air') <= MaxAir
        /\ overwritten' = IF queue_first = last
                          THEN overwritten \cup {message_queue[Next8(queue_first)]}
                          ELSE overwritten
        /\ answer' = IF answer = "doubtful" \/ air # {} \/ acks > 0 \/ cut
                     THEN "doubtful" ELSE "due"
        /\ UNCHANGED <<myAddress, acks, received, removed>>

\* recv on the receiving mote, for one copy of a packet.
ReceiveTemperatures(p) ==
    /\ p \in air
    /\ received' = received \cup (ToSet(p) \ {Garbage})
    /\ acks' = SmallerOf(acks + 1, MaxAir)
    /\ \E rest \in {air, air \ {p}} : air' = rest
    /\ UNCHANGED <<queueVars, message_size, myAddress, taken, overwritten, removed,
                   answer>>

\* recv on the sending mote.
ReceiveAck ==
    LET num == message_size \div 3
        q == AfterRemove(num)
    IN  /\ myAddress = FROM_MOTE_ADDRESS
        /\ acks > 0
        /\ \E left \in {acks, acks - 1} : acks' = left
        /\ queue_first' = q.first /\ queue_length' = q.length
        /\ removed' = removed \cup
               ToSet(SubSeq(Waiting(queue_first, queue_length, message_queue), 1,
                            SmallerOf(num, queue_length)))
        /\ answer' = IF answer = "due" THEN "none" ELSE "doubtful"
        /\ UNCHANGED <<message_queue, queue_last, message_size, myAddress, taken,
                       air, received, overwritten>>

\* increase_address, when the button is pressed (not in assignment 3).
IncreaseAddress ==
    /\ myAddress' = (myAddress + 1) % 5
    /\ UNCHANGED <<queueVars, message_size, taken, air, acks, received,
                   overwritten, removed, answer>>

LosePacket(p) ==
    /\ p \in air
    /\ air' = air \ {p}
    /\ UNCHANGED <<queueVars, message_size, myAddress, taken, acks, received,
                   overwritten, removed, answer>>

LoseAck ==
    /\ acks > 0 /\ acks' = acks - 1
    /\ UNCHANGED <<queueVars, message_size, myAddress, taken, air, received,
                   overwritten, removed, answer>>

Next ==
    \/ SendTemperature
    \/ \E p \in air : ReceiveTemperatures(p) \/ LosePacket(p)
    \/ ReceiveAck \/ LoseAck
    \/ IncreaseAddress

Spec == Init /\ [][Next]_vars

-----------------------------------------------------------------------------
TypeOK ==
    /\ message_queue \in [0..RANGE - 1 -> 0..MaxTaken]
    /\ queue_first \in 0..RANGE - 1 /\ queue_last \in 0..RANGE - 1
    /\ queue_length \in 0..RANGE - 1
    /\ message_size \in 0..RANGE - 1
    /\ myAddress \in 0..4
    /\ taken \in 0..MaxTaken
    /\ \A p \in air : p \in Seq(0..MaxTaken)
    /\ acks \in 0..MaxAir

\* The indices and the length agree, and the queue holds the newest measurements
\* in the order in which they were taken (line 68 drops the oldest, line 76 stops
\* at the newest), however often indices wrap and whatever is acknowledged.
QueueHoldsNewest ==
    /\ (queue_first + queue_length) % RANGE = queue_last
    /\ Waiting(queue_first, queue_length, message_queue)
           = [k \in 1..queue_length |-> taken - queue_length + k]

\* A measurement is in the queue, was removed by an acknowledgement or fell out
\* of a full queue: none is dropped in any other way, and none of those that
\* left is in the queue again.
EveryMeasurementAccounted ==
    LET waiting == ToSet(Waiting(queue_first, queue_length, message_queue)) IN
    /\ 1..taken = waiting \cup removed \cup overwritten
    /\ waiting \cap (removed \cup overwritten) = {}

\* "queue_remove_first() remove number of elements we sent and were confirmed"
\* (line 60): what an acknowledgement removes has been received, as long as each
\* answers the packet that was sent last and is the only one to do so, and no
\* packet was cut: nothing else than a late or repeated acknowledgement (line
\* 146), a size too large for a packet (line 202) or a copy that ran past the
\* end of the array (line 93) loses a measurement.
OnlyDoubtfulAnswersLose == answer # "doubtful" => removed \subseteq received
=============================================================================
