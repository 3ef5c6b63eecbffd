------------------------ MODULE TempTransfer_proofs ------------------------
(***************************************************************************)
(* Proofs about TempTransfer for every range of the indices, packet size   *)
(* and number of measurements and packets: the circular queue holds the    *)
(* newest measurements, every measurement is accounted for, and only an    *)
(* acknowledgement that is not the one due removes what has not arrived.   *)
(***************************************************************************)
EXTENDS TempTransfer, SequenceTheorems, TLAPS

-----------------------------------------------------------------------------
(* Eight-bit arithmetic.                                                   *)

\* A sum of two indices wraps at most once.
LEMMA WrapsOnce ==
    ASSUME NEW a \in 0..RANGE - 1, NEW b \in 0..RANGE - 1
    PROVE  /\ (a + b) % RANGE = IF a + b < RANGE THEN a + b ELSE a + b - RANGE
           /\ (a + b) % RANGE \in 0..RANGE - 1
BY RangeAssumption

\* What is cut to eight bits is in range and no larger than it was.
LEMMA CutToRange ==
    ASSUME NEW a \in Nat
    PROVE  a % RANGE \in 0..RANGE - 1 /\ a % RANGE <= a
BY RangeAssumption

\* Cutting a sum once or twice makes no difference.
LEMMA CutTwice ==
    ASSUME NEW a \in 0..RANGE - 1, NEW b \in 0..RANGE - 1, NEW c \in 0..RANGE - 1,
           b + c < RANGE
    PROVE  (((a + b) % RANGE) + c) % RANGE = (a + (b + c)) % RANGE
<1>. DEFINE d == (a + b) % RANGE
<1>1. d = IF a + b < RANGE THEN a + b ELSE a + b - RANGE
  BY WrapsOnce, RangeAssumption
<1>2. d \in 0..RANGE - 1
  BY CutToRange, RangeAssumption
<1>. HIDE DEF d
<1>3. (d + c) % RANGE = IF d + c < RANGE THEN d + c ELSE d + c - RANGE
  BY <1>2, WrapsOnce, RangeAssumption
<1>4. (a + (b + c)) % RANGE
         = IF a + (b + c) < RANGE THEN a + (b + c) ELSE a + (b + c) - RANGE
  BY WrapsOnce, RangeAssumption
<1>5. (d + c) % RANGE = (a + (b + c)) % RANGE
  BY <1>1, <1>2, <1>3, <1>4, RangeAssumption
<1>. QED
  BY <1>5 DEF d

\* An index wraps after the last place of the ring.
LEMMA NextIndex ==
    ASSUME NEW i \in 0..RANGE - 1
    PROVE  Next8(i) = IF i + 1 < RANGE THEN i + 1 ELSE 0
BY RangeAssumption DEF Next8

-----------------------------------------------------------------------------
(* The inductive invariant.  That all which ever left the queue is older   *)
(* than what waits is what makes the measurements add up: an acknowledge-  *)
(* ment and an overflow both take from the old end.                        *)

LengthIsTaken == queue_length <= taken

GoneIsOldest == removed \cup overwritten = 1..(taken - queue_length)

TInv == TypeOK /\ QueueHoldsNewest /\ LengthIsTaken /\ GoneIsOldest

\* What the queue holds, said cell by cell.
CellsHold(queue, first, length, newest) ==
    \A k \in 1..length : queue[(first + k) % RANGE] = newest - length + k

LEMMA HoldsCellByCell ==
    ASSUME NEW queue, NEW first, NEW length, NEW newest
    PROVE  CellsHold(queue, first, length, newest)
           <=> Waiting(first, length, queue)
                   = [k \in 1..length |-> newest - length + k]
<1>1. ASSUME CellsHold(queue, first, length, newest)
      PROVE  Waiting(first, length, queue)
                 = [k \in 1..length |-> newest - length + k]
  BY <1>1 DEF CellsHold, Waiting
<1>2. ASSUME Waiting(first, length, queue)
                 = [k \in 1..length |-> newest - length + k],
             NEW k \in 1..length
      PROVE  queue[(first + k) % RANGE] = newest - length + k
  <2>1. Waiting(first, length, queue)[k] = queue[(first + k) % RANGE]
    BY DEF Waiting
  <2>2. Waiting(first, length, queue)[k] = newest - length + k
    BY <1>2
  <2>. QED
    BY <2>1, <2>2
<1>. QED
  BY <1>1, <1>2 DEF CellsHold

\* What the first ones of s are, if they are many.
Starts(S, s, many) ==
    {r \in Seq(S) : Len(r) = many /\ \A k \in 1..many : r[k] = s[k]}

\* The start of a sequence.
LEMMA StartOfSeq ==
    ASSUME NEW S, NEW s \in Seq(S), NEW many \in 0..Len(s)
    PROVE  SubSeq(s, 1, many) \in Starts(S, s, many)
<1>1. Len(s) \in Nat /\ many \in Nat /\ many <= Len(s)
  BY LenProperties
<1>2. /\ SubSeq(s, 1, many) \in Seq(S)
      /\ Len(SubSeq(s, 1, many)) = many
      /\ \A k \in 1..many : SubSeq(s, 1, many)[k] = s[k]
  BY <1>1, SubSeqProperties, Z3
<1>. QED
  BY <1>2 DEF Starts

\* A sequence that counts on by one holds an interval.
LEMMA IntervalSet ==
    ASSUME NEW b \in Nat, NEW s \in Seq(Nat),
           \A k \in 1..Len(s) : s[k] = b + k
    PROVE  ToSet(s) = (b + 1)..(b + Len(s))
<1>1. Len(s) \in Nat /\ DOMAIN s = 1..Len(s)
  BY LenProperties
<1>2. ASSUME NEW x \in (b + 1)..(b + Len(s))
      PROVE  x \in ToSet(s)
  <2>1. x - b \in 1..Len(s)
    BY <1>1
  <2>2. s[x - b] = x
    BY <2>1
  <2>. QED
    BY <1>1, <2>1, <2>2 DEF ToSet
<1>3. ToSet(s) \subseteq (b + 1)..(b + Len(s))
  BY <1>1 DEF ToSet
<1>. QED
  BY <1>2, <1>3

-----------------------------------------------------------------------------
(* Each action keeps the invariant.                                        *)

\* The invariant with the modulo resolved.
LEMMA Unfolded ==
    ASSUME TInv
    PROVE  /\ queue_first \in 0..RANGE - 1
           /\ queue_last \in 0..RANGE - 1
           /\ queue_length \in 0..RANGE - 1
           /\ taken \in Nat /\ taken <= MaxTaken /\ queue_length <= taken
           /\ message_queue \in [0..RANGE - 1 -> 0..MaxTaken]
           /\ queue_last = IF queue_first + queue_length < RANGE
                           THEN queue_first + queue_length
                           ELSE queue_first + queue_length - RANGE
           /\ CellsHold(message_queue, queue_first, queue_length, taken)
<1>1. /\ queue_first \in 0..RANGE - 1
      /\ queue_last \in 0..RANGE - 1
      /\ queue_length \in 0..RANGE - 1
      /\ taken \in Nat /\ taken <= MaxTaken /\ queue_length <= taken
      /\ message_queue \in [0..RANGE - 1 -> 0..MaxTaken]
  BY RangeAssumption, BoundAssumption DEF TInv, TypeOK, LengthIsTaken
<1>2. (queue_first + queue_length) % RANGE
          = IF queue_first + queue_length < RANGE
            THEN queue_first + queue_length
            ELSE queue_first + queue_length - RANGE
  BY <1>1, WrapsOnce, RangeAssumption
<1>. QED
  BY <1>1, <1>2, HoldsCellByCell DEF TInv, QueueHoldsNewest

\* What waits are the measurements since the last one that left the queue, and
\* the start of the queue holds the oldest of them.
LEMMA WaitingSet ==
    ASSUME TInv, NEW many \in 0..queue_length
    PROVE  LET w == Waiting(queue_first, queue_length, message_queue) IN
           /\ ToSet(w) = (taken - queue_length + 1)..taken
           /\ ToSet(SubSeq(w, 1, many))
                  = (taken - queue_length + 1)..(taken - queue_length + many)
<1>. DEFINE w == Waiting(queue_first, queue_length, message_queue)
            b == taken - queue_length
            s == SubSeq(w, 1, many)
<1>1. /\ queue_length \in Nat /\ taken \in Nat /\ queue_length <= taken
      /\ w = [k \in 1..queue_length |-> taken - queue_length + k]
  BY Unfolded, RangeAssumption DEF TInv, QueueHoldsNewest
<1>2. b \in Nat /\ b + queue_length = taken
  BY <1>1
<1>3. w \in [1..queue_length -> Nat] /\ \A k \in 1..queue_length : w[k] = b + k
  <2>1. w = [k \in 1..queue_length |-> b + k]
    BY <1>1
  <2>. HIDE DEF w, b
  <2>. QED
    BY <1>2, <2>1
<1>. HIDE DEF w, b
<1>4. w \in Seq(Nat) /\ Len(w) = queue_length
  <2>1. w \in Seq(Nat)
    BY <1>1, <1>3, SeqDef
  <2>. QED
    BY <1>1, <1>3, <2>1, LenProperties
<1>5. ToSet(w) = (b + 1)..taken
  BY <1>2, <1>3, <1>4, IntervalSet
<1>6. s \in Seq(Nat) /\ Len(s) = many /\ \A k \in 1..many : s[k] = w[k]
  <2>1. many \in 0..Len(w)
    BY <1>4
  <2>2. s \in Starts(Nat, w, many)
    BY <1>4, <2>1, StartOfSeq, Zenon
  <2>. HIDE DEF s
  <2>. QED
    BY <2>2 DEF Starts
<1>. HIDE DEF s
<1>7. \A k \in 1..many : s[k] = b + k
  <2>1. 1..many \subseteq 1..queue_length
    BY <1>1
  <2>. QED
    BY <1>3, <1>6, <2>1, Zenon
<1>8. ToSet(s) = (b + 1)..(b + many)
  BY <1>2, <1>6, <1>7, IntervalSet
<1>. QED
  BY <1>5, <1>8 DEF w, b, s

LEMMA InitTInv == Init => TInv
<1>. SUFFICES ASSUME Init PROVE TInv
  OBVIOUS
<1>1. TypeOK
  BY RangeAssumption, BoundAssumption DEF Init, TypeOK, Garbage, FROM_MOTE_ADDRESS
<1>2. QueueHoldsNewest
  <2>1. CellsHold(message_queue, queue_first, queue_length, taken)
    BY DEF Init, CellsHold
  <2>2. (queue_first + queue_length) % RANGE = queue_last
    BY WrapsOnce, RangeAssumption DEF Init
  <2>. QED
    BY <2>1, <2>2, HoldsCellByCell DEF QueueHoldsNewest
<1>3. LengthIsTaken /\ GoneIsOldest
  BY DEF Init, LengthIsTaken, GoneIsOldest
<1>. QED
  BY <1>1, <1>2, <1>3 DEF TInv

\* A packet holds measurements or garbage, and only as many as were copied.
LEMMA PacketIsSeq ==
    ASSUME NEW first \in 0..RANGE - 1, NEW length \in 0..RANGE - 1,
           NEW queue \in [0..RANGE - 1 -> 0..MaxTaken]
    PROVE  SubSeq(Copied(first, length, queue), 1,
                  SmallerOf((3 * length) % RANGE, PACKETBUF_SIZE) \div 3)
               \in Seq(0..MaxTaken)
<1>. DEFINE S == 0..MaxTaken
            c == Copied(first, length, queue)
            size == (3 * length) % RANGE
            items == SmallerOf(size, PACKETBUF_SIZE) \div 3
<1>1. c \in Seq(S) /\ Len(c) = length
  <2>1. \A k \in 1..length :
            (IF first + k < RANGE THEN queue[first + k] ELSE Garbage) \in S
    BY RangeAssumption, BoundAssumption DEF Garbage
  <2>2. length \in Nat
    BY RangeAssumption
  <2>. HIDE DEF S
  <2>. QED
    BY <2>1, <2>2 DEF Copied
<1>2. items \in 0..length
  <2>0. length \in Nat /\ 3 * length \in Nat
    BY RangeAssumption
  <2>1. size \in 0..RANGE - 1 /\ size <= 3 * length
    BY <2>0, CutToRange, Zenon
  <2>. HIDE DEF size
  <2>2. SmallerOf(size, PACKETBUF_SIZE) \in Nat
        /\ SmallerOf(size, PACKETBUF_SIZE) <= 3 * length
    BY <2>0, <2>1, PacketAssumption, RangeAssumption DEF SmallerOf
  <2>. QED
    BY <2>0, <2>2
<1>. HIDE DEF c, items, S
<1>3. SubSeq(c, 1, items) \in Seq(S)
  BY <1>1, <1>2, StartOfSeq
<1>. QED
  BY <1>3 DEF c, items, S

LEMMA SendPreserves ==
    ASSUME TInv, SendTemperature
    PROVE  TInv'
<1>. DEFINE last == Next8(queue_last)
            q == AfterAdd(queue_first, last, queue_length)
            queue == [message_queue EXCEPT ![last] = taken + 1]
            full == queue_length = RANGE - 1
<1>1. /\ queue_first \in 0..RANGE - 1
      /\ queue_last \in 0..RANGE - 1
      /\ queue_length \in 0..RANGE - 1
      /\ taken \in Nat /\ queue_length <= taken
      /\ message_queue \in [0..RANGE - 1 -> 0..MaxTaken]
      /\ queue_last = IF queue_first + queue_length < RANGE
                      THEN queue_first + queue_length
                      ELSE queue_first + queue_length - RANGE
      /\ CellsHold(message_queue, queue_first, queue_length, taken)
  BY Unfolded
<1>2. /\ taken < MaxTaken /\ taken' = taken + 1
      /\ queue_last' = last
      /\ queue_first' = q.first /\ queue_length' = q.length
      /\ message_queue' = queue
      /\ message_size' = (3 * q.length) % RANGE
      /\ air' = air \cup {SubSeq(Copied(q.first, q.length, queue), 1,
                    SmallerOf((3 * q.length) % RANGE, PACKETBUF_SIZE) \div 3)}
      /\ overwritten' = IF queue_first = last
                        THEN overwritten \cup {message_queue[Next8(queue_first)]}
                        ELSE overwritten
      /\ UNCHANGED <<myAddress, acks, received, removed>>
  BY DEF SendTemperature
<1>3. /\ last = IF queue_last + 1 < RANGE THEN queue_last + 1 ELSE 0
      /\ Next8(queue_first) = IF queue_first + 1 < RANGE THEN queue_first + 1 ELSE 0
  BY <1>1, NextIndex
\* The queue comes around to its start when it is full and only then.
<1>4. queue_first = last <=> full
  BY <1>1, <1>3, RangeAssumption
<1>5. /\ q.first = IF full THEN Next8(queue_first) ELSE queue_first
      /\ q.length = IF full THEN queue_length ELSE queue_length + 1
  BY <1>4 DEF AfterAdd
<1>. HIDE DEF q, last
<1>6. /\ q.first \in 0..RANGE - 1
      /\ q.length \in 1..RANGE - 1
      /\ last \in 0..RANGE - 1
  BY <1>1, <1>3, <1>5, RangeAssumption
<1>7. /\ queue \in [0..RANGE - 1 -> 0..MaxTaken]
      /\ queue[last] = taken + 1
      /\ \A i \in 0..RANGE - 1 : i # last => queue[i] = message_queue[i]
  BY <1>1, <1>2, <1>6, BoundAssumption
<1>. HIDE DEF queue
<1>8. (q.first + q.length) % RANGE = last
  <2>1. (q.first + q.length) % RANGE = IF q.first + q.length < RANGE
                                       THEN q.first + q.length
                                       ELSE q.first + q.length - RANGE
    <3>1. q.length \in 0..RANGE - 1
      BY <1>6, RangeAssumption
    <3>. QED
      BY <1>6, <3>1, WrapsOnce, Zenon
  <2>. QED
    BY <1>1, <1>3, <1>5, <2>1, RangeAssumption
\* All older measurements stay where they are; in a full queue each of them is
\* one place nearer to the start.
<1>9. ASSUME NEW k \in 1..q.length, k # q.length
      PROVE  queue[(q.first + k) % RANGE] = (taken + 1) - q.length + k
  <2>. DEFINE j == IF full THEN k + 1 ELSE k
  <2>1. j \in 1..queue_length /\ taken - queue_length + j = (taken + 1) - q.length + k
    BY <1>1, <1>5, <1>6, <1>9, RangeAssumption
  <2>2. message_queue[(queue_first + j) % RANGE] = taken - queue_length + j
    BY <1>1, <2>1 DEF CellsHold
  <2>3. (queue_first + j) % RANGE = IF queue_first + j < RANGE
                                    THEN queue_first + j
                                    ELSE queue_first + j - RANGE
    <3>1. j \in 0..RANGE - 1
      BY <1>1, <2>1, RangeAssumption
    <3>. HIDE DEF j
    <3>. QED
      BY <1>1, <3>1, WrapsOnce, Zenon
  <2>4. (q.first + k) % RANGE = IF q.first + k < RANGE
                                THEN q.first + k
                                ELSE q.first + k - RANGE
    <3>1. k \in 0..RANGE - 1
      BY <1>6, RangeAssumption
    <3>. QED
      BY <1>6, <3>1, WrapsOnce, Zenon
  <2>5. (q.first + k) % RANGE = (queue_first + j) % RANGE
    BY <1>1, <1>3, <1>5, <1>6, <2>3, <2>4, RangeAssumption
  <2>6. /\ (queue_first + j) % RANGE # last
        /\ (queue_first + j) % RANGE \in 0..RANGE - 1
    <3>. DEFINE p == (queue_first + j) % RANGE
    <3>1. j \in 1..queue_length
      BY <2>1
    <3>2. p = IF queue_first + j < RANGE THEN queue_first + j
              ELSE queue_first + j - RANGE
      BY <2>3
    <3>. HIDE DEF p, j
    <3>3. p # last
      BY <1>1, <1>3, <3>1, <3>2, RangeAssumption
    <3>4. p \in 0..RANGE - 1
      BY <1>1, <3>1, <3>2, RangeAssumption
    <3>. QED
      BY <3>3, <3>4 DEF p
  <2>7. queue[(queue_first + j) % RANGE] = message_queue[(queue_first + j) % RANGE]
    BY <1>7, <2>6
  <2>. QED
    BY <2>1, <2>2, <2>5, <2>7
<1>10. CellsHold(queue, q.first, q.length, taken + 1)
  <2>1. ASSUME NEW k \in 1..q.length
        PROVE  queue[(q.first + k) % RANGE] = (taken + 1) - q.length + k
    <3>1. CASE k = q.length
      <4>1. (taken + 1) - q.length + k = taken + 1
        BY <1>1, <1>6, <3>1
      <4>. QED
        BY <1>7, <1>8, <3>1, <4>1
    <3>2. CASE k # q.length
      BY <1>9, <3>2
    <3>. QED
      BY <3>1, <3>2
  <2>. QED
    BY <2>1 DEF CellsHold
<1>11. QueueHoldsNewest'
  BY <1>2, <1>8, <1>10, HoldsCellByCell DEF QueueHoldsNewest
<1>12. LengthIsTaken'
  BY <1>1, <1>2, <1>5 DEF LengthIsTaken
<1>13. GoneIsOldest'
  <2>1. removed \cup overwritten = 1..(taken - queue_length)
    BY DEF TInv, GoneIsOldest
  <2>2. CASE full
    <3>1. message_queue[Next8(queue_first)] = taken - queue_length + 1
      <4>1. 1 \in 1..queue_length
        BY <2>2, RangeAssumption
      <4>. QED
        BY <1>1, <4>1 DEF CellsHold, Next8
    <3>2. overwritten' = overwritten \cup {taken - queue_length + 1}
      BY <1>2, <1>4, <2>2, <3>1
    <3>3. removed' \cup overwritten'
              = 1..(taken - queue_length) \cup {taken - queue_length + 1}
      BY <1>2, <2>1, <3>2
    <3>4. taken' - queue_length' = taken - queue_length + 1
      BY <1>1, <1>2, <1>5, <2>2
    <3>. QED
      BY <1>1, <3>3, <3>4 DEF GoneIsOldest
  <2>3. CASE ~full
    <3>1. overwritten' = overwritten /\ removed' = removed
      BY <1>2, <1>4, <2>3
    <3>2. taken' - queue_length' = taken - queue_length
      BY <1>1, <1>2, <1>5, <2>3
    <3>. QED
      BY <2>1, <3>1, <3>2 DEF GoneIsOldest
  <2>. QED
    BY <2>2, <2>3
<1>14. TypeOK'
  <2>1. (3 * q.length) % RANGE \in 0..RANGE - 1
    <3>1. 3 * q.length \in Nat
      BY <1>6, RangeAssumption
    <3>. QED
      BY <3>1, CutToRange, Zenon
  <2>2. \A p \in air' : p \in Seq(0..MaxTaken)
    <3>1. q.length \in 0..RANGE - 1
      BY <1>6, RangeAssumption
    <3>2. SubSeq(Copied(q.first, q.length, queue), 1,
                 SmallerOf((3 * q.length) % RANGE, PACKETBUF_SIZE) \div 3)
              \in Seq(0..MaxTaken)
      BY <1>6, <1>7, <3>1, PacketIsSeq, Zenon
    <3>3. \A p \in air : p \in Seq(0..MaxTaken)
      BY DEF TInv, TypeOK
    <3>. QED
      BY <1>2, <3>2, <3>3, Zenon
  <2>3. queue_length' \in 0..RANGE - 1 /\ taken' \in 0..MaxTaken
    BY <1>1, <1>2, <1>6, BoundAssumption, RangeAssumption
  <2>. QED
    BY <1>2, <1>6, <1>7, <2>1, <2>2, <2>3 DEF TInv, TypeOK
<1>. QED
  BY <1>11, <1>12, <1>13, <1>14 DEF TInv

\* An acknowledgement takes from the old end, and never more than there is.
LEMMA AckPreserves ==
    ASSUME TInv, ReceiveAck
    PROVE  TInv'
<1>. DEFINE num == message_size \div 3
            q == AfterRemove(num)
            gone == SmallerOf(num, queue_length)
            w == Waiting(queue_first, queue_length, message_queue)
<1>1. /\ queue_first \in 0..RANGE - 1
      /\ queue_last \in 0..RANGE - 1
      /\ queue_length \in 0..RANGE - 1
      /\ taken \in Nat /\ queue_length <= taken
      /\ CellsHold(message_queue, queue_first, queue_length, taken)
  BY Unfolded
<1>2. /\ acks > 0 /\ acks' \in {acks, acks - 1}
      /\ queue_first' = q.first /\ queue_length' = q.length
      /\ removed' = removed \cup ToSet(SubSeq(w, 1, gone))
      /\ UNCHANGED <<message_queue, queue_last, message_size, myAddress, taken,
                     air, received, overwritten>>
  BY DEF ReceiveAck
<1>3. num \in Nat
  <2>1. message_size \in Nat
    BY RangeAssumption DEF TInv, TypeOK
  <2>. QED
    BY <2>1
<1>4. (queue_first + queue_length) % RANGE = queue_last
  BY DEF TInv, QueueHoldsNewest
<1>5. /\ gone \in 0..queue_length
      /\ q.first = (queue_first + gone) % RANGE
      /\ q.length = queue_length - gone
  <2>. HIDE DEF num
  <2>1. CASE num > queue_length
    <3>1. gone = queue_length
      BY <1>1, <1>3, <2>1, RangeAssumption DEF SmallerOf
    <3>2. q.first = queue_last /\ q.length = 0
      BY <2>1 DEF AfterRemove
    <3>. QED
      BY <1>1, <1>4, <3>1, <3>2, RangeAssumption
  <2>2. CASE ~(num > queue_length)
    <3>1. gone = num /\ gone \in 0..queue_length
      BY <1>1, <1>3, <2>2, RangeAssumption DEF SmallerOf
    <3>2. q.first = (queue_first + num) % RANGE /\ q.length = queue_length - num
      BY <2>2 DEF AfterRemove
    <3>. QED
      BY <3>1, <3>2
  <2>. QED
    BY <2>1, <2>2
<1>. HIDE DEF num, q, gone
<1>6. /\ queue_length - gone \in 0..RANGE - 1
      /\ gone \in 0..RANGE - 1
  BY <1>1, <1>5, RangeAssumption
<1>7. q.first \in 0..RANGE - 1
  BY <1>1, <1>5, <1>6, WrapsOnce, Zenon
\* Taking from the old end moves the start; everything else stays in its cell.
<1>8. ASSUME NEW k \in 0..(queue_length - gone)
      PROVE  (q.first + k) % RANGE = (queue_first + (gone + k)) % RANGE
  <2>1. k \in 0..RANGE - 1 /\ gone + k < RANGE
    BY <1>1, <1>5, RangeAssumption
  <2>2. (((queue_first + gone) % RANGE) + k) % RANGE
            = (queue_first + (gone + k)) % RANGE
    <3>1. queue_first \in 0..RANGE - 1
      BY <1>1, Zenon
    <3>2. gone \in 0..RANGE - 1
      BY <1>6, Zenon
    <3>3. k \in 0..RANGE - 1
      BY <2>1, Zenon
    <3>4. gone + k < RANGE
      BY <2>1, Zenon
    <3>. QED
      BY <3>1, <3>2, <3>3, <3>4, CutTwice, Zenon
  <2>. QED
    BY <1>5, <2>2, Zenon
<1>9. CellsHold(message_queue, q.first, q.length, taken)
  <2>1. ASSUME NEW k \in 1..q.length
        PROVE  message_queue[(q.first + k) % RANGE] = taken - q.length + k
    <3>1. /\ k \in 0..(queue_length - gone)
          /\ gone + k \in 1..queue_length
          /\ taken - queue_length + (gone + k) = taken - q.length + k
      BY <1>1, <1>5, RangeAssumption
    <3>2. message_queue[(queue_first + (gone + k)) % RANGE]
              = taken - queue_length + (gone + k)
      BY <1>1, <3>1, Zenon DEF CellsHold
    <3>. QED
      BY <1>8, <3>1, <3>2
  <2>. QED
    BY <2>1 DEF CellsHold
<1>10. QueueHoldsNewest'
  <2>1. (q.first + q.length) % RANGE = queue_last
    <3>1. /\ queue_length - gone \in 0..(queue_length - gone)
          /\ gone + (queue_length - gone) = queue_length
      BY <1>1, <1>5, RangeAssumption
    <3>. QED
      BY <1>4, <1>5, <1>8, <3>1, Zenon
  <2>. QED
    BY <1>2, <1>9, <2>1, HoldsCellByCell DEF QueueHoldsNewest
<1>11. LengthIsTaken'
  BY <1>1, <1>2, <1>5, RangeAssumption DEF LengthIsTaken
<1>12. GoneIsOldest'
  <2>1. ToSet(SubSeq(w, 1, gone))
            = (taken - queue_length + 1)..(taken - queue_length + gone)
    BY <1>5, WaitingSet
  <2>2. removed \cup overwritten = 1..(taken - queue_length)
    BY DEF TInv, GoneIsOldest
  <2>3. removed' \cup overwritten' = 1..(taken - queue_length)
            \cup (taken - queue_length + 1)..(taken - queue_length + gone)
    BY <1>2, <2>1, <2>2
  <2>4. taken' - queue_length' = taken - queue_length + gone
    BY <1>1, <1>2, <1>5, RangeAssumption
  <2>5. taken - queue_length \in Nat /\ gone \in Nat
    BY <1>1, <1>5, RangeAssumption
  <2>. QED
    BY <2>3, <2>4, <2>5 DEF GoneIsOldest
<1>13. TypeOK'
  BY <1>2, <1>5, <1>6, <1>7, BoundAssumption DEF TInv, TypeOK
<1>. QED
  BY <1>10, <1>11, <1>12, <1>13 DEF TInv

\* What the network and the button do leaves the queue alone.
LEMMA RestPreserves ==
    ASSUME TInv,
           \/ \E p \in air : ReceiveTemperatures(p) \/ LosePacket(p)
           \/ LoseAck \/ IncreaseAddress
           \/ UNCHANGED vars
    PROVE  TInv'
<1>1. /\ UNCHANGED <<queueVars, message_size, taken, removed, overwritten>>
      /\ air' \subseteq air
  BY DEF ReceiveTemperatures, LosePacket, LoseAck, IncreaseAddress, vars
<1>2. acks \in Nat /\ MaxAir \in Nat /\ acks <= MaxAir
  BY BoundAssumption DEF TInv, TypeOK
<1>3. acks' \in 0..MaxAir
  BY <1>2 DEF ReceiveTemperatures, LosePacket, LoseAck, IncreaseAddress, vars,
              SmallerOf
<1>4. myAddress' \in 0..4
  BY DEF ReceiveTemperatures, LosePacket, LoseAck, IncreaseAddress, vars, TInv,
         TypeOK
<1>5. TypeOK'
  BY <1>1, <1>3, <1>4 DEF queueVars, TInv, TypeOK
<1>6. QueueHoldsNewest' /\ LengthIsTaken' /\ GoneIsOldest'
  BY <1>1 DEF queueVars, TInv, QueueHoldsNewest, LengthIsTaken, GoneIsOldest
<1>. QED
  BY <1>5, <1>6 DEF TInv

LEMMA StepPreserves == TInv /\ [Next]_vars => TInv'
BY SendPreserves, AckPreserves, RestPreserves DEF Next

-----------------------------------------------------------------------------
\* The inductive invariant holds in every reachable state, whatever the range
\* of the indices and whatever is lost, repeated or acknowledged late.
THEOREM QueueInvariance == Spec => []TInv
BY InitTInv, StepPreserves, PTL DEF Spec

\* Indices, lengths and sizes stay in eight bits, and a packet holds only
\* measurements and garbage.
THEOREM QueueTypeCorrect == Spec => []TypeOK
<1>1. TInv => TypeOK
  BY DEF TInv
<1>. QED
  BY <1>1, QueueInvariance, PTL

\* However often the indices wrap, the queue holds the newest measurements in
\* the order in which they were taken (assignment2.c:62-88).
THEOREM QueueHoldsNewestHolds == Spec => []QueueHoldsNewest
<1>1. TInv => QueueHoldsNewest
  BY DEF TInv
<1>. QED
  BY <1>1, QueueInvariance, PTL

\* Every measurement waits, was removed by an acknowledgement or fell out of a
\* full queue, and what left the queue does not come back.
THEOREM EveryMeasurementAccountedHolds == Spec => []EveryMeasurementAccounted
<1>1. TInv => EveryMeasurementAccounted
  <2>. SUFFICES ASSUME TInv PROVE EveryMeasurementAccounted
    OBVIOUS
  <2>. DEFINE w == Waiting(queue_first, queue_length, message_queue)
  <2>1. queue_length \in Nat /\ taken \in Nat /\ queue_length <= taken
    BY Unfolded, RangeAssumption
  <2>2. 0 \in 0..queue_length
    BY <2>1
  <2>3. ToSet(w) = (taken - queue_length + 1)..taken
    BY <2>2, WaitingSet
  <2>4. removed \cup overwritten = 1..(taken - queue_length)
    BY DEF TInv, GoneIsOldest
  <2>5. 1..taken = ToSet(w) \cup removed \cup overwritten
    BY <2>1, <2>3, <2>4
  <2>6. ToSet(w) \cap (removed \cup overwritten) = {}
    BY <2>1, <2>3, <2>4
  <2>. QED
    BY <2>5, <2>6 DEF w, EveryMeasurementAccounted
<1>. QED
  BY <1>1, QueueInvariance, PTL

-----------------------------------------------------------------------------
(* What acknowledgements remove.  Until the answer of the packet sent last *)
(* is there, all it would remove is in that packet, or, when the packet    *)
(* has arrived and is answered, has been received.                         *)

\* The measurements the next acknowledgement removes.
Confirmable ==
    (taken - queue_length + 1)
        ..(taken - queue_length + SmallerOf(message_size \div 3, queue_length))

DueIsCarried ==
    answer = "due" =>
        /\ \A p \in air : Confirmable \subseteq ToSet(p)
        /\ acks > 0 => Confirmable \subseteq received

AInv == OnlyDoubtfulAnswersLose /\ DueIsCarried

\* A packet that is not cut holds the oldest measurements of the queue.
LEMMA UncutPacket ==
    ASSUME NEW first \in 0..RANGE - 1, NEW length \in 0..RANGE - 1,
           NEW queue, NEW newest \in Nat, length <= newest,
           first + length < RANGE,
           CellsHold(queue, first, length, newest), NEW items \in 0..length
    PROVE  ToSet(SubSeq(Copied(first, length, queue), 1, items))
               = (newest - length + 1)..(newest - length + items)
<1>. DEFINE c == Copied(first, length, queue)
            b == newest - length
            s == SubSeq(c, 1, items)
<1>1. length \in Nat /\ b \in Nat
  BY RangeAssumption
<1>2. c \in [1..length -> Nat] /\ \A k \in 1..length : c[k] = b + k
  <2>1. ASSUME NEW k \in 1..length
        PROVE  (IF first + k < RANGE THEN queue[first + k] ELSE Garbage) = b + k
    <3>1. first + k < RANGE /\ k \in 0..RANGE - 1
      BY RangeAssumption
    <3>2. (first + k) % RANGE = first + k
      BY <3>1, WrapsOnce
    <3>. QED
      BY <3>1, <3>2 DEF CellsHold
  <2>2. c = [k \in 1..length |-> b + k]
    BY <2>1 DEF Copied
  <2>. HIDE DEF c, b
  <2>. QED
    BY <1>1, <2>2
<1>. HIDE DEF c, b
<1>3. c \in Seq(Nat) /\ Len(c) = length
  <2>1. c \in Seq(Nat)
    BY <1>1, <1>2, SeqDef
  <2>. QED
    BY <1>1, <1>2, <2>1, LenProperties
<1>4. s \in Seq(Nat) /\ Len(s) = items /\ \A k \in 1..items : s[k] = c[k]
  <2>1. items \in 0..Len(c)
    BY <1>3
  <2>2. s \in Starts(Nat, c, items)
    BY <1>3, <2>1, StartOfSeq, Zenon
  <2>. HIDE DEF s
  <2>. QED
    BY <2>2 DEF Starts
<1>. HIDE DEF s
<1>5. \A k \in 1..items : s[k] = b + k
  <2>1. 1..items \subseteq 1..length
    BY <1>1
  <2>. QED
    BY <1>2, <1>4, <2>1, Zenon
<1>6. ToSet(s) = (b + 1)..(b + items)
  BY <1>1, <1>4, <1>5, IntervalSet
<1>. QED
  BY <1>6 DEF b, c, s

\* A packet that is the only one under way carries all its answer will remove.
LEMMA SendKeepsConfirmed ==
    ASSUME TInv, TInv', AInv, SendTemperature
    PROVE  AInv'
<1>. DEFINE last == Next8(queue_last)
            q == AfterAdd(queue_first, last, queue_length)
            size == (3 * q.length) % RANGE
            items == SmallerOf(size, PACKETBUF_SIZE) \div 3
            packet == SubSeq(Copied(queue_first', queue_length', message_queue'), 1, items)
            cut == size > PACKETBUF_SIZE \/ q.first + q.length >= RANGE
<1>1. /\ queue_first' = q.first /\ queue_length' = q.length
      /\ message_size' = size
      /\ air' = air \cup {packet}
      /\ answer' = IF answer = "doubtful" \/ air # {} \/ acks > 0 \/ cut
                   THEN "doubtful" ELSE "due"
      /\ UNCHANGED <<acks, received, removed>>
  BY DEF SendTemperature
<1>2. OnlyDoubtfulAnswersLose'
  BY <1>1 DEF AInv, OnlyDoubtfulAnswersLose
<1>3. ASSUME answer' = "due"
      PROVE  (\A p \in air' : Confirmable' \subseteq ToSet(p)) /\ ~(acks' > 0)
  <2>1. air = {} /\ ~(acks > 0) /\ ~cut
    BY <1>1, <1>3
  <2>2. /\ queue_first' \in 0..RANGE - 1 /\ queue_length' \in 0..RANGE - 1
        /\ taken' \in Nat /\ queue_length' <= taken'
        /\ CellsHold(message_queue', queue_first', queue_length', taken')
    <3>1. CellsHold(message_queue', queue_first', queue_length', taken')
      BY HoldsCellByCell, Zenon DEF TInv, QueueHoldsNewest
    <3>. QED
      BY <3>1, RangeAssumption, BoundAssumption DEF TInv, TypeOK, LengthIsTaken
  <2>. HIDE DEF q
  <2>3. size \in Nat /\ size <= 3 * queue_length'
    <3>1. 3 * q.length \in Nat
      BY <1>1, <2>2
    <3>2. size \in 0..RANGE - 1 /\ size <= 3 * q.length
      BY <3>1, CutToRange, Zenon
    <3>. QED
      BY <1>1, <3>2, RangeAssumption
  <2>4. ~(size > PACKETBUF_SIZE) /\ queue_first' + queue_length' < RANGE
    BY <1>1, <2>1, <2>2, RangeAssumption
  <2>. HIDE DEF size
  <2>5. /\ items = size \div 3 /\ items \in 0..queue_length'
        /\ SmallerOf(message_size' \div 3, queue_length') = items
    BY <1>1, <2>2, <2>3, <2>4, PacketAssumption, RangeAssumption DEF SmallerOf
  <2>. HIDE DEF items
  <2>6. ToSet(packet) = (taken' - queue_length' + 1)..(taken' - queue_length' + items)
    <3>1. items \in 0..queue_length'
      BY <2>5
    <3>2. queue_first' + queue_length' < RANGE
      BY <2>4
    <3>. QED
      BY <2>2, <3>1, <3>2, UncutPacket, SMTT(30)
  <2>7. Confirmable' = ToSet(packet)
    BY <2>5, <2>6 DEF Confirmable
  <2>. QED
    BY <1>1, <2>1, <2>7
<1>4. DueIsCarried'
  BY <1>3 DEF DueIsCarried
<1>. QED
  BY <1>2, <1>4 DEF AInv

\* The answer that is due removes what has been received.
LEMMA AckKeepsConfirmed ==
    ASSUME TInv, AInv, ReceiveAck
    PROVE  AInv'
<1>. DEFINE w == Waiting(queue_first, queue_length, message_queue)
            many == SmallerOf(message_size \div 3, queue_length)
<1>1. /\ acks > 0
      /\ removed' = removed \cup ToSet(SubSeq(w, 1, many))
      /\ answer' = IF answer = "due" THEN "none" ELSE "doubtful"
      /\ received' = received
  BY DEF ReceiveAck
<1>2. ASSUME answer = "due"
      PROVE  removed' \subseteq received'
  <2>1. message_size \in Nat /\ queue_length \in Nat
    BY RangeAssumption DEF TInv, TypeOK
  <2>2. many \in 0..queue_length
    BY <2>1 DEF SmallerOf
  <2>3. ToSet(SubSeq(w, 1, many)) = Confirmable
    BY <2>2, WaitingSet, Zenon DEF Confirmable
  <2>4. Confirmable \subseteq received /\ removed \subseteq received
    BY <1>1, <1>2 DEF AInv, DueIsCarried, OnlyDoubtfulAnswersLose
  <2>. QED
    BY <1>1, <2>3, <2>4
<1>. QED
  BY <1>1, <1>2 DEF AInv, DueIsCarried, OnlyDoubtfulAnswersLose

\* What a packet carries is received with it; what is lost was promised nothing.
LEMMA RestKeepsConfirmed ==
    ASSUME TInv, AInv,
           \/ \E p \in air : ReceiveTemperatures(p) \/ LosePacket(p)
           \/ LoseAck \/ IncreaseAddress
           \/ UNCHANGED vars
    PROVE  AInv'
<1>1. /\ UNCHANGED <<queueVars, message_size, taken, removed, answer>>
      /\ air' \subseteq air
  BY DEF ReceiveTemperatures, LosePacket, LoseAck, IncreaseAddress, vars
<1>2. UNCHANGED Confirmable
  BY <1>1 DEF Confirmable, queueVars
<1>3. received \subseteq received'
  BY DEF ReceiveTemperatures, LosePacket, LoseAck, IncreaseAddress, vars
<1>4. OnlyDoubtfulAnswersLose'
  BY <1>1, <1>3 DEF AInv, OnlyDoubtfulAnswersLose
<1>5. ASSUME answer' = "due", acks' > 0
      PROVE  Confirmable' \subseteq received'
  <2>1. CASE \E p \in air : ReceiveTemperatures(p)
    <3>1. PICK p \in air : ReceiveTemperatures(p)
      BY <2>1
    <3>2. Confirmable \subseteq ToSet(p)
      BY <1>1, <1>5 DEF AInv, DueIsCarried
    <3>3. Garbage \notin Confirmable
      <4>1. queue_length \in Nat /\ taken \in Nat /\ queue_length <= taken
        BY Unfolded, RangeAssumption
      <4>. QED
        BY <4>1 DEF Confirmable, Garbage
    <3>4. received' = received \cup (ToSet(p) \ {Garbage})
      BY <3>1 DEF ReceiveTemperatures
    <3>. QED
      BY <1>2, <3>2, <3>3, <3>4
  <2>2. CASE ~\E p \in air : ReceiveTemperatures(p)
    <3>1. acks \in Nat
      BY DEF TInv, TypeOK
    <3>2. acks > 0
      BY <1>5, <2>2, <3>1 DEF LosePacket, LoseAck, IncreaseAddress, vars
    <3>. QED
      BY <1>1, <1>2, <1>3, <1>5, <3>2 DEF AInv, DueIsCarried
  <2>. QED
    BY <2>1, <2>2
<1>6. DueIsCarried'
  BY <1>1, <1>2, <1>5 DEF AInv, DueIsCarried
<1>. QED
  BY <1>4, <1>6 DEF AInv

\* Whatever is lost, repeated or late, a measurement that an acknowledgement
\* removed was received, unless an acknowledgement was late or repeated or a
\* packet was cut (assignment2.c:60, 93, 146, 202).
THEOREM OnlyDoubtfulAnswersLoseHolds == Spec => []OnlyDoubtfulAnswersLose
<1>1. Init => AInv
  BY DEF Init, AInv, OnlyDoubtfulAnswersLose, DueIsCarried
<1>2. TInv /\ TInv' /\ AInv /\ [Next]_vars => AInv'
  BY SendKeepsConfirmed, AckKeepsConfirmed, RestKeepsConfirmed DEF Next
<1>3. AInv => OnlyDoubtfulAnswersLose
  BY DEF AInv
<1>. QED
  BY <1>1, <1>2, <1>3, QueueInvariance, PTL DEF Spec
=============================================================================
