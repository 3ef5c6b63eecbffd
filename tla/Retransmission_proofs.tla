------------------------ MODULE Retransmission_proofs ------------------------
(***************************************************************************)
(* Proofs about the retransmission list, for every pool size, retry limit, *)
(* set of addresses, of ids and of messages: first lemmas about the        *)
(* operators of AckList, for any use the mote and the gateway make of      *)
(* them; then a mote's list in an arbitrary network (MoteAcks) and with    *)
(* its packets and acknowledgements under way (MoteDelivery), where it     *)
(* implements ReliableSend; last the gateway's list (GatewayAcks).         *)
(***************************************************************************)
EXTENDS MoteDelivery, GatewayAcks, SequenceTheorems, WellFoundedInduction, TLAPS

-----------------------------------------------------------------------------
(* The library operators the model is built from.                          *)

\* Min of a nonempty set of naturals is its least element.
LEMMA MinIsLeast ==
    ASSUME NEW S \in SUBSET Nat, S # {}
    PROVE  /\ Min(S) \in S
           /\ \A n \in S : Min(S) <= n
<1>. DEFINE R == OpToRel(<, Nat)
<1>1. PICK n \in S : \A m \in S : <<m, n>> \notin R
  <2>1. IsWellFoundedOn(R, Nat)
    BY NatLessThanWellFounded
  <2>. HIDE DEF R
  <2>. QED
    BY <2>1, WFMin
<1>2. \A m \in S : n <= m
  <2>1. \A m \in S : ~(m < n)
    BY <1>1 DEF OpToRel
  <2>. QED
    BY <2>1
<1>. QED
  BY <1>2 DEF Min

\* RemoveAt takes out one position and closes the gap.
LEMMA RemoveAtPositions ==
    ASSUME NEW S, NEW s \in Seq(S), NEW i \in 1..Len(s)
    PROVE  /\ RemoveAt(s, i) \in Seq(S)
           /\ Len(RemoveAt(s, i)) = Len(s) - 1
           /\ \A j \in 1..(Len(s) - 1) :
                 RemoveAt(s, i)[j] = IF j < i THEN s[j] ELSE s[j + 1]
<1>. DEFINE front == SubSeq(s, 1, i - 1)
            back  == SubSeq(s, i + 1, Len(s))
<1>0. Len(s) \in Nat /\ i \in Nat /\ i >= 1 /\ i <= Len(s)
  BY LenProperties
<1>1. /\ front \in Seq(S)
      /\ Len(front) = i - 1
      /\ \A j \in 1..(i - 1) : front[j] = s[j]
  BY <1>0, SubSeqProperties, Z3
<1>2. /\ back \in Seq(S)
      /\ Len(back) = Len(s) - i
      /\ \A j \in 1..(Len(s) - i) : back[j] = s[i + j]
  BY <1>0, SubSeqProperties, Z3
<1>. HIDE DEF front, back
<1>3. /\ front \o back \in Seq(S)
      /\ Len(front \o back) = Len(s) - 1
      /\ \A j \in 1..(Len(s) - 1) :
            (front \o back)[j] =
                IF j <= i - 1 THEN front[j] ELSE back[j - (i - 1)]
  <2>1. /\ front \o back \in Seq(S)
        /\ Len(front \o back) = Len(front) + Len(back)
        /\ \A j \in 1..(Len(front) + Len(back)) :
              (front \o back)[j] =
                  IF j <= Len(front) THEN front[j] ELSE back[j - Len(front)]
    BY <1>1, <1>2, ConcatProperties
  <2>2. Len(front) = i - 1 /\ Len(front) + Len(back) = Len(s) - 1
    BY <1>0, <1>1, <1>2
  <2>. QED
    BY <2>1, <2>2
<1>4. RemoveAt(s, i) = front \o back
  BY DEF RemoveAt, front, back
<1>5. ASSUME NEW j \in 1..(Len(s) - 1)
      PROVE  (front \o back)[j] = IF j < i THEN s[j] ELSE s[j + 1]
  <2>1. CASE j < i
    BY <1>0, <1>1, <1>3, <2>1
  <2>2. CASE ~(j < i)
    <3>1. j - (i - 1) \in 1..(Len(s) - i)
      BY <1>0, <2>2
    <3>2. back[j - (i - 1)] = s[i + (j - (i - 1))]
      BY <1>2, <3>1
    <3>3. i + (j - (i - 1)) = j + 1
      BY <1>0
    <3>4. (front \o back)[j] = back[j - (i - 1)]
      <4>1. ~(j <= i - 1)
        BY <1>0, <2>2
      <4>. QED
        BY <1>3, <4>1
    <3>. QED
      BY <2>2, <3>2, <3>3, <3>4
  <2>. QED
    BY <2>1, <2>2
<1>. QED
  BY <1>3, <1>4, <1>5

\* Removing one position of a list without repetitions removes its element,
\* and no other, and brings in no repetition.
LEMMA RemoveAtElements ==
    ASSUME NEW S, NEW s \in Seq(S), NoLoop(s), NEW i \in 1..Len(s)
    PROVE  /\ NoLoop(RemoveAt(s, i))
           /\ ToSet(RemoveAt(s, i)) = ToSet(s) \ {s[i]}
<1>. DEFINE r == RemoveAt(s, i)
            n == Len(s)
<1>0. n \in Nat /\ i \in Nat /\ i >= 1 /\ i <= n /\ DOMAIN s = 1..n
  BY LenProperties
<1>1. /\ r \in Seq(S)
      /\ DOMAIN r = 1..(n - 1)
      /\ \A j \in 1..(n - 1) : r[j] = IF j < i THEN s[j] ELSE s[j + 1]
  BY RemoveAtPositions, LenProperties
<1>2. \A p, q \in 1..n : s[p] = s[q] => p = q
  BY <1>0 DEF NoLoop
<1>. HIDE DEF r, n
<1>3. NoLoop(r)
  BY <1>0, <1>1, <1>2 DEF NoLoop
<1>4. ASSUME NEW p \in 1..(n - 1)
      PROVE  r[p] \in ToSet(s) \ {s[i]}
  <2>1. CASE p < i
    <3>1. p \in 1..n /\ p # i /\ r[p] = s[p]
      BY <1>0, <1>1, <2>1
    <3>. QED
      BY <1>0, <1>2, <3>1 DEF ToSet
  <2>2. CASE ~(p < i)
    <3>1. p + 1 \in 1..n /\ p + 1 # i /\ r[p] = s[p + 1]
      BY <1>0, <1>1, <2>2
    <3>. QED
      BY <1>0, <1>2, <3>1 DEF ToSet
  <2>. QED
    BY <2>1, <2>2
<1>5. ASSUME NEW x \in ToSet(s) \ {s[i]}
      PROVE  x \in ToSet(r)
  <2>1. PICK p \in 1..n : x = s[p] /\ p # i
    BY <1>0 DEF ToSet
  <2>2. CASE p < i
    <3>1. p \in 1..(n - 1) /\ r[p] = s[p]
      BY <1>0, <1>1, <2>2
    <3>. QED
      BY <1>1, <2>1, <3>1 DEF ToSet
  <2>3. CASE p > i
    <3>1. p - 1 \in 1..(n - 1) /\ r[p - 1] = s[p]
      BY <1>0, <1>1, <2>3
    <3>. QED
      BY <1>1, <2>1, <3>1 DEF ToSet
  <2>. QED
    BY <1>0, <2>1, <2>2, <2>3
<1>6. ToSet(r) \subseteq ToSet(s) \ {s[i]}
  BY <1>1, <1>4 DEF ToSet
<1>. QED
  BY <1>3, <1>5, <1>6 DEF r

\* Pushing an element a list does not hold adds that element and no other,
\* and brings in no repetition.
LEMMA PushElements ==
    ASSUME NEW S, NEW s \in Seq(S), NoLoop(s), NEW x \in S, x \notin ToSet(s)
    PROVE  /\ <<x>> \o s \in Seq(S)
           /\ NoLoop(<<x>> \o s)
           /\ ToSet(<<x>> \o s) = ToSet(s) \cup {x}
<1>. DEFINE r == <<x>> \o s
            n == Len(s)
<1>0. n \in Nat /\ DOMAIN s = 1..n
  BY LenProperties
<1>1. /\ r \in Seq(S)
      /\ DOMAIN r = 1..(n + 1)
      /\ \A j \in 1..(n + 1) : r[j] = IF j = 1 THEN x ELSE s[j - 1]
  <2>1. <<x>> \in Seq(S) /\ Len(<<x>>) = 1 /\ <<x>>[1] = x
    OBVIOUS
  <2>2. /\ r \in Seq(S)
        /\ Len(r) = 1 + n
        /\ \A j \in 1..(1 + n) :
              r[j] = IF j <= 1 THEN <<x>>[j] ELSE s[j - 1]
    BY <2>1, ConcatProperties
  <2>. HIDE DEF r, n
  <2>. QED
    BY <1>0, <2>1, <2>2, LenProperties
<1>2. \A p \in 1..n : s[p] # x
  BY <1>0 DEF ToSet
<1>3. \A p, q \in 1..n : s[p] = s[q] => p = q
  BY <1>0 DEF NoLoop
<1>. HIDE DEF r, n
<1>4. NoLoop(r)
  <2>. SUFFICES ASSUME NEW p \in 1..(n + 1), NEW q \in 1..(n + 1), r[p] = r[q]
                PROVE  p = q
    BY <1>1 DEF NoLoop
  <2>1. /\ p = 1 \/ (p - 1 \in 1..n /\ r[p] = s[p - 1])
        /\ q = 1 \/ (q - 1 \in 1..n /\ r[q] = s[q - 1])
        /\ r[1] = x
    BY <1>0, <1>1
  <2>2. CASE p = 1 \/ q = 1
    BY <1>2, <2>1, <2>2
  <2>3. CASE ~(p = 1 \/ q = 1)
    <3>1. p - 1 = q - 1
      BY <1>3, <2>1, <2>3
    <3>. QED
      BY <1>0, <3>1
  <2>. QED
    BY <2>2, <2>3
<1>5. ToSet(r) \subseteq ToSet(s) \cup {x}
  BY <1>0, <1>1 DEF ToSet
<1>6. x \in ToSet(r)
  BY <1>0, <1>1 DEF ToSet
<1>7. ASSUME NEW p \in 1..n
      PROVE  s[p] \in ToSet(r)
  <2>1. p + 1 \in 1..(n + 1) /\ r[p + 1] = s[p]
    BY <1>0, <1>1
  <2>. QED
    BY <1>1, <2>1 DEF ToSet
<1>8. ToSet(s) \subseteq ToSet(r)
  BY <1>0, <1>7 DEF ToSet
<1>. QED
  BY <1>1, <1>4, <1>5, <1>6, <1>8 DEF r

-----------------------------------------------------------------------------
(* The calls the actions are made of.                                      *)

\* findRemoveFromAckList leaves a list and a pool that still agree, drops
\* only blocks that match, and with unique keys every block that matches.
LEMMA FindRemoveResult ==
    ASSUME AckTypeOK, ListIsPool, NEW id, NEW mote
    PROVE  LET after == FindRemove(id, mote) IN
           /\ after.list \in Seq(Block)
           /\ NoLoop(after.list)
           /\ ToSet(after.list) = after.mem
           /\ after.mem \subseteq ack_mem
           /\ \A b \in ack_mem \ after.mem :
                 slot[b].id = id /\ slot[b].to = mote
           /\ UniqueKeys => \A b \in after.mem :
                 ~(slot[b].id = id /\ slot[b].to = mote)
<1>. DEFINE found == Matching(id, mote)
            at == Min(found)
<1>0. /\ ack_list \in Seq(Block)
      /\ NoLoop(ack_list)
      /\ ToSet(ack_list) = ack_mem
      /\ DOMAIN ack_list = 1..Len(ack_list)
      /\ Len(ack_list) \in Nat
  BY LenProperties DEF AckTypeOK, ListIsPool, Pending
<1>1. CASE found = {}
  <2>1. \A b \in ack_mem : ~(slot[b].id = id /\ slot[b].to = mote)
    BY <1>0, <1>1 DEF Matching, ToSet
  <2>. QED
    BY <1>0, <1>1, <2>1 DEF FindRemove
<1>2. CASE found # {}
  <2>1. found \in SUBSET Nat /\ found \subseteq 1..Len(ack_list)
    BY <1>0 DEF Matching
  <2>2. at \in found
    BY <1>2, <2>1, MinIsLeast
  <2>3. /\ at \in 1..Len(ack_list)
        /\ slot[ack_list[at]].id = id
        /\ slot[ack_list[at]].to = mote
        /\ ack_list[at] \in ack_mem
    BY <1>0, <2>1, <2>2 DEF Matching, ToSet
  <2>4. FindRemove(id, mote) =
            [list |-> RemoveAt(ack_list, at), mem |-> ack_mem \ {ack_list[at]}]
    BY <1>2 DEF FindRemove
  <2>. HIDE DEF at, found
  <2>5. /\ RemoveAt(ack_list, at) \in Seq(Block)
        /\ NoLoop(RemoveAt(ack_list, at))
        /\ ToSet(RemoveAt(ack_list, at)) = ack_mem \ {ack_list[at]}
    BY <1>0, <2>3, RemoveAtPositions, RemoveAtElements
  <2>6. UniqueKeys => \A b \in ack_mem \ {ack_list[at]} :
            ~(slot[b].id = id /\ slot[b].to = mote)
    BY <1>0, <2>3 DEF UniqueKeys, Pending
  <2>. QED
    BY <2>3, <2>4, <2>5, <2>6
<1>. QED
  BY <1>1, <1>2

\* The successor of a block is on the list, or NULL; a block that is not on
\* the list has none.
LEMMA ItemNextOnList ==
    ASSUME NEW S, NEW list \in Seq(S), NEW b
    PROVE  /\ ItemNext(list, b) \in ToSet(list) \cup {Null}
           /\ b \notin ToSet(list) => ItemNext(list, b) = Null
<1>. DEFINE n == Len(list)
            p == CHOOSE q \in 1..(n - 1) : list[q] = b
<1>0. n \in Nat /\ DOMAIN list = 1..n
  BY LenProperties
<1>1. CASE \E q \in 1..(n - 1) : list[q] = b
  <2>1. p \in 1..(n - 1) /\ list[p] = b
    BY <1>1
  <2>2. ItemNext(list, b) = list[p + 1]
    BY <1>1 DEF ItemNext
  <2>. HIDE DEF p, n
  <2>3. p \in 1..n /\ p + 1 \in 1..n
    BY <1>0, <2>1
  <2>. QED
    BY <1>0, <2>1, <2>2, <2>3 DEF ToSet
<1>2. CASE ~ \E q \in 1..(n - 1) : list[q] = b
  BY <1>2 DEF ItemNext
<1>. QED
  BY <1>1, <1>2

\* memb_alloc of a pool with a free block returns a block that was free.
LEMMA FirstFreeIsFree ==
    ASSUME NEW mem \in SUBSET Block, mem # Block
    PROVE  FirstFree(mem) \in Block \ mem
<1>1. Block \subseteq Nat
  BY DEF Block
<1>2. Block \ mem \in SUBSET Nat /\ Block \ mem # {}
  BY <1>1
<1>. QED
  BY <1>2, MinIsLeast DEF FirstFree

\* A list that starts out empty agrees with its pool.
LEMMA AckInitGood ==
    ASSUME AckInit
    PROVE  AckTypeOK /\ ListIsPool /\ Pending = {}
<1>1. Zeroed \in [to : Addr, id : Id, msg : Msg, retries : {0}]
  <2>1. \E s \in [to : Addr, id : Id, msg : Msg, retries : {0}] : TRUE
    <3>1. PICK t \in Addr, i \in Id, m \in Msg : TRUE
      BY NonEmptyAssumption
    <3>2. [to |-> t, id |-> i, msg |-> m, retries |-> 0]
              \in [to : Addr, id : Id, msg : Msg, retries : {0}]
      OBVIOUS
    <3>. QED
      BY <3>2
  <2>. QED
    BY <2>1 DEF Zeroed
<1>2. Zeroed \in Slot
  BY <1>1 DEF Slot
<1>3. AckTypeOK
  BY <1>2 DEF AckInit, AckTypeOK
<1>4. DOMAIN ack_list = {} /\ Pending = {}
  BY DEF AckInit, Pending, ToSet
<1>5. ListIsPool
  BY <1>4 DEF AckInit, ListIsPool, NoLoop
<1>. QED
  BY <1>3, <1>4, <1>5

-----------------------------------------------------------------------------
(* The list in an arbitrary network.  Each part of the inductive invariant *)
(* needs the others: the retry at the limit removes its own entry only     *)
(* because keys are unique, keys stay unique only because the pool hands   *)
(* out blocks that are off the list.                                       *)

IInv == AckTypeOK /\ ListIsPool /\ UniqueKeys /\ RetryLeft /\ CursorRetryLeft

LEMMA InitIInv == Init => IInv
<1>. SUFFICES ASSUME Init PROVE IInv
  OBVIOUS
<1>1. AckTypeOK /\ ListIsPool /\ Pending = {}
  BY AckInitGood DEF Init
<1>2. UniqueKeys /\ RetryLeft
  BY <1>1 DEF UniqueKeys, RetryLeft
<1>3. CursorRetryLeft
  BY DEF Init, AckInit, CursorRetryLeft
<1>. QED
  BY <1>1, <1>2, <1>3 DEF IInv

LEMMA AddPreserves ==
    ASSUME IInv, NEW to \in Addr, NEW id \in Id, NEW msg \in Msg,
           AddToAckList(to, id, msg)
    PROVE  IInv'
<1>. DEFINE after == FindRemove(id, to)
            b == FirstFree(after.mem)
            new == [to |-> to, id |-> id, msg |-> msg, retries |-> 0]
<1>0. /\ after.list \in Seq(Block)
      /\ NoLoop(after.list)
      /\ ToSet(after.list) = after.mem
      /\ after.mem \subseteq ack_mem
      /\ \A c \in after.mem : ~(slot[c].id = id /\ slot[c].to = to)
  BY FindRemoveResult DEF IInv
<1>1. Push(after.list, after.mem, to, id, msg) /\ entry' = entry
  BY DEF AddToAckList
<1>2. ack_mem \subseteq Block /\ Pending = ack_mem
  BY DEF IInv, AckTypeOK, ListIsPool
<1>3. NUM_OF_RETRIES > 0
  BY RetriesAssumption
<1>. HIDE DEF after
<1>4. CASE after.mem = Block
  <2>1. ack_list' = after.list /\ ack_mem' = after.mem /\ slot' = slot
    BY <1>1, <1>4 DEF Push
  <2>2. Pending' = after.mem
    BY <1>0, <2>1 DEF Pending
  <2>3. AckTypeOK'
    BY <1>0, <1>1, <1>2, <2>1 DEF IInv, AckTypeOK
  <2>4. ListIsPool'
    BY <1>0, <2>1, <2>2 DEF ListIsPool
  <2>5. UniqueKeys' /\ RetryLeft'
    BY <1>0, <1>2, <2>1, <2>2 DEF IInv, UniqueKeys, RetryLeft
  <2>6. CursorRetryLeft'
    BY <1>1, <2>1 DEF IInv, CursorRetryLeft
  <2>. QED
    BY <2>3, <2>4, <2>5, <2>6 DEF IInv
<1>5. CASE after.mem # Block
  <2>0. b \in Block \ after.mem
    BY <1>0, <1>2, <1>5, FirstFreeIsFree
  <2>1. /\ ack_list' = <<b>> \o after.list
        /\ ack_mem' = after.mem \cup {b}
        /\ slot' = [slot EXCEPT ![b] = new]
    BY <1>1, <1>5 DEF Push
  <2>. HIDE DEF b
  <2>2. /\ ack_list' \in Seq(Block)
        /\ NoLoop(ack_list')
        /\ ToSet(ack_list') = after.mem \cup {b}
    BY <1>0, <2>0, <2>1, PushElements
  <2>3. Pending' = after.mem \cup {b}
    BY <2>2 DEF Pending
  <2>4. AckTypeOK'
    <3>1. new \in Slot
      BY DEF Slot
    <3>2. slot' \in [Block -> Slot]
      BY <2>0, <2>1, <3>1 DEF IInv, AckTypeOK
    <3>. QED
      BY <1>0, <1>1, <1>2, <2>0, <2>1, <2>2, <3>2 DEF IInv, AckTypeOK
  <2>5. ListIsPool'
    BY <2>1, <2>2, <2>3 DEF ListIsPool, NoLoop
  <2>6. /\ slot'[b] = new
        /\ \A c \in Block \ {b} : slot'[c] = slot[c]
    BY <2>0, <2>1 DEF IInv, AckTypeOK
  <2>7. UniqueKeys'
    BY <1>0, <1>2, <2>0, <2>3, <2>6 DEF IInv, UniqueKeys
  <2>8. RetryLeft'
    BY <1>0, <1>2, <1>3, <2>0, <2>3, <2>6 DEF IInv, RetryLeft
  <2>9. CursorRetryLeft'
    BY <1>1, <1>3, <2>6 DEF IInv, AckTypeOK, CursorRetryLeft
  <2>. QED
    BY <2>4, <2>5, <2>7, <2>8, <2>9 DEF IInv
<1>. QED
  BY <1>4, <1>5

LEMMA ReceivePreserves ==
    ASSUME IInv, NEW id \in Id, NEW mote \in Addr, ReceiveAck(id, mote)
    PROVE  IInv'
<1>. DEFINE after == FindRemove(id, mote)
<1>1. /\ after.list \in Seq(Block)
      /\ NoLoop(after.list)
      /\ ToSet(after.list) = after.mem
      /\ after.mem \subseteq ack_mem
  BY FindRemoveResult DEF IInv
<1>2. /\ ack_list' = after.list
      /\ ack_mem' = after.mem
      /\ slot' = slot
      /\ entry' = entry
  BY DEF ReceiveAck
<1>. HIDE DEF after
<1>3. Pending' = after.mem /\ after.mem \subseteq Pending
  BY <1>1, <1>2 DEF IInv, ListIsPool, Pending
<1>4. AckTypeOK'
  BY <1>1, <1>2 DEF IInv, AckTypeOK
<1>5. ListIsPool'
  BY <1>1, <1>2, <1>3 DEF ListIsPool
<1>6. UniqueKeys' /\ RetryLeft' /\ CursorRetryLeft'
  BY <1>2, <1>3 DEF IInv, UniqueKeys, RetryLeft, CursorRetryLeft
<1>. QED
  BY <1>4, <1>5, <1>6 DEF IInv

LEMMA StartPreserves ==
    ASSUME IInv, StartRound
    PROVE  IInv'
<1>1. /\ UNCHANGED <<ack_list, ack_mem, slot>>
      /\ entry' = ack_list[1]
      /\ 1 \in DOMAIN ack_list
  BY LenProperties DEF IInv, AckTypeOK, StartRound, Backlog
<1>2. entry' \in Pending /\ entry' \in Block
  BY <1>1 DEF Pending, ToSet, IInv, AckTypeOK
<1>3. AckTypeOK' /\ ListIsPool'
  BY <1>1, <1>2 DEF IInv, AckTypeOK, ListIsPool, NoLoop, Pending
<1>4. UniqueKeys' /\ RetryLeft' /\ CursorRetryLeft'
  BY <1>1, <1>2 DEF IInv, UniqueKeys, RetryLeft, CursorRetryLeft, Pending
<1>. QED
  BY <1>3, <1>4 DEF IInv

\* A wake-up inside a round counts a retry of the block under the cursor and
\* leaves every packet as it is; it takes blocks off the list only at the
\* limit, all of the same key, and then the one under the cursor too.
LEMMA RetryResult ==
    ASSUME IInv, RetryEntry
    PROVE  /\ entry \in Block /\ entry # Null
           /\ slot' \in [Block -> Slot]
           /\ slot'[entry].retries = slot[entry].retries + 1
           /\ \A b \in Block : /\ slot'[b].id = slot[b].id
                               /\ slot'[b].to = slot[b].to
                               /\ slot'[b].msg = slot[b].msg
           /\ \A b \in Block \ {entry} : slot'[b].retries = slot[b].retries
           /\ ack_list' \in Seq(Block)
           /\ NoLoop(ack_list')
           /\ ToSet(ack_list') = ack_mem'
           /\ ack_mem' \subseteq ack_mem
           /\ \A b \in ack_mem \ ack_mem' :
                 slot[b].id = slot[entry].id /\ slot[b].to = slot[entry].to
           /\ IF slot[entry].retries + 1 >= NUM_OF_RETRIES
              THEN \A b \in ack_mem' :
                 ~(slot[b].id = slot[entry].id /\ slot[b].to = slot[entry].to)
              ELSE ack_mem' = ack_mem
           /\ entry' \in ack_mem' \cup {Null}
           /\ entry \notin ack_mem' => entry' = Null
<1>. DEFINE r == slot[entry].retries
            tried == (r + 1) % 256
            found == FindRemove(slot[entry].id, slot[entry].to)
            kept == [list |-> ack_list, mem |-> ack_mem]
            after == IF tried >= NUM_OF_RETRIES THEN found ELSE kept
            same(b) == slot[b].id = slot[entry].id /\ slot[b].to = slot[entry].to
<1>0. entry \in Block /\ entry # Null
  BY DEF RetryEntry, IInv, AckTypeOK
<1>1. r \in 0..255 /\ r < NUM_OF_RETRIES
  BY <1>0 DEF IInv, AckTypeOK, Slot, CursorRetryLeft
<1>. HIDE DEF r
<1>2. tried = r + 1 /\ tried \in 0..255
  <2>1. r + 1 \in 0..255
    BY <1>1, RetriesAssumption
  <2>. QED
    BY <1>1, <2>1
<1>3. /\ slot' = [slot EXCEPT ![entry].retries = tried]
      /\ ack_list' = after.list
      /\ ack_mem' = after.mem
      /\ entry' = ItemNext(after.list, entry)
  BY DEF RetryEntry, Tried, LimitReached, r
<1>. HIDE DEF tried
<1>4. /\ slot' \in [Block -> Slot]
      /\ slot'[entry].retries = tried
      /\ \A b \in Block : /\ slot'[b].id = slot[b].id
                          /\ slot'[b].to = slot[b].to
                          /\ slot'[b].msg = slot[b].msg
      /\ \A b \in Block \ {entry} : slot'[b].retries = slot[b].retries
  <2>. DEFINE old == slot[entry]
              new == [old EXCEPT !.retries = tried]
  <2>1. old \in Slot /\ slot \in [Block -> Slot]
    BY <1>0 DEF IInv, AckTypeOK
  <2>2. slot' = [slot EXCEPT ![entry] = new]
    BY <1>3
  <2>3. slot[entry] = old
    OBVIOUS
  <2>. HIDE DEF old
  <2>4. /\ new \in Slot
        /\ new.retries = tried
        /\ new.id = old.id
        /\ new.to = old.to
        /\ new.msg = old.msg
    BY <1>2, <2>1 DEF Slot
  <2>. HIDE DEF new
  <2>. QED
    BY <1>0, <2>1, <2>2, <2>3, <2>4
<1>5. /\ after.list \in Seq(Block)
      /\ NoLoop(after.list)
      /\ ToSet(after.list) = after.mem
      /\ after.mem \subseteq ack_mem
      /\ \A b \in ack_mem \ after.mem : same(b)
      /\ IF tried >= NUM_OF_RETRIES
         THEN \A b \in after.mem : ~same(b)
         ELSE after.mem = ack_mem
  <2>1. CASE tried >= NUM_OF_RETRIES
    <3>1. after = found
      BY <2>1
    <3>2. /\ found.list \in Seq(Block)
          /\ NoLoop(found.list)
          /\ ToSet(found.list) = found.mem
          /\ found.mem \subseteq ack_mem
          /\ \A b \in ack_mem \ found.mem : same(b)
          /\ \A b \in found.mem : ~same(b)
      BY FindRemoveResult DEF IInv
    <3>. HIDE DEF found, same
    <3>. QED
      BY <2>1, <3>1, <3>2
  <2>2. CASE ~(tried >= NUM_OF_RETRIES)
    <3>1. after = kept
      BY <2>2
    <3>. HIDE DEF same
    <3>. QED
      BY <2>2, <3>1 DEF IInv, AckTypeOK, ListIsPool, Pending
  <2>. QED
    BY <2>1, <2>2
<1>. HIDE DEF after
<1>6. /\ entry' \in after.mem \cup {Null}
      /\ entry \notin after.mem => entry' = Null
  BY <1>3, <1>5, ItemNextOnList
<1>. QED
  BY <1>0, <1>2, <1>3, <1>4, <1>5, <1>6 DEF r

LEMMA RetryPreserves ==
    ASSUME IInv, RetryEntry
    PROVE  IInv'
<1>. DEFINE last == slot[entry].retries + 1 >= NUM_OF_RETRIES
<1>0. slot[entry] \in Slot
  <2>1. entry \in Block
    BY RetryResult
  <2>. QED
    BY <2>1 DEF IInv, AckTypeOK
<1>1. /\ ack_mem \subseteq Block
      /\ Pending = ack_mem
      /\ slot[entry].retries \in Nat
  <2>1. ack_mem \subseteq Block /\ Pending = ack_mem
    BY DEF IInv, AckTypeOK, ListIsPool
  <2>2. slot[entry].retries \in 0..255
    BY <1>0 DEF Slot
  <2>. QED
    BY <2>1, <2>2
<1>2. Pending' = ack_mem' /\ ack_mem' \subseteq ack_mem
  BY RetryResult DEF Pending
\* The block under the cursor does not stay past its limit.
<1>3. last => entry \notin ack_mem'
  BY RetryResult
<1>4. AckTypeOK'
  BY <1>1, RetryResult DEF AckTypeOK
<1>5. ListIsPool'
  BY <1>2, RetryResult DEF ListIsPool
<1>6. UniqueKeys'
  BY <1>1, <1>2, RetryResult DEF IInv, UniqueKeys
<1>7. RetryLeft'
  <2>. SUFFICES ASSUME NEW b \in ack_mem'
                PROVE  slot'[b].retries < NUM_OF_RETRIES
    BY <1>2 DEF RetryLeft
  <2>1. CASE b = entry
    <3>1. slot'[entry].retries = slot[entry].retries + 1
      BY RetryResult
    <3>. QED
      BY <1>1, <1>3, <2>1, <3>1, RetriesAssumption
  <2>2. CASE b # entry
    BY <1>1, <1>2, <2>2, RetryResult DEF IInv, RetryLeft
  <2>. QED
    BY <2>1, <2>2
<1>8. CursorRetryLeft'
  BY <1>2, <1>7, RetryResult DEF CursorRetryLeft, RetryLeft
<1>. QED
  BY <1>4, <1>5, <1>6, <1>7, <1>8 DEF IInv

LEMMA StutterPreserves ==
    ASSUME IInv, UNCHANGED ackVars
    PROVE  IInv'
BY DEF ackVars, IInv, AckTypeOK, ListIsPool, NoLoop, Pending, UniqueKeys,
       RetryLeft, CursorRetryLeft

LEMMA NextPreserves == IInv /\ [Next]_ackVars => IInv'
BY AddPreserves, ReceivePreserves, StartPreserves, RetryPreserves,
   StutterPreserves DEF Next

-----------------------------------------------------------------------------
\* The five parts of the invariant hold in every reachable state, whatever
\* the size of the pool, the retry limit and the traffic (krava.c:532-570,
\* 748-795).
THEOREM Invariance == Spec => []IInv
BY InitIInv, NextPreserves, PTL DEF Spec

\* The list and the pool never disagree: no leak, no double free, no loop.
THEOREM ListIsPoolHolds == Spec => []ListIsPool
<1>1. IInv => ListIsPool
  BY DEF IInv
<1>. QED
  BY <1>1, Invariance, PTL

\* An acknowledgement never has two entries to choose from.
THEOREM UniqueKeysHolds == Spec => []UniqueKeys
<1>1. IInv => UniqueKeys
  BY DEF IInv
<1>. QED
  BY <1>1, Invariance, PTL

\* No entry stays on the list once its counter has reached the limit
\* (krava.c:779-782).
THEOREM RetryLeftHolds == Spec => []RetryLeft
<1>1. IInv => RetryLeft
  BY DEF IInv
<1>. QED
  BY <1>1, Invariance, PTL

\* The counter of the block under the cursor, freed or not, never passes the
\* limit either (krava.c:769).
THEOREM CursorRetryLeftHolds == Spec => []CursorRetryLeft
<1>1. IInv => CursorRetryLeft
  BY DEF IInv
<1>. QED
  BY <1>1, Invariance, PTL

\* While the entry under the cursor is on the list, giving up takes out no other
\* (krava.c:779-782).
THEOREM GivesUpCountedHolds == Spec => GivesUpCounted
<1>1. ASSUME IInv, RetryEntry, entry \in Pending
      PROVE  Pending \ Pending' \subseteq {entry}
  <2>1. Pending = ack_mem /\ Pending' = ack_mem'
    BY <1>1, RetryResult DEF IInv, ListIsPool, Pending
  <2>2. \A b \in ack_mem \ ack_mem' :
           slot[b].id = slot[entry].id /\ slot[b].to = slot[entry].to
    BY <1>1, RetryResult
  <2>. QED
    BY <1>1, <2>1, <2>2 DEF IInv, UniqueKeys
<1>2. IInv => [RetryEntry /\ entry \in Pending
                 => Pending \ Pending' \subseteq {entry}]_ackVars
  BY <1>1
<1>. QED
  BY <1>2, Invariance, PTL DEF GivesUpCounted

\* The state stays well typed.
THEOREM TypeCorrect == Spec => []AckTypeOK
<1>1. IInv => AckTypeOK
  BY DEF IInv
<1>. QED
  BY <1>1, Invariance, PTL

-----------------------------------------------------------------------------
(* The inductive invariant of MoteDelivery.                                *)

DeliveryTypeOK ==
    /\ air \subseteq Msg
    /\ acks \subseteq Id \X Addr
    /\ received \subseteq Msg
    /\ fate \in [Msg -> Fates]
    /\ tx \in [Msg -> Nat]

\* What the block holds is a packet as Send and Retry know it.
Packed(b) ==
    /\ slot[b].id = IdOf[slot[b].msg]
    /\ slot[b].to = ToOf[slot[b].msg]
    /\ tx[slot[b].msg] > 0

\* A message is pending exactly as long as it has a block.
PendingHasBlock ==
    /\ \A b \in ack_mem : Packed(b) /\ fate[slot[b].msg] = "pending"
    /\ \A m \in Msg : fate[m] = "pending" => \E b \in ack_mem : slot[b].msg = m

\* The counter of the block says how often its message was sent, unless the
\* message may have been handed over twice.
RetriesCounted ==
    \A b \in ack_mem : slot[b].msg \notin Forwarded =>
        tx[slot[b].msg] = slot[b].retries + 1

\* A stale cursor still points at a packet, and at one that is over for good
\* unless the message may have been handed over again since.
CursorIsPacked ==
    entry # Null =>
        /\ Packed(entry)
        /\ fate[slot[entry].msg] = "pending" /\ slot[entry].msg \notin Forwarded
              => entry \in ack_mem

\* What is under way was sent, and is acknowledged only after a message with
\* that key arrived.
TrafficWasSent ==
    /\ \A m \in Msg : fate[m] = "new" <=> tx[m] = 0
    /\ \A m \in air : tx[m] > 0
    /\ \A m \in Msg : KeyOf(m) \in acks =>
           \E n \in received : KeyOf(n) = KeyOf(m)

DInv ==
    /\ IInv
    /\ DeliveryTypeOK
    /\ PendingHasBlock
    /\ RetriesCounted
    /\ CursorIsPacked
    /\ TrafficWasSent
    /\ ConfirmedWasReceived

\* What addToAckList leaves behind: the entries of its key are gone and, if a
\* block was free, one block holds the new packet and no other changes.
LEMMA AddResult ==
    ASSUME IInv, NEW to \in Addr, NEW id \in Id, NEW msg \in Msg,
           AddToAckList(to, id, msg)
    PROVE  LET mem == FindRemove(id, to).mem IN
           /\ entry' = entry
           /\ mem \subseteq ack_mem
           /\ \A b \in ack_mem \ mem : slot[b].id = id /\ slot[b].to = to
           /\ \A b \in mem : ~(slot[b].id = id /\ slot[b].to = to)
           /\ mem = Block => ack_mem' = mem /\ slot' = slot
           /\ mem # Block => \E b \in Block \ mem :
                 /\ ack_mem' = mem \cup {b}
                 /\ slot'[b] = [to |-> to, id |-> id, msg |-> msg, retries |-> 0]
                 /\ \A c \in Block \ {b} : slot'[c] = slot[c]
<1>. DEFINE after == FindRemove(id, to)
            b == FirstFree(after.mem)
            new == [to |-> to, id |-> id, msg |-> msg, retries |-> 0]
<1>1. /\ after.mem \subseteq ack_mem
      /\ \A c \in ack_mem \ after.mem : slot[c].id = id /\ slot[c].to = to
      /\ \A c \in after.mem : ~(slot[c].id = id /\ slot[c].to = to)
  BY FindRemoveResult DEF IInv
<1>2. Push(after.list, after.mem, to, id, msg) /\ entry' = entry
  BY DEF AddToAckList
<1>. HIDE DEF after
<1>3. CASE after.mem = Block
  <2>1. ack_mem' = after.mem /\ slot' = slot
    BY <1>2, <1>3 DEF Push
  <2>. QED
    BY <1>1, <1>2, <1>3, <2>1 DEF after
<1>4. CASE after.mem # Block
  <2>1. b \in Block \ after.mem
    BY <1>1, <1>4, FirstFreeIsFree DEF IInv, AckTypeOK
  <2>2. ack_mem' = after.mem \cup {b} /\ slot' = [slot EXCEPT ![b] = new]
    BY <1>2, <1>4 DEF Push
  <2>. HIDE DEF b
  <2>3. slot'[b] = new /\ \A c \in Block \ {b} : slot'[c] = slot[c]
    BY <2>1, <2>2 DEF IInv, AckTypeOK
  <2>. QED
    BY <1>1, <1>2, <1>4, <2>1, <2>2, <2>3 DEF after
<1>. QED
  BY <1>3, <1>4

\* A packet has the key of a message exactly if its own message has.
LEMMA PackedKey ==
    ASSUME NEW b, Packed(b), NEW m
    PROVE  /\ slot[b].id = IdOf[m] /\ slot[b].to = ToOf[m]
                 <=> KeyOf(slot[b].msg) = KeyOf(m)
           /\ KeyOf(slot[b].msg) = <<slot[b].id, slot[b].to>>
BY DEF Packed, KeyOf

\* No two blocks handed out hold messages of one key.
LEMMA OneBlockPerKey ==
    ASSUME DInv, NEW b \in ack_mem, NEW c \in ack_mem,
           KeyOf(slot[b].msg) = KeyOf(slot[c].msg)
    PROVE  b = c
<1>1. Packed(b) /\ Packed(c)
  BY DEF DInv, PendingHasBlock
<1>2. slot[b].id = slot[c].id /\ slot[b].to = slot[c].to
  BY <1>1 DEF KeyOf, Packed
<1>. QED
  BY <1>2 DEF DInv, IInv, ListIsPool, UniqueKeys

LEMMA InitDInv == DInit => DInv /\ Reliable!Init
<1>. SUFFICES ASSUME DInit PROVE DInv /\ Reliable!Init
  OBVIOUS
<1>1. IInv /\ ack_mem = {} /\ entry = Null
  BY InitIInv DEF DInit, Init, AckInit
<1>2. DeliveryTypeOK /\ TrafficWasSent
  BY DEF DInit, DeliveryTypeOK, Fates, TrafficWasSent
<1>3. PendingHasBlock /\ RetriesCounted /\ CursorIsPacked
  BY <1>1 DEF DInit, PendingHasBlock, RetriesCounted, CursorIsPacked
<1>4. ConfirmedWasReceived
  BY DEF DInit, ConfirmedWasReceived
<1>5. Reliable!Init
  BY DEF DInit, Reliable!Init
<1>. QED
  BY <1>1, <1>2, <1>3, <1>4, <1>5 DEF DInv

\* Every block, handed out or not, holds a message.
LEMMA BlocksHoldMessages ==
    ASSUME IInv
    PROVE  /\ \A b \in Block : slot[b].msg \in Msg
           /\ ack_mem \subseteq Block
           /\ entry # Null => entry \in Block
<1>1. \A b \in Block : slot[b] \in Slot
  BY DEF IInv, AckTypeOK
<1>2. \A b \in Block : slot[b].msg \in Msg
  BY <1>1 DEF Slot
<1>. QED
  BY <1>2 DEF IInv, AckTypeOK

-----------------------------------------------------------------------------
(* Each step keeps the invariant and is one of ReliableSend, or none.      *)

\* Sending a message takes the entry of its key off the list: its own, or that
\* of a twin, which is superseded.
LEMMA SendSubmits ==
    ASSUME DInv, NEW m \in Msg, Send(m)
    PROVE  DInv' /\ Reliable!Submit(m)
<1>. DEFINE mem == FindRemove(IdOf[m], ToOf[m]).mem
            stored == IF mem = Block THEN "untracked" ELSE "pending"
            new == [to |-> ToOf[m], id |-> IdOf[m], msg |-> m, retries |-> 0]
<1>1. /\ IdOf[m] \in Id
      /\ ToOf[m] \in Addr
      /\ AddToAckList(ToOf[m], IdOf[m], m)
  BY RoutingAssumption DEF Send
<1>2. IInv /\ IInv'
  BY <1>1, AddPreserves DEF DInv
<1>3. /\ fate[m] = "new" \/ m \in Forwarded
      /\ air' = air \cup {m}
      /\ fate' = [n \in Msg |-> IF n = m THEN stored
                                ELSE IF n \in Leaving(mem) THEN "superseded"
                                ELSE fate[n]]
      /\ tx' = [tx EXCEPT ![m] = 1]
      /\ UNCHANGED <<acks, received>>
  BY DEF Send
<1>4. /\ entry' = entry
      /\ mem \subseteq ack_mem
      /\ \A b \in ack_mem \ mem : slot[b].id = IdOf[m] /\ slot[b].to = ToOf[m]
      /\ \A b \in mem : ~(slot[b].id = IdOf[m] /\ slot[b].to = ToOf[m])
      /\ mem = Block => ack_mem' = mem /\ slot' = slot
      /\ mem # Block => \E b \in Block \ mem :
            /\ ack_mem' = mem \cup {b}
            /\ slot'[b] = new
            /\ \A c \in Block \ {b} : slot'[c] = slot[c]
  BY <1>1, <1>2, AddResult
<1>. HIDE DEF mem
<1>5. \A b \in ack_mem : Packed(b) /\ fate[slot[b].msg] = "pending"
  BY DEF DInv, PendingHasBlock
<1>6. /\ \A b \in mem : KeyOf(slot[b].msg) # KeyOf(m)
      /\ \A b \in ack_mem \ mem : KeyOf(slot[b].msg) = KeyOf(m)
  BY <1>4, <1>5, PackedKey
<1>7. /\ \A b \in Block : slot[b].msg \in Msg
      /\ ack_mem \subseteq Block
      /\ entry # Null => entry \in Block
  BY <1>2, BlocksHoldMessages
\* The twins that wait are those whose entries the search takes out.
<1>8. /\ fate \in [Msg -> Fates]
      /\ fate'[m] = stored
      /\ \A n \in Msg \ {m} : fate'[n] = IF KeyOf(n) = KeyOf(m) /\ fate[n] = "pending"
                                         THEN "superseded" ELSE fate[n]
      /\ fate' \in [Msg -> Fates]
  <2>1. ASSUME NEW n \in Msg
        PROVE  n \in Leaving(mem) <=> KeyOf(n) = KeyOf(m) /\ fate[n] = "pending"
    <3>1. ASSUME n \in Leaving(mem)
          PROVE  KeyOf(n) = KeyOf(m) /\ fate[n] = "pending"
      <4>1. PICK b \in ack_mem \ mem : slot[b].msg = n
        BY <3>1 DEF Leaving
      <4>. QED
        BY <1>5, <1>6, <4>1
    <3>2. ASSUME KeyOf(n) = KeyOf(m), fate[n] = "pending"
          PROVE  n \in Leaving(mem)
      <4>1. PICK b \in ack_mem : slot[b].msg = n
        BY <3>2 DEF DInv, PendingHasBlock
      <4>2. b \notin mem
        BY <1>6, <3>2, <4>1
      <4>. QED
        BY <4>1, <4>2 DEF Leaving
    <3>. QED
      BY <3>1, <3>2
  <2>2. fate \in [Msg -> Fates] /\ stored \in Fates
    BY DEF DInv, DeliveryTypeOK, Fates
  <2>. HIDE DEF stored
  <2>3. \A n \in Msg : fate'[n] = IF n = m THEN stored
                                 ELSE IF n \in Leaving(mem) THEN "superseded"
                                 ELSE fate[n]
    BY <1>3
  <2>4. "superseded" \in Fates
    BY DEF Fates
  <2>5. fate' \in [Msg -> Fates]
    BY <1>3, <2>2, <2>4
  <2>. QED
    BY <2>1, <2>2, <2>3, <2>5
<1>9. /\ tx' \in [Msg -> Nat]
      /\ tx'[m] = 1
      /\ \A n \in Msg \ {m} : tx'[n] = tx[n]
      /\ \A n \in Msg : tx[n] > 0 => tx'[n] > 0
  BY <1>3 DEF DInv, DeliveryTypeOK
<1>10. stored \in {"untracked", "pending"}
  OBVIOUS
<1>11. DeliveryTypeOK' /\ ConfirmedWasReceived'
  BY <1>3, <1>8, <1>9, <1>10 DEF DInv, DeliveryTypeOK, ConfirmedWasReceived
<1>12. TrafficWasSent'
  <2>1. \A n \in Msg : fate'[n] = "new" <=> tx'[n] = 0
    BY <1>3, <1>8, <1>9, <1>10 DEF DInv, DeliveryTypeOK, TrafficWasSent
  <2>2. \A n \in air' : tx'[n] > 0
    BY <1>3, <1>9 DEF DInv, DeliveryTypeOK, TrafficWasSent
  <2>. QED
    BY <1>3, <2>1, <2>2 DEF DInv, TrafficWasSent
\* What is left on the list is as it was.
<1>13. \A b \in mem : /\ Packed(b)
                      /\ slot[b].msg # m
                      /\ fate'[slot[b].msg] = "pending"
                      /\ tx'[slot[b].msg] = tx[slot[b].msg]
  BY <1>4, <1>5, <1>6, <1>7, <1>8, <1>9
<1>14. \A n \in Msg \ {m} : fate'[n] = "pending" => \E b \in mem : slot[b].msg = n
  <2>. SUFFICES ASSUME NEW n \in Msg \ {m}, fate'[n] = "pending"
                PROVE  \E b \in mem : slot[b].msg = n
    OBVIOUS
  <2>1. fate[n] = "pending" /\ KeyOf(n) # KeyOf(m)
    BY <1>8
  <2>2. PICK b \in ack_mem : slot[b].msg = n
    BY <2>1 DEF DInv, PendingHasBlock
  <2>. QED
    BY <1>6, <2>1, <2>2
\* A stale cursor does not point at the message unless it is sent again.
<1>15. ASSUME entry # Null, slot[entry].msg \notin Forwarded,
              fate'[slot[entry].msg] = "pending"
       PROVE  entry \in mem
  <2>1. slot[entry].msg # m
    BY <1>3, <1>7, <1>15 DEF DInv, CursorIsPacked, Packed, TrafficWasSent
  <2>2. fate[slot[entry].msg] = "pending" /\ KeyOf(slot[entry].msg) # KeyOf(m)
    BY <1>7, <1>8, <1>15, <2>1
  <2>. QED
    BY <1>6, <1>15, <2>2 DEF DInv, CursorIsPacked
<1>16. PendingHasBlock' /\ RetriesCounted' /\ CursorIsPacked'
  <2>1. CASE mem = Block
    <3>1. ack_mem' = mem /\ slot' = slot /\ stored = "untracked"
      BY <1>4, <2>1
    <3>2. PendingHasBlock'
      BY <1>4, <1>7, <1>8, <1>9, <1>13, <1>14, <3>1 DEF PendingHasBlock, Packed
    <3>3. RetriesCounted'
      BY <1>4, <1>13, <3>1 DEF DInv, RetriesCounted
    <3>4. CursorIsPacked'
      BY <1>4, <1>7, <1>9, <1>15, <3>1 DEF DInv, CursorIsPacked, Packed
    <3>. QED
      BY <3>2, <3>3, <3>4
  <2>2. CASE mem # Block
    <3>1. PICK b \in Block \ mem :
             /\ ack_mem' = mem \cup {b}
             /\ slot'[b] = new
             /\ \A c \in Block \ {b} : slot'[c] = slot[c]
      BY <1>4, <2>2
    <3>2. /\ slot'[b].id = IdOf[m]
          /\ slot'[b].to = ToOf[m]
          /\ slot'[b].msg = m
          /\ slot'[b].retries = 0
          /\ fate'[m] = "pending"
      BY <1>8, <2>2, <3>1
    <3>3. \A c \in mem : slot'[c] = slot[c]
      BY <1>4, <1>7, <3>1
    <3>4. PendingHasBlock'
      <4>1. \A c \in ack_mem' : Packed(c)' /\ fate'[slot'[c].msg] = "pending"
        BY <1>9, <1>13, <3>1, <3>2, <3>3 DEF Packed
      <4>2. \A n \in Msg : fate'[n] = "pending"
                             => \E c \in ack_mem' : slot'[c].msg = n
        BY <1>14, <3>1, <3>2, <3>3
      <4>. QED
        BY <4>1, <4>2 DEF PendingHasBlock
    <3>5. RetriesCounted'
      BY <1>4, <1>9, <1>13, <3>1, <3>2, <3>3 DEF DInv, RetriesCounted
    <3>6. CursorIsPacked'
      <4>1. CASE entry = b
        BY <1>4, <1>9, <3>1, <3>2, <4>1 DEF CursorIsPacked, Packed
      <4>2. CASE entry # b
        <5>1. entry # Null => slot'[entry] = slot[entry]
          BY <1>7, <3>1, <4>2
        <5>. QED
          BY <1>4, <1>7, <1>9, <1>15, <3>1, <5>1
             DEF DInv, CursorIsPacked, Packed
      <4>. QED
        BY <4>1, <4>2
    <3>. QED
      BY <3>4, <3>5, <3>6
  <2>. QED
    BY <2>1, <2>2
<1>17. Reliable!Submit(m)
  <2>1. fate' = [n \in Msg |->
            IF n = m THEN stored
            ELSE IF n \in Reliable!Twins(m) /\ fate[n] = "pending" THEN "superseded"
            ELSE fate[n]]
    BY <1>8 DEF Reliable!Twins
  <2>. HIDE DEF stored
  <2>. QED
    BY <1>3, <1>10, <2>1 DEF Reliable!Submit
<1>. QED
  BY <1>2, <1>11, <1>12, <1>16, <1>17 DEF DInv

\* A copy that reaches its destination is one of a message that was sent.
LEMMA DeliverArrives ==
    ASSUME DInv, NEW m \in Msg, Deliver(m)
    PROVE  DInv' /\ Reliable!Arrive(m)
<1>1. /\ m \in air
      /\ received' = received \cup {m}
      /\ acks' = acks \cup {KeyOf(m)}
      /\ UNCHANGED <<ackVars, air, fate, tx>>
  BY DEF Deliver
<1>2. IInv'
  BY <1>1, StutterPreserves DEF DInv
<1>3. DeliveryTypeOK'
  BY <1>1, RoutingAssumption DEF DInv, DeliveryTypeOK, KeyOf
<1>4. PendingHasBlock' /\ RetriesCounted' /\ CursorIsPacked'
  BY <1>1 DEF ackVars, DInv, PendingHasBlock, RetriesCounted, CursorIsPacked,
              Packed
<1>5. TrafficWasSent'
  <2>1. ASSUME NEW n \in Msg, KeyOf(n) \in acks'
        PROVE  \E k \in received' : KeyOf(k) = KeyOf(n)
    BY <1>1, <2>1 DEF DInv, TrafficWasSent
  <2>. QED
    BY <1>1, <2>1 DEF DInv, TrafficWasSent
<1>6. ConfirmedWasReceived'
  BY <1>1 DEF DInv, ConfirmedWasReceived
<1>7. Reliable!Arrive(m)
  BY <1>1 DEF DInv, TrafficWasSent, Reliable!Arrive
<1>. QED
  BY <1>2, <1>3, <1>4, <1>5, <1>6, <1>7 DEF DInv

\* An acknowledgement, however old, confirms the message of its key that is
\* pending, if there is one, and nothing otherwise.
LEMMA RecvAckConfirms ==
    ASSUME DInv, NEW id \in Id, NEW from \in Addr, RecvAck(id, from)
    PROVE  /\ DInv'
           /\ \/ \E m \in Msg : Reliable!Confirm(m)
              \/ UNCHANGED <<fate, tx, received>>
<1>. DEFINE mem == FindRemove(id, from).mem
<1>1. /\ <<id, from>> \in acks
      /\ ReceiveAck(id, from)
      /\ fate' = [n \in Msg |-> IF n \in Leaving(mem) THEN "confirmed"
                                ELSE fate[n]]
      /\ UNCHANGED <<air, acks, received, tx>>
  BY DEF RecvAck
<1>2. IInv /\ IInv'
  BY <1>1, ReceivePreserves DEF DInv
<1>3. ack_mem' = mem /\ slot' = slot /\ entry' = entry
  BY <1>1 DEF ReceiveAck
<1>4. /\ mem \subseteq ack_mem
      /\ \A b \in ack_mem \ mem : slot[b].id = id /\ slot[b].to = from
      /\ \A b \in mem : ~(slot[b].id = id /\ slot[b].to = from)
  BY <1>2, FindRemoveResult DEF IInv
<1>. HIDE DEF mem
<1>5. /\ \A b \in Block : slot[b].msg \in Msg
      /\ ack_mem \subseteq Block
      /\ entry # Null => entry \in Block
      /\ fate \in [Msg -> Fates]
  BY <1>2, BlocksHoldMessages DEF DInv, DeliveryTypeOK
<1>6. CASE ack_mem = mem
  <2>1. Leaving(mem) = {}
    BY <1>6 DEF Leaving
  <2>2. fate' = fate
    BY <1>1, <1>5, <2>1
  <2>3. DeliveryTypeOK' /\ PendingHasBlock' /\ RetriesCounted' /\ CursorIsPacked'
    BY <1>1, <1>3, <1>6, <2>2
       DEF DInv, DeliveryTypeOK, PendingHasBlock, RetriesCounted,
           CursorIsPacked, Packed
  <2>4. TrafficWasSent' /\ ConfirmedWasReceived'
    BY <1>1, <2>2 DEF DInv, TrafficWasSent, ConfirmedWasReceived
  <2>. QED
    BY <1>1, <1>2, <2>2, <2>3, <2>4 DEF DInv
<1>7. CASE ack_mem # mem
  <2>1. PICK b \in ack_mem \ mem : TRUE
    BY <1>4, <1>7
  <2>. DEFINE m == slot[b].msg
  <2>2. /\ m \in Msg
        /\ id = IdOf[m] /\ from = ToOf[m]
        /\ fate[m] = "pending"
    BY <1>4, <1>5, <2>1 DEF DInv, PendingHasBlock, Packed
  <2>3. \E n \in received : KeyOf(n) = KeyOf(m)
    <3>1. KeyOf(m) \in acks
      BY <1>1, <2>2 DEF KeyOf
    <3>. QED
      BY <2>2, <3>1 DEF DInv, TrafficWasSent
  <2>4. \A c \in ack_mem \ mem : slot[c].msg = m
    <3>1. ASSUME NEW c \in ack_mem \ mem PROVE c = b
      BY <1>2, <1>4, <2>1 DEF IInv, ListIsPool, UniqueKeys
    <3>. QED
      BY <3>1
  <2>5. \A c \in mem : slot[c].msg # m
    BY <1>4, <2>2 DEF DInv, PendingHasBlock, Packed
  <2>6. Leaving(mem) = {m}
    BY <2>1, <2>4 DEF Leaving
  <2>. HIDE DEF m
  <2>7. /\ fate' = [fate EXCEPT ![m] = "confirmed"]
        /\ fate'[m] = "confirmed"
        /\ \A n \in Msg \ {m} : fate'[n] = fate[n]
        /\ fate' \in [Msg -> Fates]
    BY <1>1, <1>5, <2>2, <2>6 DEF Fates
  <2>8. DeliveryTypeOK'
    BY <1>1, <2>7 DEF DInv, DeliveryTypeOK
  <2>9. PendingHasBlock'
    BY <1>1, <1>3, <1>4, <1>5, <2>4, <2>5, <2>7 DEF DInv, PendingHasBlock, Packed
  <2>10. RetriesCounted'
    BY <1>1, <1>3, <1>4 DEF DInv, RetriesCounted
  <2>11. CursorIsPacked'
    BY <1>1, <1>3, <1>4, <1>5, <2>4, <2>7 DEF DInv, CursorIsPacked, Packed
  <2>12. TrafficWasSent' /\ ConfirmedWasReceived'
    BY <1>1, <2>2, <2>3, <2>7 DEF DInv, TrafficWasSent, ConfirmedWasReceived
  <2>13. Reliable!Confirm(m)
    BY <1>1, <2>2, <2>3, <2>7 DEF Reliable!Confirm
  <2>. QED
    BY <1>2, <2>2, <2>8, <2>9, <2>10, <2>11, <2>12, <2>13 DEF DInv
<1>. QED
  BY <1>6, <1>7

\* The start of a round is invisible to ReliableSend.
LEMMA BeginRoundPreserves ==
    ASSUME DInv, BeginRound
    PROVE  DInv' /\ UNCHANGED <<fate, tx, received>>
<1>1. /\ StartRound
      /\ UNCHANGED <<ack_list, ack_mem, slot, air, acks, received, fate, tx>>
  BY DEF BeginRound, StartRound
<1>2. IInv /\ IInv'
  BY <1>1, StartPreserves DEF DInv
<1>3. entry' \in ack_mem
  <2>1. entry' = ack_list[1] /\ 1 \in DOMAIN ack_list
    BY <1>1, <1>2, LenProperties DEF IInv, AckTypeOK, StartRound, Backlog
  <2>. QED
    BY <1>2, <2>1 DEF IInv, ListIsPool, Pending, ToSet
<1>4. DeliveryTypeOK' /\ PendingHasBlock' /\ RetriesCounted'
  BY <1>1 DEF DInv, DeliveryTypeOK, PendingHasBlock, RetriesCounted, Packed
<1>5. CursorIsPacked'
  BY <1>1, <1>3 DEF DInv, PendingHasBlock, CursorIsPacked, Packed
<1>6. TrafficWasSent' /\ ConfirmedWasReceived'
  BY <1>1 DEF DInv, TrafficWasSent, ConfirmedWasReceived
<1>. QED
  BY <1>1, <1>2, <1>4, <1>5, <1>6 DEF DInv

\* A retry repeats the message under the cursor, for the last time if its
\* counter says so.  A cursor gone stale repeats a message that is over, which
\* ReliableSend does not see, or one that was handed over again, and at the
\* limit it may take out a twin.
LEMMA RetryRepeats ==
    ASSUME DInv, Retry
    PROVE  /\ DInv'
           /\ \/ \E m \in Msg : \/ Reliable!Repeat(m)
                               \/ Reliable!LastRepeat(m)
                               \/ Reliable!CutShort(m)
              \/ UNCHANGED <<fate, tx, received>>
<1>. DEFINE m == slot[entry].msg
            tried == slot[entry].retries + 1
<1>1. /\ RetryEntry
      /\ air' = air \cup {m}
      /\ tx' = IF fate[m] = "pending" THEN [tx EXCEPT ![m] = @ + 1] ELSE tx
      /\ fate' = [n \in Msg |-> IF n \in Leaving(ack_mem') THEN "given_up"
                                ELSE fate[n]]
      /\ UNCHANGED <<acks, received>>
  BY DEF Retry
<1>2. IInv /\ IInv'
  BY <1>1, RetryPreserves DEF DInv
<1>3. /\ entry \in Block /\ entry # Null
      /\ slot'[entry].retries = tried
      /\ \A b \in Block : /\ slot'[b].id = slot[b].id
                          /\ slot'[b].to = slot[b].to
                          /\ slot'[b].msg = slot[b].msg
      /\ \A b \in Block \ {entry} : slot'[b].retries = slot[b].retries
      /\ ack_mem' \subseteq ack_mem
      /\ \A b \in ack_mem \ ack_mem' :
            slot[b].id = slot[entry].id /\ slot[b].to = slot[entry].to
      /\ IF tried >= NUM_OF_RETRIES
         THEN \A b \in ack_mem' :
            ~(slot[b].id = slot[entry].id /\ slot[b].to = slot[entry].to)
         ELSE ack_mem' = ack_mem
      /\ entry' \in ack_mem' \cup {Null}
  BY <1>1, <1>2, RetryResult
<1>4. tried \in Nat /\ tried <= NUM_OF_RETRIES /\ NUM_OF_RETRIES \in Nat
  <2>1. slot[entry] \in Slot
    BY <1>2, <1>3 DEF IInv, AckTypeOK
  <2>2. slot[entry].retries \in 0..255
    BY <2>1 DEF Slot
  <2>3. slot[entry].retries < NUM_OF_RETRIES
    BY <1>2, <1>3 DEF IInv, CursorRetryLeft
  <2>. DEFINE r == slot[entry].retries
  <2>4. r \in 0..255 /\ r < NUM_OF_RETRIES /\ tried = r + 1
    BY <2>2, <2>3
  <2>. HIDE DEF r, tried
  <2>. QED
    BY <2>4, RetriesAssumption
<1>. HIDE DEF tried
<1>5. /\ \A b \in Block : slot[b].msg \in Msg
      /\ ack_mem \subseteq Block
      /\ m \in Msg
      /\ fate \in [Msg -> Fates]
      /\ tx \in [Msg -> Nat]
  BY <1>2, <1>3, BlocksHoldMessages DEF DInv, DeliveryTypeOK
<1>6. slot[entry].id = IdOf[m] /\ slot[entry].to = ToOf[m] /\ tx[m] > 0
  BY <1>3 DEF DInv, CursorIsPacked, Packed
<1>. HIDE DEF m
<1>7. \A b \in ack_mem : (slot[b].id = slot[entry].id /\ slot[b].to = slot[entry].to)
                            <=> KeyOf(slot[b].msg) = KeyOf(m)
  <2>1. \A b \in ack_mem : Packed(b)
    BY DEF DInv, PendingHasBlock
  <2>. QED
    BY <1>6, <2>1, PackedKey
<1>8. \A b \in ack_mem : Packed(b) /\ fate[slot[b].msg] = "pending"
  BY DEF DInv, PendingHasBlock
<1>9. /\ tx' \in [Msg -> Nat]
      /\ \A n \in Msg : tx[n] > 0 => tx'[n] > 0
      /\ \A n \in Msg \ {m} : tx'[n] = tx[n]
      /\ fate[m] = "pending" => tx'[m] = tx[m] + 1
  <2>1. CASE fate[m] = "pending"
    BY <1>1, <1>5, <2>1
  <2>2. CASE fate[m] # "pending"
    BY <1>1, <1>5, <2>2
  <2>. QED
    BY <2>1, <2>2
\* The message itself is given up, at its limit and while it is pending.
<1>10. CASE fate[m] = "pending" /\ tried >= NUM_OF_RETRIES
  <2>1. PICK b \in ack_mem : slot[b].msg = m
    BY <1>5, <1>10 DEF DInv, PendingHasBlock
  <2>2. /\ b \notin ack_mem'
        /\ \A c \in ack_mem \ ack_mem' : slot[c].msg = m
        /\ \A c \in ack_mem' : slot[c].msg # m
    <3>1. b \notin ack_mem' /\ \A c \in ack_mem' : slot[c].msg # m
      BY <1>3, <1>7, <1>10, <2>1
    <3>2. ASSUME NEW c \in ack_mem \ ack_mem'
          PROVE  slot[c].msg = m
      <4>1. KeyOf(slot[c].msg) = KeyOf(slot[b].msg)
        BY <1>3, <1>7, <2>1
      <4>2. c = b
        BY <2>1, <4>1, OneBlockPerKey
      <4>. QED
        BY <2>1, <4>2
    <3>. QED
      BY <3>1, <3>2
  <2>3. Leaving(ack_mem') = {m}
    BY <2>1, <2>2 DEF Leaving
  <2>4. /\ fate' = [fate EXCEPT ![m] = "given_up"]
        /\ fate'[m] = "given_up"
        /\ \A n \in Msg \ {m} : fate'[n] = fate[n]
        /\ fate' \in [Msg -> Fates]
    BY <1>1, <1>5, <2>3 DEF Fates
  <2>5. tx' = [tx EXCEPT ![m] = @ + 1]
    BY <1>1, <1>10
  <2>6. tx[m] = NUM_OF_RETRIES \/ m \in Forwarded
    <3>1. tried = NUM_OF_RETRIES
      BY <1>4, <1>10
    <3>2. m \notin Forwarded => entry \in ack_mem
      BY <1>3, <1>10 DEF DInv, CursorIsPacked, m
    <3>3. m \notin Forwarded => tx[m] = tried
      BY <3>2 DEF DInv, RetriesCounted, m, tried
    <3>. QED
      BY <3>1, <3>3
  <2>7. Reliable!LastRepeat(m)
    BY <1>1, <1>10, <2>4, <2>5, <2>6 DEF Reliable!LastRepeat
  <2>8. DeliveryTypeOK'
    BY <1>1, <1>5, <1>9, <2>4 DEF DInv, DeliveryTypeOK
  <2>9. PendingHasBlock'
    <3>1. \A c \in ack_mem' : Packed(c)' /\ fate'[slot'[c].msg] = "pending"
      BY <1>3, <1>5, <1>8, <1>9, <2>2, <2>4 DEF Packed
    <3>2. \A n \in Msg : fate'[n] = "pending"
                           => \E c \in ack_mem' : slot'[c].msg = n
      BY <1>3, <1>5, <2>2, <2>4 DEF DInv, PendingHasBlock
    <3>. QED
      BY <3>1, <3>2 DEF PendingHasBlock
  <2>10. RetriesCounted'
    <3>1. \A c \in ack_mem' : c # entry
      BY <1>3, <1>10
    <3>. QED
      BY <1>3, <1>5, <1>9, <2>2, <3>1 DEF DInv, RetriesCounted
  <2>11. CursorIsPacked'
    BY <1>3, <2>9 DEF PendingHasBlock, CursorIsPacked
  <2>12. TrafficWasSent' /\ ConfirmedWasReceived'
    BY <1>1, <1>5, <1>6, <1>9, <2>4
       DEF DInv, DeliveryTypeOK, TrafficWasSent, ConfirmedWasReceived
  <2>. QED
    BY <1>2, <1>5, <2>7, <2>8, <2>9, <2>10, <2>11, <2>12 DEF DInv
\* A stale cursor at its limit takes out a twin that waits.
<1>11. CASE ack_mem' # ack_mem /\ ~(fate[m] = "pending" /\ tried >= NUM_OF_RETRIES)
  <2>1. tried >= NUM_OF_RETRIES /\ fate[m] # "pending"
    BY <1>3, <1>11
  <2>2. PICK b \in ack_mem : b \notin ack_mem'
    BY <1>3, <1>11
  <2>. DEFINE n == slot[b].msg
  <2>3. /\ n \in Msg
        /\ KeyOf(n) = KeyOf(m)
        /\ fate[n] = "pending"
        /\ n # m
    BY <1>3, <1>5, <1>7, <1>8, <2>1, <2>2
  <2>4. \A c \in ack_mem \ ack_mem' : slot[c].msg = n
    <3>. SUFFICES ASSUME NEW c \in ack_mem \ ack_mem' PROVE c = b
      OBVIOUS
    <3>1. KeyOf(slot[c].msg) = KeyOf(slot[b].msg)
      BY <1>3, <1>7, <2>3
    <3>. QED
      BY <3>1, OneBlockPerKey
  <2>5. \A c \in ack_mem' : slot[c].msg # n
    BY <1>3, <1>7, <2>1, <2>3
  <2>6. Leaving(ack_mem') = {n}
    BY <2>2, <2>4 DEF Leaving
  <2>. HIDE DEF n
  <2>7. /\ fate' = [fate EXCEPT ![n] = "given_up"]
        /\ fate'[n] = "given_up"
        /\ \A k \in Msg \ {n} : fate'[k] = fate[k]
        /\ fate' \in [Msg -> Fates]
    BY <1>1, <1>5, <2>3, <2>6 DEF Fates
  <2>8. tx' = tx
    BY <1>1, <2>1
  <2>9. fate[m] \notin {"new", "pending"}
    BY <1>5, <1>6, <2>1 DEF DInv, TrafficWasSent
  <2>10. Reliable!CutShort(n)
    <3>1. m \in Reliable!Twins(n)
      BY <1>5, <2>3 DEF Reliable!Twins
    <3>. QED
      BY <1>1, <2>3, <2>7, <2>8, <2>9, <3>1 DEF Reliable!CutShort
  <2>11. DeliveryTypeOK'
    BY <1>1, <1>5, <2>7, <2>8 DEF DInv, DeliveryTypeOK
  <2>12. PendingHasBlock'
    <3>1. \A c \in ack_mem' : Packed(c)' /\ fate'[slot'[c].msg] = "pending"
      BY <1>3, <1>5, <1>8, <2>5, <2>7, <2>8 DEF Packed
    <3>2. \A k \in Msg : fate'[k] = "pending"
                           => \E c \in ack_mem' : slot'[c].msg = k
      BY <1>3, <1>5, <2>4, <2>7 DEF DInv, PendingHasBlock
    <3>. QED
      BY <3>1, <3>2 DEF PendingHasBlock
  <2>13. RetriesCounted'
    <3>1. entry \notin ack_mem
      BY <1>8, <2>1 DEF m
    <3>. QED
      BY <1>3, <1>5, <2>8, <3>1 DEF DInv, RetriesCounted
  <2>14. CursorIsPacked'
    BY <1>3, <2>12 DEF PendingHasBlock, CursorIsPacked
  <2>15. TrafficWasSent' /\ ConfirmedWasReceived'
    <3>1. tx[n] > 0
      BY <1>8, <2>2 DEF Packed, n
    <3>. QED
      BY <1>1, <1>5, <1>6, <2>3, <2>7, <2>8, <3>1
         DEF DInv, DeliveryTypeOK, TrafficWasSent, ConfirmedWasReceived
  <2>. QED
    BY <1>2, <2>3, <2>10, <2>11, <2>12, <2>13, <2>14, <2>15 DEF DInv
<1>12. CASE ack_mem' = ack_mem /\ ~(fate[m] = "pending" /\ tried >= NUM_OF_RETRIES)
  <2>1. ack_mem' = ack_mem
    BY <1>12
  <2>2. fate' = fate
    <3>1. Leaving(ack_mem') = {}
      BY <2>1 DEF Leaving
    <3>. QED
      BY <1>1, <1>5, <3>1
  <2>3. fate[m] = "pending" => Reliable!Repeat(m)
    <3>. SUFFICES ASSUME fate[m] = "pending" PROVE Reliable!Repeat(m)
      OBVIOUS
    <3>1. m \notin Forwarded => entry \in ack_mem
      BY <1>3 DEF DInv, CursorIsPacked, m
    <3>2. m \notin Forwarded => tx[m] = tried
      BY <3>1 DEF DInv, RetriesCounted, m, tried
    <3>3. tx[m] < NUM_OF_RETRIES \/ m \in Forwarded
      BY <1>4, <1>12, <3>2
    <3>. QED
      BY <1>1, <2>2, <3>3 DEF Reliable!Repeat
  <2>4. fate[m] # "pending" => UNCHANGED <<fate, tx, received>>
    BY <1>1, <2>2
  <2>5. DeliveryTypeOK'
    BY <1>1, <1>5, <1>9, <2>2 DEF DInv, DeliveryTypeOK
  <2>6. PendingHasBlock'
    <3>1. \A c \in ack_mem' : Packed(c)' /\ fate'[slot'[c].msg] = "pending"
      BY <1>3, <1>5, <1>8, <1>9, <2>1, <2>2 DEF Packed
    <3>2. \A n \in Msg : fate'[n] = "pending"
                           => \E c \in ack_mem' : slot'[c].msg = n
      BY <1>3, <1>5, <2>1, <2>2 DEF DInv, PendingHasBlock
    <3>. QED
      BY <3>1, <3>2 DEF PendingHasBlock
  <2>7. RetriesCounted'
    <3>. SUFFICES ASSUME NEW c \in ack_mem, slot[c].msg \notin Forwarded
                  PROVE  tx'[slot[c].msg] = slot'[c].retries + 1
      BY <1>3, <1>5, <2>1 DEF RetriesCounted
    <3>1. tx[slot[c].msg] = slot[c].retries + 1
      BY DEF DInv, RetriesCounted
    <3>2. CASE slot[c].msg = m
      <4>1. fate[m] = "pending"
        BY <1>8, <3>2
      <4>2. entry \in ack_mem
        BY <1>3, <3>2, <4>1 DEF DInv, CursorIsPacked, m
      <4>3. c = entry
        BY <3>2, <4>2, OneBlockPerKey DEF m
      <4>. QED
        BY <1>3, <1>5, <1>9, <3>1, <3>2, <4>1, <4>3 DEF tried
    <3>3. CASE slot[c].msg # m
      <4>1. c # entry
        BY <3>3 DEF m
      <4>. QED
        BY <1>3, <1>5, <1>9, <3>1, <3>3, <4>1
    <3>. QED
      BY <3>2, <3>3
  <2>8. CursorIsPacked'
    BY <1>3, <2>6 DEF PendingHasBlock, CursorIsPacked
  <2>9. TrafficWasSent' /\ ConfirmedWasReceived'
    BY <1>1, <1>5, <1>6, <1>9, <2>2
       DEF DInv, DeliveryTypeOK, TrafficWasSent, ConfirmedWasReceived
  <2>. QED
    BY <1>2, <1>5, <2>3, <2>4, <2>5, <2>6, <2>7, <2>8, <2>9 DEF DInv
<1>. QED
  BY <1>10, <1>11, <1>12

LEMMA RestStutters ==
    ASSUME DInv, UNCHANGED vars
    PROVE  DInv' /\ UNCHANGED <<fate, tx, received>>
<1>1. UNCHANGED <<ackVars, air, acks, received, fate, tx>>
  BY DEF vars
<1>2. IInv'
  BY <1>1, StutterPreserves DEF DInv
<1>3. DeliveryTypeOK' /\ TrafficWasSent'
  BY <1>1 DEF DInv, DeliveryTypeOK, TrafficWasSent
<1>4. PendingHasBlock' /\ RetriesCounted' /\ CursorIsPacked'
  BY <1>1 DEF ackVars, DInv, PendingHasBlock, RetriesCounted, CursorIsPacked,
              Packed
<1>5. ConfirmedWasReceived'
  BY <1>1 DEF DInv, ConfirmedWasReceived
<1>. QED
  BY <1>1, <1>2, <1>3, <1>4, <1>5 DEF DInv

\* Every step of the mote and of the network keeps the invariant and is a step
\* of ReliableSend or leaves what it speaks of unchanged.
LEMMA StepRefines ==
    ASSUME DInv, [DNext]_vars
    PROVE  DInv' /\ [Reliable!Next]_<<fate, tx, received>>
<1>1. ASSUME NEW m \in Msg, Send(m)
      PROVE  DInv' /\ Reliable!Next
  BY <1>1, SendSubmits DEF Reliable!Next
<1>2. ASSUME NEW m \in Msg, Deliver(m)
      PROVE  DInv' /\ Reliable!Next
  BY <1>2, DeliverArrives DEF Reliable!Next
<1>3. ASSUME NEW id \in Id, NEW from \in Addr, RecvAck(id, from)
      PROVE  DInv' /\ [Reliable!Next]_<<fate, tx, received>>
  BY <1>3, RecvAckConfirms DEF Reliable!Next
<1>4. CASE BeginRound
  BY <1>4, BeginRoundPreserves
<1>5. CASE Retry
  BY <1>5, RetryRepeats DEF Reliable!Next
<1>6. CASE UNCHANGED vars
  BY <1>6, RestStutters
<1>. QED
  BY <1>1, <1>2, <1>3, <1>4, <1>5, <1>6 DEF DNext

-----------------------------------------------------------------------------
\* What the mote does to its list on a lossy mesh is what MoteAcks allows, so
\* that the theorems above hold of it.
THEOREM DeliveryUsesList == DSpec => Spec
<1>1. DInit => Init
  BY DEF DInit, Init
<1>2. [DNext]_vars => [Next]_ackVars
  <2>. SUFFICES ASSUME [DNext]_vars PROVE [Next]_ackVars
    OBVIOUS
  <2>1. ASSUME NEW m \in Msg, Send(m)
        PROVE  Next
    BY <2>1, RoutingAssumption DEF Send, Next
  <2>2. ASSUME NEW id \in Id, NEW from \in Addr, RecvAck(id, from)
        PROVE  Next
    BY <2>2 DEF RecvAck, Next
  <2>3. CASE BeginRound \/ Retry
    BY <2>3 DEF BeginRound, Retry, Next
  <2>4. CASE UNCHANGED ackVars
    BY <2>4
  <2>5. CASE (\E m \in Msg : Deliver(m)) \/ UNCHANGED vars
    BY <2>5 DEF Deliver, vars
  <2>. QED
    BY <2>1, <2>2, <2>3, <2>4, <2>5 DEF DNext
<1>. QED
  BY <1>1, <1>2, PTL DEF DSpec, Spec

\* The inductive invariant of the delivery, whatever is lost, repeated or late
\* and however many messages share a key.
THEOREM DeliveryInvariance == DSpec => []DInv
<1>1. DInit => DInv
  BY InitDInv
<1>2. DInv /\ [DNext]_vars => DInv'
  BY StepRefines
<1>. QED
  BY <1>1, <1>2, PTL DEF DSpec

\* Of the messages with the key of a confirmed one, one has reached the
\* destination (krava.c:46-50).
THEOREM ConfirmedWasReceivedHolds == DSpec => []ConfirmedWasReceived
<1>1. DInv => ConfirmedWasReceived
  BY DEF DInv
<1>. QED
  BY <1>1, DeliveryInvariance, PTL

\* The list, its pool and its cursor on a lossy mesh implement ReliableSend
\* (krava.c:32-100, 532-570, 748-795): a message whose key is its own ends once,
\* confirmed after it arrived or given up after its last repetition; one that
\* shares its key, as ids that come back and forwarded messages do, may give its
\* place to a twin, be confirmed with it or be given up with it, and has no other
\* end.
THEOREM ImplementsHolds == DSpec => Implements
<1>1. DInit => Reliable!Init
  BY InitDInv
<1>2. DInv /\ [DNext]_vars => [Reliable!Next]_<<fate, tx, received>>
  BY StepRefines
<1>. QED
  BY <1>1, <1>2, DeliveryInvariance, PTL DEF DSpec, Implements, Reliable!Spec

-----------------------------------------------------------------------------
(* The gateway's list.  Without the search before the push two entries may *)
(* share a key, so that neither UniqueKeys nor the bound on the retries is *)
(* left; what the search and the removal keep of list and pool does not    *)
(* need them.                                                              *)

GInv == GatewayTypeOK /\ ListIsPool

\* The ids a command is given leave out 0, which is the first byte of a
\* message without an id.
LEMMA NextIdInRange ==
    ASSUME NEW id \in 0..MAX_ID
    PROVE  NextId(id) \in 1..MAX_ID
<1>1. MAX_ID \in Nat /\ MAX_ID >= 2
  BY IdAssumption
<1>2. CASE id + 1 > MAX_ID
  <2>1. id + 1 = MAX_ID + 1
    BY <1>1, <1>2
  <2>2. (MAX_ID + 1) % MAX_ID = 1
    BY <1>1
  <2>. QED
    BY <1>1, <1>2, <2>1, <2>2 DEF NextId
<1>3. CASE ~(id + 1 > MAX_ID)
  BY <1>1, <1>3 DEF NextId
<1>. QED
  BY <1>2, <1>3

LEMMA BroadcastPreserves ==
    ASSUME GInv, NEW msg \in Msg, NEW to \in Addr, BroadcastCmdMsg(msg, to)
    PROVE  GInv'
<1>. DEFINE b == FirstFree(ack_mem)
            new == [to |-> to, id |-> command_id', msg |-> msg, retries |-> 0]
<1>1. /\ ack_list \in Seq(Block)
      /\ ack_mem \subseteq Block
      /\ slot \in [Block -> Slot]
      /\ NoLoop(ack_list)
      /\ ToSet(ack_list) = ack_mem
  BY DEF GInv, GatewayTypeOK, AckTypeOK, ListIsPool, Pending
<1>2. Push(ack_list, ack_mem, to, command_id', msg) /\ entry' = entry
  BY DEF BroadcastCmdMsg
<1>3. command_id' \in 1..MAX_ID /\ command_id' \in Id
  <2>1. MAX_ID \in Nat /\ Id = 0..MAX_ID
    BY IdAssumption
  <2>2. command_id \in 0..MAX_ID
    BY <2>1 DEF GInv, GatewayTypeOK
  <2>3. command_id' = NextId(command_id)
    BY DEF BroadcastCmdMsg
  <2>4. command_id' \in 1..MAX_ID
    BY <2>2, <2>3, NextIdInRange
  <2>. QED
    BY <2>1, <2>4
<1>4. commands' \in 0..MaxCommands
  BY BoundAssumption DEF BroadcastCmdMsg, GInv, GatewayTypeOK
<1>5. AckTypeOK' /\ ListIsPool'
  <2>1. CASE ack_mem = Block
    <3>1. ack_list' = ack_list /\ ack_mem' = ack_mem /\ slot' = slot
      BY <1>2, <2>1 DEF Push
    <3>. QED
      BY <1>1, <1>2, <3>1
         DEF GInv, GatewayTypeOK, AckTypeOK, ListIsPool, Pending
  <2>2. CASE ack_mem # Block
    <3>0. b \in Block \ ack_mem
      BY <1>1, <2>2, FirstFreeIsFree
    <3>1. /\ ack_list' = <<b>> \o ack_list
          /\ ack_mem' = ack_mem \cup {b}
          /\ slot' = [slot EXCEPT ![b] = new]
      BY <1>2, <2>2 DEF Push
    <3>. HIDE DEF b
    <3>2. /\ ack_list' \in Seq(Block)
          /\ NoLoop(ack_list')
          /\ ToSet(ack_list') = ack_mem \cup {b}
      BY <1>1, <3>0, <3>1, PushElements
    <3>3. new \in Slot
      BY <1>3 DEF Slot
    <3>. HIDE DEF new
    <3>4. AckTypeOK'
      BY <1>1, <1>2, <3>0, <3>1, <3>2, <3>3
         DEF GInv, GatewayTypeOK, AckTypeOK
    <3>5. ListIsPool'
      BY <3>1, <3>2 DEF ListIsPool, Pending
    <3>. QED
      BY <3>4, <3>5
  <2>. QED
    BY <2>1, <2>2
<1>. QED
  BY <1>3, <1>4, <1>5 DEF GInv, GatewayTypeOK

LEMMA GatewayRecvPreserves ==
    ASSUME GInv, NEW id \in Id, NEW from \in Addr, GatewayRecvAck(id, from)
    PROVE  GInv'
<1>. DEFINE after == FindRemove(id, from)
<1>1. /\ after.list \in Seq(Block)
      /\ NoLoop(after.list)
      /\ ToSet(after.list) = after.mem
      /\ after.mem \subseteq ack_mem
  BY FindRemoveResult DEF GInv, GatewayTypeOK
<1>2. /\ ack_list' = after.list
      /\ ack_mem' = after.mem
      /\ slot' = slot
      /\ entry' = entry
      /\ command_id' = command_id
      /\ commands' = commands
  BY DEF GatewayRecvAck, ReceiveAck
<1>. HIDE DEF after
<1>3. ListIsPool'
  BY <1>1, <1>2 DEF ListIsPool, Pending
<1>4. GatewayTypeOK'
  BY <1>1, <1>2 DEF GInv, GatewayTypeOK, AckTypeOK
<1>. QED
  BY <1>3, <1>4 DEF GInv

LEMMA GatewayRoundPreserves ==
    ASSUME GInv, StartRound, UNCHANGED <<command_id, commands>>
    PROVE  GInv'
<1>1. /\ UNCHANGED <<ack_list, ack_mem, slot>>
      /\ entry' = ack_list[1]
      /\ 1 \in DOMAIN ack_list
  BY LenProperties DEF GInv, GatewayTypeOK, AckTypeOK, StartRound, Backlog
<1>2. entry' \in Block
  BY <1>1 DEF GInv, GatewayTypeOK, AckTypeOK
<1>. QED
  BY <1>1, <1>2
     DEF GInv, GatewayTypeOK, AckTypeOK, ListIsPool, NoLoop, Pending

LEMMA GatewayRetryPreserves ==
    ASSUME GInv, RetryEntry, UNCHANGED <<command_id, commands>>
    PROVE  GInv'
<1>. DEFINE tried == (slot[entry].retries + 1) % 256
            found == FindRemove(slot[entry].id, slot[entry].to)
            kept == [list |-> ack_list, mem |-> ack_mem]
            after == IF tried >= NUM_OF_RETRIES THEN found ELSE kept
<1>0. /\ entry \in Block
      /\ slot \in [Block -> Slot]
      /\ ack_list \in Seq(Block)
      /\ ack_mem \subseteq Block
      /\ NoLoop(ack_list)
      /\ ToSet(ack_list) = ack_mem
  BY DEF RetryEntry, GInv, GatewayTypeOK, AckTypeOK, ListIsPool, Pending
<1>1. /\ slot' = [slot EXCEPT ![entry].retries = tried]
      /\ ack_list' = after.list
      /\ ack_mem' = after.mem
      /\ entry' = ItemNext(after.list, entry)
  BY DEF RetryEntry, Tried, LimitReached
<1>2. tried \in 0..255
  <2>. DEFINE r == slot[entry].retries
  <2>1. r \in 0..255
    BY <1>0 DEF Slot
  <2>. HIDE DEF r
  <2>2. r + 1 \in Nat
    BY <2>1
  <2>3. (r + 1) % 256 \in 0..255
    BY <2>2
  <2>. QED
    BY <2>3 DEF r
<1>3. slot' \in [Block -> Slot]
  <2>. DEFINE new == [slot[entry] EXCEPT !.retries = tried]
  <2>1. slot' = [slot EXCEPT ![entry] = new]
    BY <1>1
  <2>. HIDE DEF tried
  <2>2. new \in Slot
    BY <1>0, <1>2 DEF Slot
  <2>. HIDE DEF new
  <2>. QED
    BY <1>0, <2>1, <2>2
<1>4. /\ after.list \in Seq(Block)
      /\ NoLoop(after.list)
      /\ ToSet(after.list) = after.mem
      /\ after.mem \subseteq ack_mem
  <2>1. /\ found.list \in Seq(Block)
        /\ NoLoop(found.list)
        /\ ToSet(found.list) = found.mem
        /\ found.mem \subseteq ack_mem
    BY FindRemoveResult DEF GInv, GatewayTypeOK
  <2>. HIDE DEF found, tried
  <2>. QED
    BY <1>0, <2>1
<1>. HIDE DEF after, tried
<1>5. entry' \in Block \cup {Null}
  BY <1>0, <1>1, <1>4, ItemNextOnList
<1>6. ListIsPool'
  BY <1>1, <1>4 DEF ListIsPool, Pending
<1>7. GatewayTypeOK'
  BY <1>0, <1>1, <1>3, <1>4, <1>5 DEF GInv, GatewayTypeOK, AckTypeOK
<1>. QED
  BY <1>6, <1>7 DEF GInv

LEMMA GatewayInitGood == GatewayInit => GInv
<1>. SUFFICES ASSUME GatewayInit PROVE GInv
  OBVIOUS
<1>1. AckTypeOK /\ ListIsPool
  BY AckInitGood DEF GatewayInit
<1>2. NextId(0) \in 1..MAX_ID
  BY IdAssumption, NextIdInRange
<1>. QED
  BY <1>1, <1>2, BoundAssumption DEF GatewayInit, GInv, GatewayTypeOK

LEMMA GatewayNextPreserves == GInv /\ [GatewayNext]_gatewayVars => GInv'
<1>. SUFFICES ASSUME GInv, [GatewayNext]_gatewayVars PROVE GInv'
  OBVIOUS
<1>1. CASE \E msg \in Msg, to \in Addr : BroadcastCmdMsg(msg, to)
  BY <1>1, BroadcastPreserves
<1>2. CASE \E id \in Id, from \in Addr : GatewayRecvAck(id, from)
  BY <1>2, GatewayRecvPreserves
<1>3. CASE ErrorRecovery
  BY <1>3, GatewayRoundPreserves, GatewayRetryPreserves DEF ErrorRecovery
<1>4. CASE UNCHANGED gatewayVars
  BY <1>4 DEF gatewayVars, ackVars, GInv, GatewayTypeOK, AckTypeOK,
              ListIsPool, NoLoop, Pending
<1>. QED
  BY <1>1, <1>2, <1>3, <1>4 DEF GatewayNext

\* The list and the counters of the gateway keep their invariant whatever is
\* broadcast, acknowledged or retried, and in whatever order
\* (gateway.c:100-126, 491-512, 669-716).
THEOREM GatewayInvariance == GatewaySpec => []GInv
BY GatewayInitGood, GatewayNextPreserves, PTL DEF GatewaySpec

\* Every index stays in the pool, every retry counter in its byte, and no
\* command is numbered 0 (libmessage.c:197-211).
THEOREM GatewayTypeCorrect == GatewaySpec => []GatewayTypeOK
<1>1. GInv => GatewayTypeOK
  BY DEF GInv
<1>. QED
  BY <1>1, GatewayInvariance, PTL

\* The gateway leaks no block and frees none that is linked, although it may
\* list one key twice and then removes another entry than the one it retries
\* (gateway.c:117, 700-703).
THEOREM GatewayListIsPoolHolds == GatewaySpec => []ListIsPool
<1>1. GInv => ListIsPool
  BY DEF GInv
<1>. QED
  BY <1>1, GatewayInvariance, PTL
=============================================================================
