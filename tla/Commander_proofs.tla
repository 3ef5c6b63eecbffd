-------------------------- MODULE Commander_proofs --------------------------
(***************************************************************************)
(* Proofs about Commander for every size of the buffer, set of motes and   *)
(* registered cows: until a pair of bytes is torn, which the code does not *)
(* prevent, the commander takes every byte for what it was put in as.      *)
(***************************************************************************)
EXTENDS Commander, SequenceTheorems, FiniteSetTheorems, TLAPS

-----------------------------------------------------------------------------
(* The inductive invariant.  The bytes of the buffer are those members of   *)
(* the cluster being served that are left, and then whole commands.        *)

\* The command at place s, of two bytes or of its own length, and what follows
\* it at one of the places of starts.
CommandAt(bytes, s, starts) ==
    /\ s + 2 <= Len(bytes)
    /\ bytes[s + 1].field = "cmd" /\ bytes[s + 2].field = "target"
    /\ bytes[s + 1].val # CMD_SET_LOCAL_GW => s + 2 \in starts
    /\ bytes[s + 1].val = CMD_SET_LOCAL_GW =>
          /\ s + 3 <= Len(bytes)
          /\ bytes[s + 3].field = "count"
          /\ s + 3 + bytes[s + 3].val \in starts
          /\ \A k \in (s + 4)..(s + 3 + bytes[s + 3].val) :
                bytes[k].field = "member"

\* Commands start at the places of starts, and the bytes end where one ends.
Delimits(bytes, starts) ==
    /\ starts \subseteq 0..Len(bytes)
    /\ Len(bytes) \in starts
    /\ \A s \in starts : s < Len(bytes) => CommandAt(bytes, s, starts)

\* After the first ones, which are members, come whole commands.
WholeAfter(bytes, first) ==
    /\ \A k \in 1..first : bytes[k].field = "member"
    /\ \E starts \in SUBSET (0..Len(bytes)) :
          first \in starts /\ Delimits(bytes, starts)

MembersLeft == IF phase = "members" THEN members_count - i ELSE 0

\* Nothing is out of place.
WInv == TypeOK /\ ReadsWhatWasWritten /\ WholeAfter(commanderBuff, MembersLeft)

CInv == TypeOK /\ (~torn => WInv)

-----------------------------------------------------------------------------
(* Sequences of bytes.                                                     *)

Byte == [val : 0..255, field : {"cmd", "target", "count", "member"}]

\* The value of a byte is a number.
LEMMA ByteValue ==
    ASSUME NEW S \in Seq(Byte), NEW k \in 1..Len(S)
    PROVE  S[k] \in Byte /\ S[k].val \in 0..255 /\ S[k].val \in Nat
<1>. DEFINE v == S[k].val
<1>1. S[k] \in Byte
  BY ElementOfSeq
<1>2. v \in 0..255
  BY <1>1 DEF Byte
<1>. HIDE DEF v
<1>3. v \in Nat
  BY <1>2
<1>. QED
  BY <1>1, <1>2, <1>3 DEF v

\* What is left of a sequence after its first n elements.
LEMMA RestOfSeq ==
    ASSUME NEW S, NEW s \in Seq(S), NEW n \in 0..Len(s)
    PROVE  /\ SubSeq(s, n + 1, Len(s)) \in Seq(S)
           /\ Len(SubSeq(s, n + 1, Len(s))) = Len(s) - n
           /\ \A k \in 1..(Len(s) - n) : SubSeq(s, n + 1, Len(s))[k] = s[n + k]
<1>1. Len(s) \in Nat /\ n \in Nat /\ n <= Len(s)
  BY LenProperties
<1>. QED
  BY <1>1, SubSeqProperties, Z3

\* A whole command, as the callers of ringbuf_put write one.
IsCommand(new) ==
    /\ Len(new) >= 2
    /\ new[1].field = "cmd" /\ new[2].field = "target"
    /\ new[1].val # CMD_SET_LOCAL_GW => Len(new) = 2
    /\ new[1].val = CMD_SET_LOCAL_GW =>
          /\ Len(new) >= 3
          /\ new[3].field = "count"
          /\ Len(new) = 3 + new[3].val
          /\ \A k \in 4..Len(new) : new[k].field = "member"

\* A command that is appended as a whole leaves the buffer a sequence of whole
\* commands.
LEMMA AppendingWhole ==
    ASSUME NEW bytes \in Seq(Byte), NEW first \in Nat, WholeAfter(bytes, first),
           NEW new \in Seq(Byte), IsCommand(new)
    PROVE  WholeAfter(bytes \o new, first)
<1>. DEFINE both == bytes \o new
            n == Len(bytes)
            m == Len(new)
<1>1. PICK starts \in SUBSET (0..n) : first \in starts /\ Delimits(bytes, starts)
  BY DEF WholeAfter
<1>. DEFINE more == starts \cup {n + m}
<1>2. n \in Nat /\ m \in Nat /\ m >= 2 /\ first <= n
  BY <1>1, LenProperties DEF IsCommand
<1>3. /\ both \in Seq(Byte)
      /\ Len(both) = n + m
      /\ \A k \in 1..n : both[k] = bytes[k]
      /\ \A k \in 1..m : both[n + k] = new[k]
  <2>1. /\ both \in Seq(Byte)
        /\ Len(both) = n + m
        /\ \A k \in 1..(n + m) :
              both[k] = IF k <= n THEN bytes[k] ELSE new[k - n]
    BY ConcatProperties
  <2>. HIDE DEF both, n, m
  <2>2. \A k \in 1..m : both[n + k] = new[k]
    <3>. SUFFICES ASSUME NEW k \in 1..m PROVE both[n + k] = new[k]
      OBVIOUS
    <3>1. n + k \in 1..(n + m) /\ ~(n + k <= n) /\ (n + k) - n = k
      BY <1>2
    <3>2. both[n + k] = new[(n + k) - n]
      BY <2>1, <3>1
    <3>. QED
      BY <3>1, <3>2
  <2>. QED
    BY <1>2, <2>1, <2>2
<1>. HIDE DEF both
<1>4. ASSUME NEW s \in starts, s < n
      PROVE  CommandAt(both, s, more)
  <2>1. s \in Nat /\ CommandAt(bytes, s, starts)
    BY <1>1, <1>4 DEF Delimits
  <2>2. /\ s + 2 <= n
        /\ both[s + 1] = bytes[s + 1] /\ both[s + 2] = bytes[s + 2]
    BY <1>2, <1>3, <2>1 DEF CommandAt
  <2>3. CASE bytes[s + 1].val # CMD_SET_LOCAL_GW
    BY <1>2, <1>3, <2>1, <2>2, <2>3 DEF CommandAt
  <2>4. CASE bytes[s + 1].val = CMD_SET_LOCAL_GW
    <3>1. /\ s + 3 <= n
          /\ bytes[s + 3].field = "count"
          /\ s + 3 + bytes[s + 3].val \in starts
          /\ \A k \in (s + 4)..(s + 3 + bytes[s + 3].val) :
                bytes[k].field = "member"
      BY <2>1, <2>4 DEF CommandAt
    <3>2. both[s + 3] = bytes[s + 3]
      BY <1>3, <2>1, <3>1
    <3>3. s + 3 + bytes[s + 3].val \in 0..n
      BY <1>1, <3>1
    <3>4. \A k \in (s + 4)..(s + 3 + bytes[s + 3].val) : both[k] = bytes[k]
      BY <1>3, <2>1, <3>3
    <3>5. /\ s + 2 <= n + m /\ s + 3 <= n + m
          /\ s + 3 + bytes[s + 3].val \in more
      BY <1>2, <2>1, <2>2, <3>1
    <3>6. \A k \in (s + 4)..(s + 3 + both[s + 3].val) : both[k].field = "member"
      BY <3>1, <3>2, <3>4
    <3>. HIDE DEF more, n, m
    <3>. QED
      BY <1>3, <2>1, <2>2, <2>4, <3>1, <3>2, <3>5, <3>6 DEF CommandAt
  <2>. QED
    BY <2>3, <2>4
<1>5. CommandAt(both, n, more)
  <2>1. both[n + 1] = new[1] /\ both[n + 2] = new[2]
    BY <1>2, <1>3
  <2>2. CASE new[1].val # CMD_SET_LOCAL_GW
    BY <1>2, <1>3, <2>1, <2>2 DEF CommandAt, IsCommand
  <2>3. CASE new[1].val = CMD_SET_LOCAL_GW
    <3>1. /\ m >= 3
          /\ new[3].field = "count"
          /\ m = 3 + new[3].val
          /\ \A k \in 4..m : new[k].field = "member"
      BY <2>3 DEF IsCommand
    <3>2. both[n + 3] = new[3]
      BY <1>2, <1>3, <3>1
    <3>. DEFINE c == new[3].val
    <3>3. c \in Nat
      <4>1. 3 \in 1..Len(new)
        BY <1>2, <3>1
      <4>. QED
        BY <4>1, ByteValue
    <3>4. n + 3 + c = n + m
      <4>1. m = 3 + c
        BY <3>1
      <4>. HIDE DEF c, m, n
      <4>. QED
        BY <1>2, <3>3, <4>1
    <3>5. ASSUME NEW k \in (n + 4)..(n + m)
          PROVE  both[k].field = "member"
      <4>1. k - n \in 4..m /\ k = n + (k - n)
        BY <1>2
      <4>2. both[k] = new[k - n]
        BY <1>2, <1>3, <4>1
      <4>. QED
        BY <3>1, <4>1, <4>2
    <3>6. /\ n + 2 <= Len(both) /\ n + 3 <= Len(both)
          /\ both[n + 1].field = "cmd" /\ both[n + 2].field = "target"
          /\ both[n + 1].val = CMD_SET_LOCAL_GW /\ both[n + 3].field = "count"
      <4>1. new[1].field = "cmd" /\ new[2].field = "target"
        BY DEF IsCommand
      <4>2. /\ both[n + 1].field = "cmd" /\ both[n + 2].field = "target"
            /\ both[n + 1].val = CMD_SET_LOCAL_GW /\ both[n + 3].field = "count"
        BY <2>1, <2>3, <3>1, <3>2, <4>1
      <4>3. n + 2 <= Len(both) /\ n + 3 <= Len(both)
        <5>1. Len(both) = n + m /\ m >= 3
          BY <1>3, <3>1
        <5>. HIDE DEF n, m
        <5>. QED
          BY <1>2, <5>1
      <4>. QED
        BY <4>2, <4>3
    <3>7. n + 3 + both[n + 3].val = n + m
      BY <3>2, <3>4
    <3>8. n + 3 + both[n + 3].val \in more
      BY <3>7
    <3>. HIDE DEF more, n, m
    <3>. QED
      BY <3>5, <3>6, <3>7, <3>8 DEF CommandAt
  <2>. QED
    BY <2>2, <2>3
<1>6. Delimits(both, more) /\ first \in more /\ more \in SUBSET (0..Len(both))
  <2>. HIDE DEF n, m
  <2>1. \A s \in starts : s < n \/ s = n
    BY <1>1, <1>2
  <2>2. ASSUME NEW s \in more, s < n + m
        PROVE  CommandAt(both, s, more)
    <3>1. s \in starts
      BY <1>2, <2>2
    <3>2. CASE s < n
      BY <1>4, <3>1, <3>2
    <3>3. CASE s = n
      BY <1>5, <3>3
    <3>. QED
      BY <2>1, <3>1, <3>2, <3>3
  <2>3. \A s \in more : s \in 0..(n + m)
    <3>1. \A s \in starts : s \in 0..n
      BY <1>1
    <3>. QED
      BY <1>2, <3>1
  <2>4. first \in more /\ n + m \in more
    BY <1>1
  <2>. HIDE DEF more
  <2>5. Len(both) = n + m
    BY <1>3
  <2>6. more \subseteq 0..Len(both)
    BY <2>3, <2>5
  <2>7. Delimits(both, more)
    BY <2>2, <2>4, <2>5, <2>6 DEF Delimits
  <2>. QED
    BY <2>4, <2>6, <2>7
<1>7. ASSUME NEW k \in 1..first
      PROVE  both[k].field = "member"
  <2>1. bytes[k].field = "member"
    BY DEF WholeAfter
  <2>2. k \in 1..n
    BY <1>2
  <2>3. both[k] = bytes[k]
    BY <1>3, <2>2
  <2>. QED
    BY <2>1, <2>3
<1>. QED
  BY <1>6, <1>7 DEF both, WholeAfter

\* Taking bytes out up to, or on the way to, the start of a command leaves
\* whole commands after it.
LEMMA TakingBytes ==
    ASSUME NEW bytes \in Seq(Byte),
           NEW starts \in SUBSET (0..Len(bytes)), Delimits(bytes, starts),
           NEW first \in starts, NEW n \in 0..first,
           \A k \in (n + 1)..first : bytes[k].field = "member"
    PROVE  WholeAfter(SubSeq(bytes, n + 1, Len(bytes)), first - n)
<1>. DEFINE rest == SubSeq(bytes, n + 1, Len(bytes))
            len == Len(bytes)
            left == {s \in 0..(len - n) : n + s \in starts}
<1>1. len \in Nat /\ first \in Nat /\ n \in Nat /\ n <= first /\ first <= len
  BY LenProperties
<1>2. /\ Len(rest) = len - n
      /\ \A k \in 1..(len - n) : rest[k] = bytes[n + k]
  BY <1>1, RestOfSeq
<1>. HIDE DEF rest, len
<1>3. ASSUME NEW s \in left, s < len - n
      PROVE  CommandAt(rest, s, left)
  <2>1. s \in Nat /\ n + s \in starts /\ n + s < len
    BY <1>1, <1>3
  <2>2. CommandAt(bytes, n + s, starts)
    BY <2>1 DEF Delimits, len
  <2>3. n + s + 2 <= len
    BY <2>2 DEF CommandAt, len
  <2>4. rest[s + 1] = bytes[n + s + 1] /\ rest[s + 2] = bytes[n + s + 2]
    <3>1. s + 1 \in 1..(len - n) /\ n + (s + 1) = n + s + 1
      BY <1>1, <2>1
    <3>2. s + 2 \in 1..(len - n) /\ n + (s + 2) = n + s + 2
      BY <1>1, <2>1, <2>3
    <3>. QED
      BY <1>2, <3>1, <3>2
  <2>5. CASE bytes[n + s + 1].val # CMD_SET_LOCAL_GW
    <3>1. n + s + 2 \in starts
      BY <2>2, <2>5 DEF CommandAt
    <3>2. s + 2 \in left
      BY <1>1, <2>1, <2>3, <3>1
    <3>3. rest[s + 1].val # CMD_SET_LOCAL_GW
      BY <2>4, <2>5
    <3>4. s + 2 <= Len(rest)
      BY <1>1, <1>2, <2>1, <2>3
    <3>. HIDE DEF left
    <3>. QED
      BY <2>2, <2>4, <3>2, <3>3, <3>4 DEF CommandAt
  <2>6. CASE bytes[n + s + 1].val = CMD_SET_LOCAL_GW
    <3>. DEFINE c == bytes[n + s + 3].val
    <3>1. /\ n + s + 3 <= len
          /\ bytes[n + s + 3].field = "count"
          /\ n + s + 3 + c \in starts
          /\ \A k \in (n + s + 4)..(n + s + 3 + c) : bytes[k].field = "member"
      BY <2>2, <2>6 DEF CommandAt, len
    <3>2. c \in Nat
      <4>1. n + s + 3 \in 1..Len(bytes)
        BY <1>1, <2>1, <3>1 DEF len
      <4>. QED
        BY <4>1, ByteValue
    <3>. HIDE DEF c
    <3>3. n + s + 3 + c <= len
      <4>1. n + s + 3 + c \in 0..len
        BY <3>1 DEF len
      <4>. QED
        BY <4>1
    <3>4. rest[s + 3] = bytes[n + s + 3]
      <4>1. s + 3 \in 1..(len - n) /\ n + (s + 3) = n + s + 3
        BY <1>1, <2>1, <3>1
      <4>. QED
        BY <1>2, <4>1
    <3>5. s + 3 + c \in left
      BY <1>1, <2>1, <3>1, <3>2, <3>3
    <3>6. ASSUME NEW k \in (s + 4)..(s + 3 + c)
          PROVE  rest[k].field = "member"
      <4>1. /\ k \in 1..(len - n)
            /\ n + k \in (n + s + 4)..(n + s + 3 + c)
        BY <1>1, <2>1, <3>2, <3>3
      <4>. QED
        BY <1>2, <3>1, <4>1
    <3>7. s + 2 <= Len(rest) /\ s + 3 <= Len(rest)
      BY <1>1, <1>2, <2>1, <2>3, <3>1
    <3>8. rest[s + 3].val = c
      BY <3>4 DEF c
    <3>. HIDE DEF left
    <3>. QED
      BY <2>2, <2>4, <2>6, <3>1, <3>4, <3>5, <3>6, <3>7, <3>8 DEF CommandAt
  <2>. QED
    BY <2>5, <2>6
<1>4. Delimits(rest, left)
  <2>1. len - n \in left
    <3>1. len \in starts /\ n + (len - n) = len /\ len - n \in 0..(len - n)
      BY <1>1 DEF Delimits, len
    <3>. QED
      BY <3>1
  <2>. QED
    BY <1>2, <1>3, <2>1 DEF Delimits
<1>5. first - n \in left
  BY <1>1
<1>6. \A k \in 1..(first - n) : rest[k].field = "member"
  <2>. SUFFICES ASSUME NEW k \in 1..(first - n) PROVE rest[k].field = "member"
    OBVIOUS
  <2>1. k \in 1..(len - n) /\ n + k \in (n + 1)..first
    BY <1>1
  <2>. QED
    BY <1>2, <2>1
<1>7. left \in SUBSET (0..Len(rest))
  BY <1>2
<1>. QED
  BY <1>4, <1>5, <1>6, <1>7 DEF rest, WholeAfter

-----------------------------------------------------------------------------
(* The steps.                                                              *)

\* An empty buffer holds whole commands.
LEMMA EmptyIsWhole == WholeAfter(<<>>, 0)
<1>1. Len(<<>>) = 0
  OBVIOUS
<1>2. Delimits(<<>>, {0})
  BY <1>1 DEF Delimits
<1>3. {0} \in SUBSET (0..Len(<<>>)) /\ 0 \in {0}
  BY <1>1
<1>4. \A k \in 1..0 : <<>>[k].field = "member"
  OBVIOUS
<1>. QED
  BY <1>2, <1>3, <1>4 DEF WholeAfter

\* An empty buffer to begin with.
LEMMA InitWInv == Init => WInv
<1>. SUFFICES ASSUME Init PROVE WInv
  OBVIOUS
<1>1. commanderBuff \in Seq(Byte) /\ Len(commanderBuff) <= Capacity
  <2>1. commanderBuff \in Seq(Byte) /\ Len(commanderBuff) = 0
    BY EmptySeq DEF Init
  <2>. QED
    BY <2>1, SizeAssumption DEF Capacity
<1>2. sent \in [cmd : 0..255, target : 0..255, to : 0..255]
  BY DEF Init, NotSent
<1>3. /\ phase = "boot" /\ currentCommand \in 0..255 /\ currentTarget \in 0..255
      /\ members_count \in 0..255 /\ i \in 0..255
      /\ misread = FALSE /\ torn = FALSE
  BY DEF Init
<1>4. TypeOK
  BY <1>1, <1>2, <1>3 DEF TypeOK, Byte
<1>5. MembersLeft = 0 /\ commanderBuff = <<>>
  BY DEF Init, MembersLeft
<1>. QED
  BY <1>3, <1>4, <1>5, EmptyIsWhole DEF WInv, ReadsWhatWasWritten

\* Putting in a command that fits, or of which no byte fits, keeps the
\* invariant.
LEMMA PutPreserves ==
    ASSUME WInv, NEW new \in Seq(Byte), IsCommand(new),
           Stored(Len(new)) \in {0, Len(new)}, PutAll(new)
    PROVE  WInv'
<1>. DEFINE room == Capacity - Len(commanderBuff)
            stored == Stored(Len(new))
<1>1. /\ commanderBuff \in Seq(Byte)
      /\ Len(commanderBuff) \in Nat
      /\ Len(commanderBuff) <= Capacity
      /\ Capacity \in Nat
      /\ Len(new) \in Nat
  BY SizeAssumption, LenProperties DEF WInv, TypeOK, Byte, Capacity
<1>2. stored <= room
  BY <1>1 DEF Stored
<1>3. /\ commanderBuff' \in Seq(Byte)
      /\ Len(commanderBuff') <= Capacity
      /\ WholeAfter(commanderBuff', MembersLeft)
  <2>0. MembersLeft \in Nat
    BY DEF MembersLeft, WInv, TypeOK
  <2>1. CASE stored = 0
    <3>1. SubSeq(new, 1, stored) = <<>>
      BY <2>1, SubSeqEmpty
    <3>2. commanderBuff' = commanderBuff
      BY <1>1, <3>1, ConcatEmptySeq DEF PutAll
    <3>. QED
      BY <1>1, <3>2 DEF WInv
  <2>2. CASE stored = Len(new)
    <3>1. SubSeq(new, 1, stored) = new
      BY <2>2, SubSeqFull
    <3>2. commanderBuff' = commanderBuff \o new
      BY <3>1 DEF PutAll
    <3>3. Len(commanderBuff \o new) = Len(commanderBuff) + Len(new)
      BY <1>1, ConcatProperties
    <3>4. Len(commanderBuff') <= Capacity
      <4>. HIDE DEF stored
      <4>. QED
        BY <1>1, <1>2, <2>2, <3>2, <3>3
    <3>5. WholeAfter(commanderBuff \o new, MembersLeft)
      BY <1>1, <2>0, AppendingWhole DEF WInv
    <3>. QED
      BY <1>1, <3>2, <3>4, <3>5, ConcatProperties
  <2>. QED
    BY <2>1, <2>2
<1>4. MembersLeft' = MembersLeft
  BY DEF PutAll, MembersLeft
<1>5. TypeOK'
  BY <1>3 DEF WInv, TypeOK, PutAll, Byte
<1>6. ReadsWhatWasWritten'
  BY DEF WInv, PutAll, ReadsWhatWasWritten
<1>. QED
  BY <1>3, <1>4, <1>5, <1>6 DEF WInv

\* Commands of two bytes fit, or leave nothing behind, unless there is room for
\* just one byte.
LEMMA PutPairPreserves ==
    ASSUME WInv, Len(commanderBuff) # Capacity - 1, PutPair
    PROVE  WInv'
<1>1. PICK cmd \in {CMD_QUERY_MOTE, CMD_EMERGENCY_ONE, CMD_EMERGENCY_TWO,
                    CMD_CANCEL_EMERGENCY_ONE}, target \in Target :
          PutAll(Pair(cmd, target))
  BY DEF PutPair, QueryCommand, HandleCommand, MissingCows
<1>. DEFINE new == Pair(cmd, target)
<1>2. cmd \in 1..4 /\ cmd # CMD_SET_LOCAL_GW /\ target \in 0..255
  BY MoteAssumption DEF CMD_QUERY_MOTE, CMD_EMERGENCY_ONE, CMD_EMERGENCY_TWO,
     CMD_CANCEL_EMERGENCY_ONE, CMD_SET_LOCAL_GW
<1>3. new \in Seq(Byte) /\ Len(new) = 2
  <2>1. /\ [val |-> cmd, field |-> "cmd"] \in Byte
        /\ [val |-> target, field |-> "target"] \in Byte
    BY <1>2 DEF Byte
  <2>. QED
    BY <2>1 DEF Pair
<1>4. IsCommand(new)
  BY <1>2, <1>3 DEF IsCommand, Pair
<1>5. Stored(Len(new)) \in {0, Len(new)}
  <2>1. /\ Len(commanderBuff) \in Nat /\ Capacity \in Nat
        /\ Len(commanderBuff) <= Capacity
    BY SizeAssumption DEF WInv, TypeOK, Capacity
  <2>. QED
    BY <1>3, <2>1 DEF Stored
<1>. HIDE DEF new
<1>. QED
  BY <1>1, <1>3, <1>4, <1>5, PutPreserves DEF new

\* What sendClusteringCommand puts in.
ClusterCommand(head, members) ==
    <<[val |-> CMD_SET_LOCAL_GW, field |-> "cmd"],
      [val |-> head, field |-> "target"],
      [val |-> Len(members), field |-> "count"]>>
    \o [m \in 1..Len(members) |-> [val |-> members[m], field |-> "member"]]

\* A cluster has less than 256 members besides its head.
LEMMA ClusterIsCommand ==
    ASSUME NEW head \in Mote, NEW others \in SUBSET Mote, head \notin others,
           NEW members \in SetToSeqs(others)
    PROVE  /\ Len(members) \in 0..255
           /\ ClusterCommand(head, members) \in Seq(Byte)
           /\ Len(ClusterCommand(head, members)) = 3 + Len(members)
           /\ IsCommand(ClusterCommand(head, members))
<1>1. IsFiniteSet(others) /\ Cardinality(others) \in 0..255
  <2>1. IsFiniteSet(0..255) /\ Cardinality(0..255) = 256
    <3>. DEFINE low == 0
                high == 255
    <3>1. low \in Int /\ high \in Int /\ ~(low > high) /\ high - low + 1 = 256
      OBVIOUS
    <3>. HIDE DEF low, high
    <3>2. /\ IsFiniteSet(low..high)
          /\ Cardinality(low..high) = IF low > high THEN 0 ELSE high - low + 1
      BY <3>1, FS_Interval, Zenon
    <3>3. IsFiniteSet(low..high) /\ Cardinality(low..high) = 256
      BY <3>1, <3>2
    <3>. QED
      BY <3>3 DEF low, high
  <2>2. others \in SUBSET (0..255) /\ head \in 0..255 /\ others # 0..255
    BY MoteAssumption
  <2>3. /\ IsFiniteSet(others) /\ Cardinality(others) <= 256
        /\ Cardinality(others) # 256
    <3>1. /\ IsFiniteSet(others)
          /\ Cardinality(others) <= Cardinality(0..255)
          /\ Cardinality(0..255) = Cardinality(others) => 0..255 = others
      BY <2>1, <2>2, FS_Subset, Zenon
    <3>. QED
      BY <2>1, <2>2, <3>1
  <2>4. Cardinality(others) \in Nat
    BY <2>3, FS_CardinalityType
  <2>. QED
    BY <2>3, <2>4
<1>2. members \in [1..Cardinality(others) -> others]
  BY Zenon DEF SetToSeqs
<1>3. members \in Seq(0..255) /\ Len(members) = Cardinality(others)
  <2>. DEFINE c == Cardinality(others)
  <2>1. c \in Nat
    BY <1>1
  <2>2. members \in [1..c -> 0..255]
    BY <1>2, MoteAssumption
  <2>. HIDE DEF c
  <2>3. members \in Seq(0..255) /\ Len(members) = c
    BY <2>1, <2>2
  <2>. QED
    BY <2>3 DEF c
<1>. DEFINE count == Len(members)
            three == <<[val |-> CMD_SET_LOCAL_GW, field |-> "cmd"],
                       [val |-> head, field |-> "target"],
                       [val |-> count, field |-> "count"]>>
            tail == [m \in 1..count |-> [val |-> members[m], field |-> "member"]]
            new == ClusterCommand(head, members)
<1>4. count \in 0..255
  BY <1>1, <1>3
<1>5. three \in Seq(Byte) /\ Len(three) = 3
  <2>1. /\ [val |-> CMD_SET_LOCAL_GW, field |-> "cmd"] \in Byte
        /\ [val |-> head, field |-> "target"] \in Byte
        /\ [val |-> count, field |-> "count"] \in Byte
    BY <1>4, MoteAssumption DEF Byte, CMD_SET_LOCAL_GW
  <2>. HIDE DEF count
  <2>. QED
    BY <2>1
<1>6. tail \in Seq(Byte) /\ Len(tail) = count
  <2>1. \A m \in 1..count : [val |-> members[m], field |-> "member"] \in Byte
    BY <1>3, ElementOfSeq DEF Byte
  <2>2. tail \in [1..count -> Byte]
    BY <2>1
  <2>. HIDE DEF tail, count
  <2>. QED
    BY <1>4, <2>2
<1>7. \A k \in 1..count : tail[k].field = "member"
  OBVIOUS
<1>8. new = three \o tail
  BY DEF ClusterCommand
<1>9. three[1].field = "cmd" /\ three[1].val = CMD_SET_LOCAL_GW
      /\ three[2].field = "target"
      /\ three[3].field = "count" /\ three[3].val = count
  OBVIOUS
<1>. HIDE DEF count, three, tail, new
<1>10. /\ new \in Seq(Byte) /\ Len(new) = 3 + count
       /\ \A k \in 1..(3 + count) :
             new[k] = IF k <= 3 THEN three[k] ELSE tail[k - 3]
  <2>1. /\ three \o tail \in Seq(Byte)
        /\ Len(three \o tail) = Len(three) + Len(tail)
        /\ \A k \in 1..(Len(three) + Len(tail)) :
              (three \o tail)[k] =
                  IF k <= Len(three) THEN three[k] ELSE tail[k - Len(three)]
    BY <1>5, <1>6, ConcatProperties, Zenon
  <2>. QED
    BY <1>5, <1>6, <1>8, <2>1
<1>11. new[1] = three[1] /\ new[2] = three[2] /\ new[3] = three[3]
  <2>1. /\ 1 \in 1..(3 + count) /\ 2 \in 1..(3 + count) /\ 3 \in 1..(3 + count)
        /\ 1 <= 3 /\ 2 <= 3 /\ 3 <= 3
    BY <1>4
  <2>. QED
    BY <1>10, <2>1, Zenon
<1>12. ASSUME NEW k \in 4..(3 + count)
       PROVE  new[k].field = "member"
  <2>1. k \in 1..(3 + count) /\ ~(k <= 3) /\ k - 3 \in 1..count
    BY <1>4
  <2>2. new[k] = tail[k - 3]
    BY <1>10, <2>1
  <2>. QED
    BY <1>7, <2>1, <2>2
<1>13. IsCommand(new)
  <2>1. /\ new[1].field = "cmd" /\ new[1].val = CMD_SET_LOCAL_GW
        /\ new[2].field = "target"
        /\ new[3].field = "count" /\ new[3].val = count
    BY <1>9, <1>11
  <2>2. Len(new) = 3 + count /\ 3 + count >= 3 /\ 3 + count >= 2
    <3>1. Len(new) = 3 + count
      BY <1>10
    <3>. QED
      BY <1>4, <3>1
  <2>. QED
    BY <1>12, <2>1, <2>2 DEF IsCommand
<1>. QED
  BY <1>4, <1>10, <1>13 DEF new, count

\* A command of its own length is put in as a whole or not at all.
LEMMA PutClusterPreserves ==
    ASSUME WInv, PutCluster
    PROVE  WInv'
<1>1. PICK head \in Mote, others \in SUBSET Mote :
          /\ head \notin others
          /\ \E members \in SetToSeqs(others) : SendClusteringCommand(head, members)
  BY DEF PutCluster
<1>2. PICK members \in SetToSeqs(others) : SendClusteringCommand(head, members)
  BY <1>1
<1>. DEFINE new == ClusterCommand(head, members)
<1>3. /\ Len(members) \in 0..255 /\ new \in Seq(Byte)
      /\ Len(new) = 3 + Len(members) /\ IsCommand(new)
  BY <1>1, ClusterIsCommand
<1>4. Fits(Len(members)) /\ PutAll(new)
  BY <1>2 DEF SendClusteringCommand, ClusterCommand
<1>. HIDE DEF new
<1>5. Stored(Len(new)) = Len(new)
  <2>1. Len(commanderBuff) \in Nat
    BY DEF WInv, TypeOK
  <2>. QED
    BY <1>3, <1>4, <2>1, SizeAssumption DEF Fits, Stored, Capacity
<1>. QED
  BY <1>3, <1>4, <1>5, PutPreserves

\* The buffer is emptied when the commander gets its first event.
LEMMA BootPreserves == WInv /\ Boot => WInv'
<1>. SUFFICES ASSUME WInv, Boot PROVE WInv'
  OBVIOUS
<1>1. commanderBuff' \in Seq(Byte) /\ Len(commanderBuff') <= Capacity
  <2>1. commanderBuff' \in Seq(Byte) /\ Len(commanderBuff') = 0
    BY EmptySeq DEF Boot
  <2>. QED
    BY <2>1, SizeAssumption DEF Capacity
<1>2. TypeOK'
  BY <1>1 DEF Boot, WInv, TypeOK, Byte
<1>3. MembersLeft' = 0 /\ commanderBuff' = <<>> /\ misread' = misread
  BY DEF Boot, MembersLeft
<1>4. WholeAfter(commanderBuff', MembersLeft')
  BY <1>3, EmptyIsWhole
<1>. QED
  BY <1>2, <1>3, <1>4 DEF WInv, ReadsWhatWasWritten

\* What the commander's steps leave in the buffer.
LEMMA TakenBytes ==
    ASSUME WInv, NEW n \in 0..Len(commanderBuff)
    PROVE  Taken(n) \in Seq(Byte) /\ Len(Taken(n)) <= Capacity
<1>1. commanderBuff \in Seq(Byte) /\ Len(commanderBuff) <= Capacity
  BY DEF WInv, TypeOK, Byte
<1>2. Capacity \in Nat /\ Len(commanderBuff) \in Nat
  BY <1>1, SizeAssumption, LenProperties DEF Capacity
<1>3. Taken(n) \in Seq(Byte) /\ Len(Taken(n)) = Len(commanderBuff) - n
  BY <1>1, RestOfSeq DEF Taken
<1>. QED
  BY <1>1, <1>2, <1>3

\* An idle commander finds a whole command at the front of the buffer.
LEMMA TakeCommandPreserves == WInv /\ TakeCommand => WInv'
<1>. SUFFICES ASSUME WInv, TakeCommand PROVE WInv'
  OBVIOUS
<1>. DEFINE len == Len(commanderBuff)
<1>1. /\ commanderBuff \in Seq(Byte) /\ len \in Nat /\ len > 1
      /\ phase = "idle" /\ ~misread
  BY LenProperties DEF WInv, TypeOK, Byte, TakeCommand, ReadsWhatWasWritten
<1>2. PICK starts \in SUBSET (0..len) : 0 \in starts /\ Delimits(commanderBuff, starts)
  BY <1>1 DEF WInv, WholeAfter, MembersLeft
<1>3. CommandAt(commanderBuff, 0, starts)
  BY <1>1, <1>2 DEF Delimits
<1>. DEFINE cmd == commanderBuff[1].val
            target == commanderBuff[2].val
            wrong == Nth(1).field # "cmd" \/ Nth(2).field # "target"
<1>4. /\ commanderBuff[1].field = "cmd" /\ commanderBuff[2].field = "target"
      /\ cmd # CMD_SET_LOCAL_GW => 2 \in starts
      /\ cmd = CMD_SET_LOCAL_GW =>
            /\ 3 <= len
            /\ commanderBuff[3].field = "count"
            /\ 3 + commanderBuff[3].val \in starts
            /\ \A k \in 4..(3 + commanderBuff[3].val) :
                  commanderBuff[k].field = "member"
  BY <1>3 DEF CommandAt
<1>5. cmd \in 0..255 /\ target \in 0..255
  <2>1. 1 \in 1..len /\ 2 \in 1..len
    BY <1>1
  <2>2. commanderBuff[1] \in Byte /\ commanderBuff[2] \in Byte
    BY <1>1, <2>1, ElementOfSeq
  <2>. QED
    BY <2>2 DEF Byte
<1>6. Nth(1) = commanderBuff[1] /\ Nth(2) = commanderBuff[2]
  BY <1>1 DEF Nth
<1>0. ~wrong
  BY <1>4, <1>6
<1>7. /\ currentCommand' = cmd /\ currentTarget' = target /\ torn' = torn
      /\ \/ /\ cmd = CMD_QUERY_MOTE
            /\ Broadcast(cmd, target, target)
            /\ commanderBuff' = Taken(2)
            /\ misread' = (misread \/ wrong)
            /\ UNCHANGED <<phase, members_count, i>>
         \/ /\ cmd = CMD_SET_LOCAL_GW
            /\ Broadcast(cmd, target, target)
            /\ members_count' = Nth(3).val
            /\ i' = 0
            /\ phase' = IF MoreMembers(0, members_count') THEN "members" ELSE "idle"
            /\ commanderBuff' = Taken(3)
            /\ misread' = (misread \/ wrong \/ Nth(3).field # "count")
         \/ /\ cmd \notin {CMD_QUERY_MOTE, CMD_SET_LOCAL_GW}
            /\ i' = 0
            /\ phase' = IF MoreCows(0) THEN "cows" ELSE "idle"
            /\ commanderBuff' = Taken(2)
            /\ misread' = (misread \/ wrong)
            /\ UNCHANGED <<members_count, sent>>
  BY <1>6, Zenon DEF TakeCommand
<1>. HIDE DEF cmd, target, wrong
<1>8. Broadcast(cmd, target, target) =>
          sent' \in [cmd : 0..255, target : 0..255, to : 0..255]
  BY <1>5 DEF Broadcast
<1>9. /\ currentCommand' \in 0..255 /\ currentTarget' \in 0..255
      /\ members_count \in 0..255 /\ i \in 0..255 /\ torn' \in BOOLEAN
      /\ sent \in [cmd : 0..255, target : 0..255, to : 0..255]
  BY <1>5, <1>7 DEF WInv, TypeOK
<1>10. CASE cmd # CMD_SET_LOCAL_GW
  <2>1. 2 \in starts /\ 2 \in 0..len
    BY <1>1, <1>4, <1>10 DEF cmd
  <2>2. WholeAfter(Taken(2), 0)
    <3>1. \A k \in (2 + 1)..2 : commanderBuff[k].field = "member"
      OBVIOUS
    <3>2. WholeAfter(SubSeq(commanderBuff, 2 + 1, Len(commanderBuff)), 2 - 2)
      BY <1>1, <1>2, <2>1, <3>1, TakingBytes
    <3>. QED
      BY <3>2 DEF Taken
  <2>3. Taken(2) \in Seq(Byte) /\ Len(Taken(2)) <= Capacity
    BY <2>1, TakenBytes
  <2>4. /\ commanderBuff' = Taken(2)
        /\ phase' \in {"idle", "cows"} /\ i' \in 0..255 /\ members_count' \in 0..255
        /\ phase' = "cows" => i' < NUMBER_OF_COWS
        /\ sent' \in [cmd : 0..255, target : 0..255, to : 0..255]
    <3>1. CASE /\ Broadcast(cmd, target, target)
               /\ commanderBuff' = Taken(2)
               /\ UNCHANGED <<phase, members_count, i>>
      BY <1>1, <1>8, <1>9, <3>1
    <3>2. CASE /\ i' = 0
               /\ phase' = IF MoreCows(0) THEN "cows" ELSE "idle"
               /\ commanderBuff' = Taken(2)
               /\ UNCHANGED <<members_count, sent>>
      BY <1>9, <3>2 DEF MoreCows
    <3>. QED
      BY <1>7, <1>10, <3>1, <3>2
  <2>9. ~misread' /\ misread' \in BOOLEAN
    BY <1>1, <1>0, <1>7, <1>10, Zenon
  <2>5. TypeOK'
    BY <1>9, <2>3, <2>4, <2>9 DEF TypeOK, Byte
  <2>6. MembersLeft' = 0
    BY <2>4 DEF MembersLeft
  <2>. QED
    BY <2>2, <2>4, <2>5, <2>6, <2>9 DEF WInv, ReadsWhatWasWritten
<1>11. CASE cmd = CMD_SET_LOCAL_GW
  <2>. DEFINE count == commanderBuff[3].val
  <2>1. /\ 3 \in 0..len /\ 3 \in 1..len
        /\ commanderBuff[3].field = "count"
        /\ 3 + count \in starts
        /\ \A k \in (3 + 1)..(3 + count) : commanderBuff[k].field = "member"
    BY <1>1, <1>4, <1>11 DEF cmd
  <2>2. Nth(3) = commanderBuff[3]
    BY <2>1 DEF Nth
  <2>3. count \in 0..255
    BY <1>1, <2>1, ByteValue
  <2>4. /\ commanderBuff' = Taken(3)
        /\ members_count' = count /\ i' = 0
        /\ phase' = IF MoreMembers(0, members_count') THEN "members" ELSE "idle"
        /\ sent' \in [cmd : 0..255, target : 0..255, to : 0..255]
    BY <1>7, <1>8, <1>11, <2>2 DEF CMD_SET_LOCAL_GW, CMD_QUERY_MOTE
  <2>9. ~misread' /\ misread' \in BOOLEAN
    <3>1. misread' = (misread \/ wrong \/ Nth(3).field # "count")
      BY <1>7, <1>11 DEF CMD_SET_LOCAL_GW, CMD_QUERY_MOTE
    <3>2. Nth(3).field = "count"
      BY <2>1, <2>2
    <3>. QED
      BY <1>1, <1>0, <3>1, <3>2, Zenon
  <2>. HIDE DEF count
  <2>5. WholeAfter(Taken(3), count)
    <3>1. 3 \in 0..(3 + count) /\ (3 + count) - 3 = count
      BY <2>3
    <3>2. WholeAfter(SubSeq(commanderBuff, 3 + 1, Len(commanderBuff)), (3 + count) - 3)
      BY <1>1, <1>2, <2>1, <3>1, TakingBytes
    <3>. QED
      BY <3>1, <3>2 DEF Taken
  <2>6. Taken(3) \in Seq(Byte) /\ Len(Taken(3)) <= Capacity
    BY <2>1, TakenBytes
  <2>7. TypeOK'
    BY <1>9, <2>3, <2>4, <2>6, <2>9 DEF TypeOK, Byte, MoreMembers
  <2>8. MembersLeft' = count
    BY <2>3, <2>4 DEF MembersLeft, MoreMembers
  <2>. QED
    BY <2>4, <2>5, <2>7, <2>8, <2>9 DEF WInv, ReadsWhatWasWritten
<1>. QED
  BY <1>10, <1>11

\* A commander half way through a cluster finds a member at the front of the
\* buffer.
LEMMA SendToMemberPreserves == WInv /\ SendToMember => WInv'
<1>. SUFFICES ASSUME WInv, SendToMember PROVE WInv'
  OBVIOUS
<1>. DEFINE len == Len(commanderBuff)
            left == members_count - i
<1>1. /\ commanderBuff \in Seq(Byte) /\ len \in Nat
      /\ phase = "members" /\ ~misread
      /\ members_count \in 0..255 /\ i \in 0..255 /\ i < members_count
  BY LenProperties DEF WInv, TypeOK, Byte, SendToMember, ReadsWhatWasWritten
<1>2. left \in Nat /\ left >= 1 /\ MembersLeft = left
  BY <1>1 DEF MembersLeft
<1>. HIDE DEF left
<1>3. \A k \in 1..left : commanderBuff[k].field = "member"
  BY <1>2 DEF WInv, WholeAfter
<1>4. PICK starts \in SUBSET (0..len) : left \in starts /\ Delimits(commanderBuff, starts)
  BY <1>2 DEF WInv, WholeAfter
<1>5. 1 \in 1..len /\ 1 \in 0..len /\ 1 \in 0..left /\ 1 \in 1..left
  <2>1. left <= len
    BY <1>1, <1>4
  <2>. QED
    BY <1>1, <1>2, <2>1
<1>6. Nth(1) = commanderBuff[1] /\ commanderBuff[1].field = "member"
  BY <1>1, <1>3, <1>5 DEF Nth
<1>7. commanderBuff[1].val \in 0..255
  BY <1>1, <1>5, ByteValue
<1>8. WholeAfter(Taken(1), left - 1)
  <2>1. \A k \in (1 + 1)..left : commanderBuff[k].field = "member"
    BY <1>2, <1>3
  <2>2. WholeAfter(SubSeq(commanderBuff, 1 + 1, Len(commanderBuff)), left - 1)
    BY <1>1, <1>4, <1>5, <2>1, TakingBytes
  <2>. QED
    BY <2>2 DEF Taken
<1>9. Taken(1) \in Seq(Byte) /\ Len(Taken(1)) <= Capacity
  BY <1>5, TakenBytes
<1>10. /\ commanderBuff' = Taken(1) /\ ~misread' /\ i' = i + 1
       /\ phase' = IF i' < members_count THEN "members" ELSE "idle"
       /\ UNCHANGED <<currentCommand, currentTarget, members_count, torn>>
  BY <1>1, <1>6 DEF SendToMember, MoreMembers
<1>11. sent' \in [cmd : 0..255, target : 0..255, to : 0..255]
  <2>1. currentCommand \in 0..255 /\ currentTarget \in 0..255
    BY DEF WInv, TypeOK
  <2>. QED
    BY <1>6, <1>7, <2>1 DEF SendToMember, Broadcast
<1>12. i' \in 0..255 /\ MembersLeft' = left - 1
  BY <1>1, <1>10 DEF MembersLeft, left
<1>13. misread' \in BOOLEAN
  BY <1>1, <1>6 DEF SendToMember, WInv, TypeOK
<1>14. TypeOK'
  BY <1>9, <1>10, <1>11, <1>12, <1>13 DEF WInv, TypeOK, Byte
<1>. QED
  BY <1>8, <1>10, <1>12, <1>14 DEF WInv, ReadsWhatWasWritten

\* A command to every cow leaves the buffer alone.
LEMMA SendToCowPreserves == WInv /\ SendToCow => WInv'
<1>. SUFFICES ASSUME WInv, SendToCow PROVE WInv'
  OBVIOUS
<1>1. /\ phase = "cows" /\ i \in 0..255 /\ i < NUMBER_OF_COWS /\ i' = i + 1
      /\ phase' = IF i' < NUMBER_OF_COWS THEN "cows" ELSE "idle"
      /\ UNCHANGED <<commanderBuff, currentCommand, currentTarget, members_count,
                     misread, torn>>
  BY DEF WInv, TypeOK, SendToCow, MoreCows
<1>2. register_cows[i + 1] \in 0..255 /\ i' \in 0..255
  <2>1. i + 1 \in 1..NUMBER_OF_COWS /\ i' \in 0..255
    BY <1>1, CowsAssumption
  <2>2. register_cows[i + 1] \in Mote
    BY <2>1, CowsAssumption
  <2>. QED
    BY <2>1, <2>2, MoteAssumption
<1>3. sent' \in [cmd : 0..255, target : 0..255, to : 0..255]
  <2>1. currentCommand \in 0..255 /\ currentTarget \in 0..255
    BY DEF WInv, TypeOK
  <2>. QED
    BY <1>2, <2>1 DEF SendToCow, Broadcast
<1>4. TypeOK'
  BY <1>1, <1>2, <1>3 DEF WInv, TypeOK, Capacity
<1>5. MembersLeft = 0 /\ MembersLeft' = 0
  BY <1>1 DEF MembersLeft
<1>. QED
  BY <1>1, <1>4, <1>5 DEF WInv, ReadsWhatWasWritten

-----------------------------------------------------------------------------
(* The types, whether a pair was torn or not.                              *)

\* What a step leaves in the buffer, which may hold less than it takes.
LEMMA TakenTyped ==
    ASSUME TypeOK, NEW n \in Nat
    PROVE  Taken(n) \in Seq(Byte) /\ Len(Taken(n)) <= Capacity
<1>1. commanderBuff \in Seq(Byte) /\ Len(commanderBuff) <= Capacity
  BY DEF TypeOK, Byte
<1>2. Capacity \in Nat /\ Len(commanderBuff) \in Nat
  BY <1>1, SizeAssumption, LenProperties DEF Capacity
<1>3. CASE n <= Len(commanderBuff)
  <2>1. n \in 0..Len(commanderBuff)
    BY <1>2, <1>3
  <2>2. Taken(n) \in Seq(Byte) /\ Len(Taken(n)) = Len(commanderBuff) - n
    BY <1>1, <2>1, RestOfSeq DEF Taken
  <2>. QED
    BY <1>1, <1>2, <2>2
<1>4. CASE ~(n <= Len(commanderBuff))
  <2>1. n + 1 \in Int /\ Len(commanderBuff) \in Int /\ Len(commanderBuff) < n + 1
    BY <1>2, <1>4
  <2>2. Taken(n) = <<>>
    BY <2>1, SubSeqEmpty DEF Taken
  <2>3. Taken(n) \in Seq(Byte) /\ Len(Taken(n)) = 0
    BY <2>2, EmptySeq
  <2>. QED
    BY <1>2, <2>3
<1>. QED
  BY <1>3, <1>4

\* ringbuf_get gives a byte, also of an empty buffer.
LEMMA NthTyped ==
    ASSUME TypeOK, NEW n \in Nat \ {0}
    PROVE  Nth(n).val \in 0..255
<1>1. commanderBuff \in Seq(Byte) /\ Len(commanderBuff) \in Nat
  BY LenProperties DEF TypeOK, Byte
<1>2. CASE n <= Len(commanderBuff)
  <2>1. n \in 1..Len(commanderBuff)
    BY <1>1, <1>2
  <2>. QED
    BY <1>1, <1>2, <2>1, ByteValue DEF Nth
<1>3. CASE ~(n <= Len(commanderBuff))
  BY <1>3 DEF Nth, Empty
<1>. QED
  BY <1>2, <1>3

\* However many bytes of a command are refused, the others fit.
LEMMA PutTyped ==
    ASSUME TypeOK, NEW new \in Seq(Byte), PutAll(new)
    PROVE  TypeOK'
<1>. DEFINE room == Capacity - Len(commanderBuff)
            stored == Stored(Len(new))
            part == SubSeq(new, 1, stored)
<1>1. /\ commanderBuff \in Seq(Byte) /\ Len(commanderBuff) \in Nat
      /\ Len(commanderBuff) <= Capacity /\ Capacity \in Nat /\ Len(new) \in Nat
  BY SizeAssumption, LenProperties DEF TypeOK, Byte, Capacity
<1>2. stored \in Nat /\ stored <= room /\ stored <= Len(new)
  BY <1>1 DEF Stored
<1>3. /\ commanderBuff' = commanderBuff \o part
      /\ torn' \in BOOLEAN
      /\ UNCHANGED <<phase, currentCommand, currentTarget, members_count, i, sent,
                     misread>>
  BY DEF PutAll, TypeOK
<1>. HIDE DEF stored
<1>4. part \in Seq(Byte) /\ Len(part) = stored
  <2>1. \A k \in 1..stored : new[k] \in Byte
    <3>. SUFFICES ASSUME NEW k \in 1..stored PROVE new[k] \in Byte
      OBVIOUS
    <3>1. k \in 1..Len(new)
      BY <1>1, <1>2
    <3>. QED
      BY <3>1, ElementOfSeq
  <2>2. /\ part \in Seq(Byte)
        /\ Len(part) = IF 1 <= stored THEN stored - 1 + 1 ELSE 0
    BY <1>2, <2>1, SubSeqProperties
  <2>. HIDE DEF part
  <2>. QED
    BY <1>2, <2>2
<1>. HIDE DEF part
<1>5. commanderBuff' \in Seq(Byte) /\ Len(commanderBuff') <= Capacity
  <2>1. /\ commanderBuff \o part \in Seq(Byte)
        /\ Len(commanderBuff \o part) = Len(commanderBuff) + Len(part)
    BY <1>1, <1>4, ConcatProperties
  <2>. QED
    BY <1>1, <1>2, <1>3, <1>4, <2>1
<1>. QED
  BY <1>3, <1>5 DEF TypeOK, Capacity, Byte

\* The callers put in bytes.
LEMMA PutPairTyped == TypeOK /\ PutPair => TypeOK'
<1>. SUFFICES ASSUME TypeOK, PutPair PROVE TypeOK'
  OBVIOUS
<1>1. PICK cmd \in 0..255, target \in Target : PutAll(Pair(cmd, target))
  BY DEF PutPair, QueryCommand, HandleCommand, MissingCows, CMD_QUERY_MOTE,
         CMD_EMERGENCY_ONE, CMD_EMERGENCY_TWO, CMD_CANCEL_EMERGENCY_ONE
<1>2. Pair(cmd, target) \in Seq(Byte)
  <2>1. /\ [val |-> cmd, field |-> "cmd"] \in Byte
        /\ [val |-> target, field |-> "target"] \in Byte
    BY MoteAssumption DEF Byte
  <2>. QED
    BY <2>1 DEF Pair
<1>. QED
  BY <1>1, <1>2, PutTyped

LEMMA PutClusterTyped == TypeOK /\ PutCluster => TypeOK'
<1>. SUFFICES ASSUME TypeOK, PutCluster PROVE TypeOK'
  OBVIOUS
<1>1. PICK head \in Mote, others \in SUBSET Mote :
          /\ head \notin others
          /\ \E members \in SetToSeqs(others) : SendClusteringCommand(head, members)
  BY DEF PutCluster
<1>2. PICK members \in SetToSeqs(others) : SendClusteringCommand(head, members)
  BY <1>1
<1>3. ClusterCommand(head, members) \in Seq(Byte)
  BY <1>1, ClusterIsCommand
<1>4. PutAll(ClusterCommand(head, members))
  BY <1>2 DEF SendClusteringCommand, ClusterCommand
<1>. QED
  BY <1>3, <1>4, PutTyped

\* The commander keeps its loops within their counts whatever it reads.
LEMMA SendTyped == TypeOK /\ Send => TypeOK'
<1>. SUFFICES ASSUME TypeOK, Send PROVE TypeOK'
  OBVIOUS
<1>. DEFINE Sent == [cmd : 0..255, target : 0..255, to : 0..255]
<1>0. /\ currentCommand \in 0..255 /\ currentTarget \in 0..255
      /\ members_count \in 0..255 /\ i \in 0..255 /\ sent \in Sent
      /\ misread \in BOOLEAN /\ torn \in BOOLEAN
      /\ commanderBuff \in Seq(Byte) /\ Len(commanderBuff) <= Capacity
  BY DEF TypeOK, Byte
<1>1. \A n \in Nat : Taken(n) \in Seq(Byte) /\ Len(Taken(n)) <= Capacity
  BY TakenTyped
<1>2. \A n \in Nat \ {0} : Nth(n).val \in 0..255
  BY NthTyped
<1>3. CASE Boot
  <2>1. commanderBuff' \in Seq(Byte) /\ Len(commanderBuff') <= Capacity
    <3>1. commanderBuff' \in Seq(Byte) /\ Len(commanderBuff') = 0
      BY <1>3, EmptySeq DEF Boot
    <3>. QED
      BY <3>1, SizeAssumption DEF Capacity
  <2>. QED
    BY <1>0, <1>3, <2>1 DEF Boot, TypeOK, Byte, Capacity
<1>4. CASE TakeCommand
  <2>. DEFINE cmd == Nth(1).val
              target == Nth(2).val
              count == Nth(3).val
              wrong == Nth(1).field # "cmd" \/ Nth(2).field # "target"
  <2>1. cmd \in 0..255 /\ target \in 0..255 /\ count \in 0..255
    BY <1>2
  <2>2. /\ currentCommand' = cmd /\ currentTarget' = target /\ torn' = torn
        /\ phase = "idle"
        /\ \/ /\ Broadcast(cmd, target, target)
              /\ commanderBuff' = Taken(2)
              /\ misread' = (misread \/ wrong)
              /\ UNCHANGED <<phase, members_count, i>>
           \/ /\ Broadcast(cmd, target, target)
              /\ members_count' = count
              /\ i' = 0
              /\ phase' = IF MoreMembers(0, members_count') THEN "members" ELSE "idle"
              /\ commanderBuff' = Taken(3)
              /\ misread' = (misread \/ wrong \/ Nth(3).field # "count")
           \/ /\ i' = 0
              /\ phase' = IF MoreCows(0) THEN "cows" ELSE "idle"
              /\ commanderBuff' = Taken(2)
              /\ misread' = (misread \/ wrong)
              /\ UNCHANGED <<members_count, sent>>
    BY <1>4, Zenon DEF TakeCommand
  <2>. HIDE DEF cmd, target, count, wrong
  <2>3. misread' \in BOOLEAN
    BY <1>0, <2>2, Zenon
  <2>4. /\ commanderBuff' \in Seq(Byte) /\ Len(commanderBuff') <= Capacity
    BY <1>1, <2>2
  <2>5. sent' \in Sent
    <3>1. Broadcast(cmd, target, target) \/ sent' = sent
      BY <2>2, Zenon
    <3>2. Broadcast(cmd, target, target) => sent' \in Sent
      BY <2>1 DEF Broadcast
    <3>3. sent \in Sent
      BY <1>0
    <3>. QED
      BY <3>1, <3>2, <3>3
  <2>7. \/ UNCHANGED <<phase, members_count, i>>
        \/ /\ members_count' = count /\ i' = 0
           /\ phase' = IF MoreMembers(0, members_count') THEN "members" ELSE "idle"
        \/ /\ i' = 0 /\ members_count' = members_count
           /\ phase' = IF MoreCows(0) THEN "cows" ELSE "idle"
    BY <2>2, Zenon
  <2>6. /\ phase' \in {"idle", "members", "cows"}
        /\ members_count' \in 0..255 /\ i' \in 0..255
        /\ phase' = "members" => i' < members_count'
        /\ phase' = "cows" => i' < NUMBER_OF_COWS
    <3>1. CASE UNCHANGED <<phase, members_count, i>>
      BY <1>0, <2>2, <3>1
    <3>2. CASE /\ members_count' = count /\ i' = 0
               /\ phase' = IF MoreMembers(0, members_count') THEN "members" ELSE "idle"
      BY <2>1, <3>2 DEF MoreMembers
    <3>3. CASE /\ i' = 0 /\ members_count' = members_count
               /\ phase' = IF MoreCows(0) THEN "cows" ELSE "idle"
      BY <1>0, <3>3 DEF MoreCows
    <3>. QED
      BY <2>7, <3>1, <3>2, <3>3
  <2>. QED
    BY <1>0, <2>1, <2>2, <2>3, <2>4, <2>5, <2>6 DEF TypeOK, Byte, Capacity
<1>5. CASE SendToMember
  <2>1. /\ commanderBuff' = Taken(1) /\ i' = i + 1 /\ phase = "members"
        /\ phase' = IF i' < members_count THEN "members" ELSE "idle"
        /\ misread' = (misread \/ Nth(1).field # "member")
        /\ sent' = [cmd |-> currentCommand, target |-> currentTarget, to |-> Nth(1).val]
        /\ UNCHANGED <<currentCommand, currentTarget, members_count, torn>>
    BY <1>5 DEF SendToMember, MoreMembers, Broadcast
  <2>2. i < members_count
    BY <2>1 DEF TypeOK
  <2>3. i' \in 0..255
    BY <1>0, <2>1, <2>2
  <2>4. sent' \in Sent
    BY <1>0, <1>2, <2>1
  <2>5. misread' \in BOOLEAN
    BY <1>0, <2>1, Zenon
  <2>6. commanderBuff' \in Seq(Byte) /\ Len(commanderBuff') <= Capacity
    BY <1>1, <2>1
  <2>. QED
    BY <1>0, <2>1, <2>3, <2>4, <2>5, <2>6 DEF TypeOK, Byte, Capacity
<1>6. CASE SendToCow
  <2>1. /\ phase = "cows" /\ i' = i + 1
        /\ phase' = IF i' < NUMBER_OF_COWS THEN "cows" ELSE "idle"
        /\ sent' = [cmd |-> currentCommand, target |-> currentTarget,
                    to |-> register_cows[i + 1]]
        /\ UNCHANGED <<commanderBuff, currentCommand, currentTarget, members_count,
                       misread, torn>>
    BY <1>6 DEF SendToCow, MoreCows, Broadcast
  <2>2. i < NUMBER_OF_COWS
    BY <2>1 DEF TypeOK
  <2>3. i + 1 \in 1..NUMBER_OF_COWS /\ i' \in 0..255
    BY <1>0, <2>1, <2>2, CowsAssumption
  <2>4. register_cows[i + 1] \in 0..255
    BY <2>3, CowsAssumption, MoteAssumption
  <2>5. sent' \in Sent
    BY <1>0, <2>1, <2>4
  <2>. QED
    BY <1>0, <2>1, <2>3, <2>5 DEF TypeOK, Byte, Capacity
<1>. QED
  BY <1>3, <1>4, <1>5, <1>6 DEF Send

-----------------------------------------------------------------------------
\* A pair that is not torn meets room for both of its bytes or for none.
LEMMA UntornPairHadRoom ==
    ASSUME TypeOK, PutPair, ~torn'
    PROVE  Len(commanderBuff) # Capacity - 1
<1>1. PICK cmd, target : PutAll(Pair(cmd, target))
  BY DEF PutPair, QueryCommand, HandleCommand, MissingCows
<1>2. Len(Pair(cmd, target)) = 2
  BY DEF Pair
<1>3. Stored(2) # 1
  BY <1>1, <1>2 DEF PutAll
<1>4. Len(commanderBuff) \in Nat /\ Capacity \in Nat
  BY SizeAssumption, LenProperties DEF TypeOK, Capacity
<1>. QED
  BY <1>3, <1>4 DEF Stored

\* A torn pair stays torn.
LEMMA TornStays == torn /\ [Next]_vars => torn'
BY DEF Next, PutPair, PutCluster, QueryCommand, HandleCommand, MissingCows,
       SendClusteringCommand, PutAll, Send, Boot, TakeCommand, SendToMember,
       SendToCow, vars

\* Every step keeps the types, and everything in its place unless it tears a
\* pair.
LEMMA StepPreserves == CInv /\ [Next]_vars => CInv'
<1>. SUFFICES ASSUME CInv, [Next]_vars PROVE CInv'
  OBVIOUS
<1>1. TypeOK'
  <2>1. TypeOK
    BY DEF CInv
  <2>2. CASE UNCHANGED vars
    BY <2>1, <2>2 DEF vars, TypeOK, Capacity
  <2>. QED
    BY <2>1, <2>2, PutPairTyped, PutClusterTyped, SendTyped DEF Next
<1>2. ASSUME ~torn' PROVE WInv'
  <2>1. WInv
    BY <1>2, TornStays DEF CInv
  <2>2. CASE PutPair
    BY <1>2, <2>1, <2>2, UntornPairHadRoom, PutPairPreserves DEF WInv
  <2>3. CASE PutCluster
    BY <2>1, <2>3, PutClusterPreserves
  <2>4. CASE Boot
    BY <2>1, <2>4, BootPreserves
  <2>5. CASE TakeCommand
    BY <2>1, <2>5, TakeCommandPreserves
  <2>6. CASE SendToMember
    BY <2>1, <2>6, SendToMemberPreserves
  <2>7. CASE SendToCow
    BY <2>1, <2>7, SendToCowPreserves
  <2>8. CASE UNCHANGED vars
    <3>1. MembersLeft' = MembersLeft
      BY <2>8 DEF vars, MembersLeft
    <3>. QED
      BY <2>1, <2>8, <3>1 DEF vars, WInv, TypeOK, ReadsWhatWasWritten, Capacity
  <2>. QED
    BY <2>2, <2>3, <2>4, <2>5, <2>6, <2>7, <2>8 DEF Next, Send
<1>. QED
  BY <1>1, <1>2 DEF CInv

LEMMA InitCInv == Init => CInv
BY InitWInv DEF CInv, WInv

-----------------------------------------------------------------------------
\* Until a pair is torn the buffer holds the rest of one command and then whole
\* commands.
THEOREM CommanderInvariance == Spec => []CInv
BY InitCInv, StepPreserves, PTL DEF Spec

\* The buffer never holds more than it has room for, and the loops over members
\* and cows stay within their counts, torn commands or not.
THEOREM CommanderTypeCorrect == Spec => []TypeOK
<1>1. CInv => TypeOK
  BY DEF CInv
<1>. QED
  BY <1>1, CommanderInvariance, PTL

\* The commander takes a byte for another field than it is only after the buffer
\* took one byte of a pair and refused the other (gateway.c:76-97, 292-293):
\* clusters have commands of their own length and it stops half way through them
\* (gateway.c:631-648), and neither makes it lose its place.
THEOREM MisreadOnlyWhenTornHolds == Spec => []MisreadOnlyWhenTorn
<1>1. CInv => MisreadOnlyWhenTorn
  BY DEF CInv, WInv, ReadsWhatWasWritten, MisreadOnlyWhenTorn
<1>. QED
  BY <1>1, CommanderInvariance, PTL
=============================================================================
