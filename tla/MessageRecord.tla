--------------------------- MODULE MessageRecord ----------------------------
(***************************************************************************)
(* The record in which a mote collects what it measures, and its form on   *)
(* the wire (libmessage.c).  motions is one machine word that holds a      *)
(* motion in every two bits, the newest in the lowest; on the wire it is   *)
(* cut into bytes, the lowest first.  neighbours stands for the array and  *)
(* its count.                                                              *)
(***************************************************************************)
EXTENDS Naturals, Integers, Sequences

CONSTANTS
    MOTION_MAX,       \* 32: motions a word has room for
    MAX_NEIGHBOURS    \* 20

ASSUME MotionAssumption == MOTION_MAX \in {4 * n : n \in 1..8}
ASSUME NeighbourAssumption == MAX_NEIGHBOURS \in 1..20

MSG_MESSAGE == 0
BYTE == 256
IdLimit == 63    \* 0x3F

\* A word is shifted by two bits a motion; this is what a shift by n motions
\* multiplies by.
Shift[n \in 0..MOTION_MAX] == IF n = 0 THEN 1 ELSE 4 * Shift[n - 1]

Zero(mote_id) == [id |-> 0, mote_id |-> mote_id, temp |-> 0, battery |-> 0,
                  motionCount |-> 0, motions |-> 0, neighbours |-> <<>>]

-----------------------------------------------------------------------------
(* Operators whose names end in Wrong are what a plausible mistake would    *)
(* make of the definition that follows them; no specification uses them.   *)

GetMsgId(m) == m.id \div 4

\* Starts again when the ids are used up.
SetMsgIdWrong(m, id) == [m EXCEPT !.id = 4 * (IF id > IdLimit THEN 0 ELSE id)]

SetMsgId(m, id) ==
    [m EXCEPT !.id = 4 * (IF id > IdLimit THEN id % IdLimit ELSE id) + MSG_MESSAGE]

\* Counts on.
CountedWrong(motionCount) == motionCount + 1

Counted(motionCount) == IF motionCount < MOTION_MAX THEN motionCount + 1
                        ELSE MOTION_MAX

\* The oldest motion drops out of the word.
AddMotion(m, motion) ==
    [m EXCEPT !.motionCount = Counted(@),
              !.motions = (@ * 4 + (motion % 4)) % Shift[MOTION_MAX]]

\* Does not look for the neighbour.
AddNeighbourWrong(m, neighbour) ==
    [m EXCEPT !.neighbours =
         IF Len(@) < MAX_NEIGHBOURS THEN Append(@, neighbour) ELSE @]

\* One too many.
AddNeighbourLate(m, neighbour) ==
    [m EXCEPT !.neighbours =
         IF Len(@) <= MAX_NEIGHBOURS /\ \A k \in DOMAIN @ : @[k] # neighbour
         THEN Append(@, neighbour) ELSE @]

AddNeighbour(m, neighbour) ==
    [m EXCEPT !.neighbours =
         IF Len(@) < MAX_NEIGHBOURS /\ \A k \in DOMAIN @ : @[k] # neighbour
         THEN Append(@, neighbour) ELSE @]

\* Keeps the number of motions.
ClearedWrong(m) == [Zero(m.mote_id) EXCEPT !.id = m.id,
                                           !.motionCount = m.motionCount]

Cleared(m) == [Zero(m.mote_id) EXCEPT !.id = m.id]

ResetMessage(m) == SetMsgId(Cleared(m), GetMsgId(m) + 1)

-----------------------------------------------------------------------------
\* The bytes of a word that n motions take: one also for none of them.
MotionBytes(n) == IF n = 0 THEN 1 ELSE (n + 3) \div 4

\* Forgets to shift.
WordByteWrong(word, k) == word % BYTE

WordByte(word, k) == (word \div Shift[4 * (k - 1)]) % BYTE

\* encodeData
Encode(m) ==
    <<m.id, m.mote_id, m.temp % BYTE, m.battery, m.motionCount>>
    \o [k \in 1..MotionBytes(m.motionCount) |-> WordByte(m.motions, k)]
    \o <<Len(m.neighbours)>> \o m.neighbours

\* decode, which takes every length from the packet itself.
Decode(buffer) ==
    LET n == MotionBytes(buffer[5])
        word[k \in 0..n] == IF k = 0 THEN 0
                            ELSE word[k - 1] + buffer[5 + k] * Shift[4 * (k - 1)]
    IN  [id |-> buffer[1], mote_id |-> buffer[2],
         temp |-> IF buffer[3] < 128 THEN buffer[3] ELSE buffer[3] - BYTE,
         battery |-> buffer[4], motionCount |-> buffer[5],
         motions |-> word[n],
         neighbours |-> SubSeq(buffer, 7 + n, 6 + n + buffer[6 + n])]

\* getMotionArray and get_average_motion: the newest motion comes first.
MotionArray(m) == [k \in 1..m.motionCount |-> (m.motions \div Shift[k - 1]) % 4]
=============================================================================
