----------------------------- MODULE Telemetry ------------------------------
(***************************************************************************)
(* What a mote measures between two messages (krava.c): motions, the       *)
(* temperature and the neighbours it hears while its broadcast channel is  *)
(* open, and the message it sends of them.                                 *)
(*                                                                         *)
(* motionsRead and idsSent are history.                                    *)
(***************************************************************************)
EXTENDS MessageRecord, FiniteSets, SequencesExt

CONSTANTS
    node_id,
    Neighbour,      \* other motes close enough to be heard
    Motion,         \* STANDING, WALKING and RUNNING, or some of them
    Temperature,    \* what the sensors give, <<temperature, battery>>
    MESSAGE_BYTE_SIZE_MAX,   \* 35: the size of send_buffer
    IDS_KEPT        \* how many of the last ids are remembered

ASSUME TelemetryAssumption ==
    /\ node_id \in 1..255 /\ Neighbour \subseteq (1..255) \ {node_id}
    /\ Motion \subseteq 0..2
    /\ Temperature \subseteq (-128..127) \X (0..100)
    /\ MESSAGE_BYTE_SIZE_MAX \in Nat /\ IDS_KEPT \in Nat

VARIABLES
    m,             \* the record being filled
    listening,     \* the broadcast channel is open
    motionsRead,   \* the motions read since the last message, newest first
    idsSent        \* the ids of the last messages, newest first

telemetryVars == <<m, listening, motionsRead, idsSent>>

\* krava and communication both reset the record when they start.
TelemetryInit ==
    /\ m = ResetMessage(ResetMessage(Zero(node_id)))
    /\ listening = FALSE
    /\ motionsRead = <<>> /\ idsSent = <<>>

-----------------------------------------------------------------------------
\* The newest first, and no more than limit.
Remember(new, old, limit) ==
    SubSeq(<<new>> \o old, 1, IF Len(old) < limit THEN Len(old) + 1 ELSE limit)

\* readMovement, at every other reading.
MovementRead(motion) ==
    /\ m' = AddMotion(m, motion)
    /\ motionsRead' = Remember(motion, motionsRead, MOTION_MAX)
    /\ UNCHANGED <<listening, idsSent>>

\* readTemperature and readBattery.
TemperatureRead(t) ==
    /\ m' = [m EXCEPT !.temp = t[1], !.battery = t[2]]
    /\ UNCHANGED <<listening, motionsRead, idsSent>>

\* broadcast_recv, for a neighbour whose signal is strong enough.
NeighbourHeard(from) ==
    /\ listening
    /\ m' = AddNeighbour(m, from)
    /\ UNCHANGED <<listening, motionsRead, idsSent>>

\* The sense timer of the neighbors process expires.  sensing is an automatic
\* variable of the protothread: after the wait it may hold any value, so that
\* the channel is opened or closed whatever was done last time.
Sense ==
    /\ \E sensing \in {0, 1} : listening' = (sensing = 0)
    /\ UNCHANGED <<m, motionsRead, idsSent>>

\* The advertisement opens the channel and closes it, a period of sensing or not.
Advertise ==
    /\ listening' = FALSE
    /\ UNCHANGED <<m, motionsRead, idsSent>>

\* clusterLearningMode and toggleEmergencyOne flush the neighbours.
FlushNeighbours ==
    /\ m' = [m EXCEPT !.neighbours = <<>>]
    /\ UNCHANGED <<listening, motionsRead, idsSent>>

\* The record as sendMessage encodes it.  The new id is computed from the whole
\* first byte, m.id, and not from the id in it.
Numbered == SetMsgId(m, m.id + 1)

MessageSent ==
    /\ m' = ResetMessage(Numbered)
    /\ motionsRead' = <<>>
    /\ idsSent' = Remember(GetMsgId(Numbered), idsSent, IDS_KEPT)
    /\ UNCHANGED listening

TelemetryNext ==
    \/ \E motion \in Motion : MovementRead(motion)
    \/ \E t \in Temperature : TemperatureRead(t)
    \/ \E from \in Neighbour : NeighbourHeard(from)
    \/ Sense \/ Advertise \/ FlushNeighbours
    \/ MessageSent

TelemetrySpec == TelemetryInit /\ [][TelemetryNext]_telemetryVars

-----------------------------------------------------------------------------
TelemetryTypeOK ==
    /\ m.id \in 0..BYTE - 1 /\ m.mote_id = node_id
    /\ m.motionCount \in 0..MOTION_MAX /\ m.motions \in 0..Shift[MOTION_MAX] - 1
    /\ m.neighbours \in Seq(Neighbour) /\ Len(m.neighbours) <= MAX_NEIGHBOURS
    /\ listening \in BOOLEAN
    /\ motionsRead \in Seq(Motion) /\ idsSent \in Seq(0..IdLimit)

\* What the gateway decodes (gateway.c:162) is the record as the mote sent it,
\* with lengths of which each moves the bytes behind it, motions that take one
\* byte even when there are none, and a sign in an unsigned byte.
WireRoundTrip == Decode(Encode(Numbered)) = Numbered

\* The packet fits into send_buffer (krava.c:395), which nothing checks.
PacketFits == Len(Encode(Numbered)) <= MESSAGE_BYTE_SIZE_MAX

\* The motions of a message are those read since the last one, the newest first
\* (gateway.c:257 takes the first), also after more readings than a word holds.
NewestMotions == MotionArray(m) = motionsRead

\* A neighbour is named once, though it says "Hello" again and again; the score
\* of a head and the members of a cluster count on it (gateway.c:332, 388).
NeighboursDistinct == Cardinality(ToSet(m.neighbours)) = Len(m.neighbours)

\* Of the 63 ids that setMsgId gives out (libmessage.c:23-29) sendMessage uses
\* nine, over and over: nine messages in a row differ in their first byte, and
\* each has the one of the message nine before it.  That is as far as
\* acknowledgements, and findRemoveFromAckList, can tell messages of one mote
\* apart; libmessage.c:21, "we can assume the number will be unique", does not hold
\* of a tenth.
IdsRecur ==
    \A k \in DOMAIN idsSent : \A j \in 1..k :
        idsSent[j] = idsSent[k] <=> (k - j) % 9 = 0
=============================================================================
