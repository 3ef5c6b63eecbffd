----------------------------- MODULE Commander -----------------------------
(***************************************************************************)
(* The command queue of the gateway: gateway_main and the mesh callback    *)
(* put commands, one byte after the other, into the ring buffer            *)
(* commanderBuff; the commander process takes them out and sends them to   *)
(* one mote, to a cluster or to every cow.                                 *)
(*                                                                         *)
(* A byte carries, besides its value, the field the writer meant it to be. *)
(* The field is history: no action looks at it, only misread does, which   *)
(* records that the commander took a byte for another field than it is.    *)
(***************************************************************************)
EXTENDS Naturals, Sequences, FiniteSets, SequencesExt

CONSTANTS
    COMMANDER_BUFF_SIZE,  \* 64
    Mote,                 \* addresses of motes, in and outside clusters
    Target,               \* second bytes of the commands of two bytes
    NUMBER_OF_COWS,       \* 5
    register_cows         \* the addresses of the registered cows

CMD_SET_LOCAL_GW == 0
CMD_QUERY_MOTE == 1
CMD_EMERGENCY_ONE == 2
CMD_EMERGENCY_TWO == 3
CMD_CANCEL_EMERGENCY_ONE == 4

\* Contiki's ring buffer works on a power of two and keeps one byte free.
ASSUME SizeAssumption == COMMANDER_BUFF_SIZE \in Nat \ {0, 1}
ASSUME MoteAssumption == Mote \subseteq 0..255 /\ Target \subseteq 0..255
\* There are MAX_NUMBER_OF_COWS cows at most, the bits of a mask (gateway.h:50).
ASSUME CowsAssumption ==
    NUMBER_OF_COWS \in 0..32 /\ register_cows \in [1..NUMBER_OF_COWS -> Mote]

VARIABLES
    commanderBuff,   \* the bytes in the buffer, oldest first
    phase,           \* where the commander waits: boot, idle, members or cows
    currentCommand,
    currentTarget,
    members_count,
    i,
    sent,            \* the command broadcast last: history
    misread,         \* a byte was taken for another field: history
    torn             \* the second byte of a pair was refused: history

vars == <<commanderBuff, phase, currentCommand, currentTarget, members_count,
          i, sent, misread, torn>>

Capacity == COMMANDER_BUFF_SIZE - 1
Empty == [val |-> 255, field |-> "none"]
NotSent == [cmd |-> 255, target |-> 0, to |-> 0]

Init ==
    /\ commanderBuff = <<>>
    /\ phase = "boot"
    /\ currentCommand = 0 /\ currentTarget = 0 /\ members_count = 0 /\ i = 0
    /\ sent = NotSent
    /\ misread = FALSE /\ torn = FALSE

-----------------------------------------------------------------------------
(* Operators whose names end in Wrong are what a plausible mistake would    *)
(* make of the definition that follows them; no specification uses them.   *)

\* How many of n bytes the buffer has room for.
Stored(n) ==
    LET room == Capacity - Len(commanderBuff) IN IF n <= room THEN n ELSE room

\* ringbuf_put, once for every byte of a command: with the buffer full the
\* byte is refused, which no caller looks at.  With room for one byte the first
\* one of a pair goes in and the second one does not.
PutAll(bytes) ==
    LET stored == Stored(Len(bytes))
    IN  /\ commanderBuff' = commanderBuff \o SubSeq(bytes, 1, stored)
        /\ torn' = (torn \/ (Len(bytes) = 2 /\ stored = 1))
        /\ UNCHANGED <<phase, currentCommand, currentTarget, members_count, i,
                       sent, misread>>

Pair(cmd, target) ==
    <<[val |-> cmd, field |-> "cmd"], [val |-> target, field |-> "target"]>>

\* The serial command QRY.
QueryCommand(qId) == PutAll(Pair(CMD_QUERY_MOTE, qId))

\* A command that arrived from a mote, emergency or its cancellation: all of
\* them are queued as CMD_EMERGENCY_TWO.
HandleCommand(target) == PutAll(Pair(CMD_EMERGENCY_TWO, target))

\* What handle_missing_cows queues: an alarm or its cancellation.
MissingCows(target) ==
    \E cmd \in {CMD_EMERGENCY_ONE, CMD_CANCEL_EMERGENCY_ONE} :
        PutAll(Pair(cmd, target))

FitsWrong(count) == COMMANDER_BUFF_SIZE - Len(commanderBuff) >= 3 + count

Fits(count) == COMMANDER_BUFF_SIZE - Len(commanderBuff) > 3 + count

\* sendClusteringCommand: a command of its own length, put in only when all
\* of it fits.
SendClusteringCommand(head, members) ==
    LET count == Len(members)
    IN  /\ Fits(count)
        /\ PutAll(<<[val |-> CMD_SET_LOCAL_GW, field |-> "cmd"],
                    [val |-> head, field |-> "target"],
                    [val |-> count, field |-> "count"]>>
                  \o [m \in 1..count |-> [val |-> members[m], field |-> "member"]])

-----------------------------------------------------------------------------
\* ringbuf_get of the nth byte from now; an empty buffer gives -1, which is
\* 255 once it is stored in a uint8_t.
Nth(n) == IF n <= Len(commanderBuff) THEN commanderBuff[n] ELSE Empty

\* The buffer after n calls of ringbuf_get.
Taken(n) == SubSeq(commanderBuff, n + 1, Len(commanderBuff))

Broadcast(cmd, target, to) == sent' = [cmd |-> cmd, target |-> target, to |-> to]

MoreCowsWrong(n) == n < NUMBER_OF_COWS - 1

MoreCows(n) == n < NUMBER_OF_COWS

\* Looks at the buffer for one member too many.
MoreMembersWrong(n, count) == n <= count

MoreMembers(n, count) == n < count

\* The first event the commander gets: it empties the buffer once more.
Boot ==
    /\ phase = "boot"
    /\ phase' = "idle"
    /\ commanderBuff' = <<>>
    /\ UNCHANGED <<currentCommand, currentTarget, members_count, i, sent,
                   misread, torn>>

\* The commander's timer expires with two bytes or more in the buffer.
TakeCommand ==
    LET cmd == Nth(1).val
        target == Nth(2).val
        wrong == Nth(1).field # "cmd" \/ Nth(2).field # "target"
    IN  /\ phase = "idle"
        /\ Len(commanderBuff) > 1
        /\ currentCommand' = cmd
        /\ currentTarget' = target
        /\ \/ /\ cmd = CMD_QUERY_MOTE
              /\ Broadcast(cmd, target, target)
              /\ commanderBuff' = Taken(2)
              /\ misread' = (misread \/ wrong)
              /\ UNCHANGED <<phase, members_count, i>>
           \/ /\ cmd = CMD_SET_LOCAL_GW
              /\ Broadcast(cmd, target, target)
              /\ members_count' = Nth(3).val
              /\ i' = 0
              /\ phase' = IF MoreMembers(0, members_count') THEN "members" ELSE "idle"
              /\ commanderBuff' = Taken(3)
              /\ misread' = (misread \/ wrong \/ Nth(3).field # "count")
           \/ /\ cmd \notin {CMD_QUERY_MOTE, CMD_SET_LOCAL_GW}
              /\ i' = 0
              /\ phase' = IF MoreCows(0) THEN "cows" ELSE "idle"
              /\ commanderBuff' = Taken(2)
              /\ misread' = (misread \/ wrong)
              /\ UNCHANGED <<members_count, sent>>
        /\ UNCHANGED torn

\* A fifth of a second later: the next member of the cluster, whose address
\* is still in the buffer.
SendToMember ==
    /\ phase = "members"
    /\ Broadcast(currentCommand, currentTarget, Nth(1).val)
    /\ commanderBuff' = Taken(1)
    /\ misread' = (misread \/ Nth(1).field # "member")
    /\ i' = i + 1
    /\ phase' = IF MoreMembers(i', members_count) THEN "members" ELSE "idle"
    /\ UNCHANGED <<currentCommand, currentTarget, members_count, torn>>

\* A fifth of a second later: the next registered cow.
SendToCow ==
    /\ phase = "cows"
    /\ Broadcast(currentCommand, currentTarget, register_cows[i + 1])
    /\ i' = i + 1
    /\ phase' = IF MoreCows(i') THEN "cows" ELSE "idle"
    /\ UNCHANGED <<commanderBuff, currentCommand, currentTarget, members_count,
                   misread, torn>>

-----------------------------------------------------------------------------
PutPair == \E target \in Target :
    QueryCommand(target) \/ HandleCommand(target) \/ MissingCows(target)

\* A cluster has a head and one member or more, all different.
PutCluster == \E head \in Mote, others \in SUBSET Mote :
    /\ others # {} /\ head \notin others
    /\ \E members \in SetToSeqs(others) : SendClusteringCommand(head, members)

Send == Boot \/ TakeCommand \/ SendToMember \/ SendToCow

Next == PutPair \/ PutCluster \/ Send

Spec == Init /\ [][Next]_vars

\* commander_interval is set or reset on every path through gateway.c:625-665,
\* so the commander keeps waking up.
FairSpec == Spec /\ WF_vars(Send)

-----------------------------------------------------------------------------
TypeOK ==
    /\ commanderBuff \in Seq([val : 0..255,
                              field : {"cmd", "target", "count", "member"}])
    /\ Len(commanderBuff) <= Capacity
    /\ phase \in {"boot", "idle", "members", "cows"}
    /\ currentCommand \in 0..255 /\ currentTarget \in 0..255
    /\ members_count \in 0..255 /\ i \in 0..255
    /\ phase = "members" => i < members_count
    /\ phase = "cows" => i < NUMBER_OF_COWS
    /\ sent \in [cmd : 0..255, target : 0..255, to : 0..255]
    /\ misread \in BOOLEAN /\ torn \in BOOLEAN

\* The commander takes every byte for what it was put in as, the "cmd" and
\* "target" of gateway.c:292-293.
ReadsWhatWasWritten == ~misread

\* Half a pair in the buffer is the only way to lose the place: commands of two
\* bytes or more, put in by different callers, stay whole while the commander
\* stops half way through a cluster (gateway.c:631-648), and a command of its own
\* length goes in as a whole or not at all (gateway.c:86-97).
MisreadOnlyWhenTorn == misread => torn
=============================================================================
