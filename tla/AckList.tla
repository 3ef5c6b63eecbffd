------------------------------ MODULE AckList ------------------------------
(***************************************************************************)
(* The retransmission list that krava.c and gateway.c both keep: a Contiki *)
(* list of blocks taken from a fixed pool (LIST(ack_list), MEMB(ack_mem)), *)
(* searched by findRemoveFromAckList and walked by the error_recovery      *)
(* process.  This module holds what the two programs share; MoteAcks and   *)
(* GatewayAcks add the way each of them inserts.                           *)
(*                                                                         *)
(* A pointer to a struct ack_entry is the number of its block, NULL is 0.  *)
(* The order of ack_list is the order of the chain of next pointers.       *)
(***************************************************************************)
EXTENDS Naturals, Sequences, FiniteSets, SequencesExt

CONSTANTS
    NUM_ACK_ENTRIES,  \* blocks in the pool: 16 on a mote, 64 on the gateway
    NUM_OF_RETRIES,   \* 6
    Addr,             \* first address bytes of the motes and the gateway
    Id,               \* values of the first byte of a packet
    Msg               \* what the rest of the stored packet stands for

ASSUME PoolAssumption == NUM_ACK_ENTRIES \in Nat \ {0}

ASSUME NonEmptyAssumption == Addr # {} /\ Id # {} /\ Msg # {}

\* retries is a uint8_t: a limit above 255 could never be reached.
ASSUME RetriesAssumption == NUM_OF_RETRIES \in 1..255

Block == 1..NUM_ACK_ENTRIES
Null == 0

VARIABLES
    ack_list,  \* the blocks on the list, head first
    ack_mem,   \* the blocks memb_alloc has handed out
    slot,      \* what each block holds, whether it is handed out or not
    entry      \* the cursor of error_recovery; Null when no round is under way

ackVars == <<ack_list, ack_mem, slot, entry>>

\* The blocks that wait for an acknowledgement.
Pending == ToSet(ack_list)

Slot == [to : Addr, id : Id, msg : Msg, retries : 0..255]

\* Static memory starts out zeroed; which address, id and message zero is
\* makes no difference, a block is only read once it has been handed out.
Zeroed == CHOOSE s \in [to : Addr, id : Id, msg : Msg, retries : {0}] : TRUE

AckInit ==
    /\ ack_list = <<>>
    /\ ack_mem = {}
    /\ slot = [b \in Block |-> Zeroed]
    /\ entry = Null

-----------------------------------------------------------------------------
(* Operators whose names end in Wrong are what a plausible mistake would    *)
(* make of the definition that follows them; no specification uses them.   *)

\* Compares the id only.
MatchingWrong(id, mote) == {p \in DOMAIN ack_list : slot[ack_list[p]].id = id}

\* Positions of the list whose entry matches both the id and the mote.
Matching(id, mote) ==
    {p \in DOMAIN ack_list :
        slot[ack_list[p]].id = id /\ slot[ack_list[p]].to = mote}

\* Forgets memb_free.
FindRemoveWrong(id, mote) ==
    LET found == Matching(id, mote) IN
    IF found = {}
    THEN [list |-> ack_list, mem |-> ack_mem]
    ELSE [list |-> RemoveAt(ack_list, Min(found)), mem |-> ack_mem]

\* list_remove and memb_free of the first match, if there is one; the list
\* and the pool that result.
FindRemove(id, mote) ==
    LET found == Matching(id, mote) IN
    IF found = {}
    THEN [list |-> ack_list, mem |-> ack_mem]
    ELSE [list |-> RemoveAt(ack_list, Min(found)),
          mem  |-> ack_mem \ {ack_list[Min(found)]}]

\* memb_alloc: the first free block of the pool.
FirstFree(mem) == Min(Block \ mem)

\* list_item_next of a block: list_remove clears the next pointer of what it
\* takes out, so a block that is on no list has no successor.
ItemNext(list, b) ==
    IF \E p \in 1..(Len(list) - 1) : list[p] = b
    THEN list[(CHOOSE p \in 1..(Len(list) - 1) : list[p] = b) + 1]
    ELSE Null

\* Uses what memb_alloc returns without looking at it.
PushWrong(list, mem, to, id, msg) ==
    LET b == IF mem = Block THEN Null ELSE FirstFree(mem) IN
    /\ ack_list' = <<b>> \o list
    /\ ack_mem' = mem \cup ({b} \ {Null})
    /\ slot' = [c \in Block |-> IF c = b
                    THEN [to |-> to, id |-> id, msg |-> msg, retries |-> 0]
                    ELSE slot[c]]

\* memb_alloc, the assignments to the new block, and list_push, in a pool
\* and a list left behind by an earlier call; nothing when the pool is empty.
Push(list, mem, to, id, msg) ==
    IF mem = Block
    THEN /\ ack_list' = list
         /\ ack_mem' = mem
         /\ UNCHANGED slot
    ELSE LET b == FirstFree(mem) IN
         /\ ack_list' = <<b>> \o list
         /\ ack_mem' = mem \cup {b}
         /\ slot' = [slot EXCEPT ![b] =
                [to |-> to, id |-> id, msg |-> msg, retries |-> 0]]

-----------------------------------------------------------------------------
\* A one-byte packet arrives: findRemoveFromAckList(id, from).
ReceiveAck(id, mote) ==
    LET after == FindRemove(id, mote) IN
    /\ ack_list' = after.list
    /\ ack_mem' = after.mem
    /\ UNCHANGED <<slot, entry>>

BacklogWrong == Len(ack_list) > 2

\* More than one entry waits.
Backlog == Len(ack_list) > 1

\* The recovery timer expires between rounds and finds a backlog.  With one
\* entry or none the timer is only re-armed, which changes nothing here.
StartRound ==
    /\ entry = Null
    /\ Backlog
    /\ entry' = Head(ack_list)
    /\ UNCHANGED <<ack_list, ack_mem, slot>>

TriedWrong(b) == slot[b].retries

\* retries++ on a uint8_t.
Tried(b) == (slot[b].retries + 1) % 256

LimitReachedWrong(tried) == tried > NUM_OF_RETRIES

LimitReached(tried) == tried >= NUM_OF_RETRIES

\* The timer expires inside a round: the entry under the cursor is sent once
\* more, dropped if that was its last retry, and the cursor moves on.
RetryEntry ==
    /\ entry # Null
    /\ LET after == IF LimitReached(Tried(entry))
                    THEN FindRemove(slot[entry].id, slot[entry].to)
                    ELSE [list |-> ack_list, mem |-> ack_mem]
       IN  /\ slot' = [slot EXCEPT ![entry].retries = Tried(entry)]
           /\ ack_list' = after.list
           /\ ack_mem' = after.mem
           /\ entry' = ItemNext(after.list, entry)

-----------------------------------------------------------------------------
AckTypeOK ==
    /\ ack_list \in Seq(Block)
    /\ ack_mem \subseteq Block
    /\ slot \in [Block -> Slot]
    /\ entry \in Block \cup {Null}

\* The list and the pool agree: no block is linked twice and the linked blocks
\* are exactly those handed out by memb_alloc, so that no removal leaks a
\* block and none is freed while it is linked (krava.c:548-549).
NoLoop(list) == \A p, q \in DOMAIN list : list[p] = list[q] => p = q
ListIsPool == NoLoop(ack_list) /\ Pending = ack_mem

\* At most one pending entry per id and destination, so an acknowledgement
\* names one entry: what the call at krava.c:556 is for.
UniqueKeys ==
    \A b, c \in Pending :
        slot[b].id = slot[c].id /\ slot[b].to = slot[c].to => b = c

\* A backlog is worked off whatever the network loses (krava.c:763-786): the
\* list always comes back to at most one entry.  That one may stay for ever,
\* krava.c:763 retries nothing while it is alone.  So it is on the gateway
\* (gateway.c:684-707), even when ids wrap while older entries wait and two
\* entries share a key, and the retry at the limit takes out the other one.
BacklogDrains == Len(ack_list) > 1 ~> Len(ack_list) <= 1
=============================================================================
