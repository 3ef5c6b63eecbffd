# Verification of the krava cattle network

The repository holds the firmware of a wireless sensor network for cows
("krava") on Contiki: every cow carries a *mote* (`project-krava/krava`), one
*gateway* (`project-krava/gateway`) collects what they measure, and both share
`project-krava/lib`.  Three course assignments (`assignment1` to `assignment3`)
and Cooja simulations stand beside it.  This directory models the protocol and
process logic of the two programs in TLA+, checks it with TLC and proves its
central part with TLAPS.

## 1. Inventory

Contiki schedules protothreads cooperatively: a process runs from one
`PROCESS_WAIT_EVENT` to the next without interruption, and a packet callback
runs to its end between two such steps.  A step of the model is therefore one
callback or one stretch between two waits.  What makes the code hard is what
may happen *during* a wait, and the network: `mesh_send` promises nothing, so
packets and acknowledgements are lost, repeated and reordered.

| part | state | operations | hard behaviour | what makes it correct |
|---|---|---|---|---|
| retransmission list of a mote (`krava.c` 532-570, 748-795) | `ack_list`, `ack_mem`, the cursor `entry` | `addToAckList`, `findRemoveFromAckList`, the two wake-ups of `error_recovery` | the cursor points into the list across a wait in which entries are freed and handed out again; removal by key; pool exhaustion | list and pool agree, keys are unique, a counter stops at the limit, a backlog drains |
| delivery over the mesh (`krava.c` 32-100, 358-432) | packets under way, acknowledgements | send, forward, receive, acknowledge | loss, duplication, late acknowledgements, ids of six bits counted per mote | a message whose first byte is its own ends once, as confirmed or given up; confirmed means it arrived |
| retransmission list of the gateway (`gateway.c` 100-126, 491-512, 669-716) | the same and the id of the global `command` | `broadcast_CmdMsg`, acknowledgement, recovery | pushes without looking for an older entry; ids wrap after 63 | as for the mote |
| command queue (`gateway.c` 69-98, 287-299, 450-474, 581-586, 606-667) | `commanderBuff`, the commander's place and locals | commands of two bytes, cluster commands, the commander's waits | commands are put in byte by byte with ignored failures; the commander waits half way through a command | until half a command is accepted, bytes are read as what they were written as and commands leave whole, in order, to all recipients |
| herd watch (`gateway.c` 39-66, 143-226, 437-489) | counters, bitmaps, alarm window | packet of a cow, ten-second check, one-minute refresh | counters and bitmap are exchanged while packets arrive; alarm, window and cancellation overlap | motes and gateway agree on whether an alarm is on; every alarm ends; a cow heard of is not missing; a silent cow is alarmed about |
| emergency modes of a mote (`krava.c` 106-321, 439-530) | `status`, counters, intervals, transmission power, `command` | commands, motion, acknowledgement count, cancellations | modes entered by command and by motion, left by either; effects through the gateway on other motes | role, gateway and power fit together; an alarm of its own has a running cow behind it; an emergency names a cow that ran, or one whose mote watched over such a cow |
| neighbour process and measurements (`krava.c` 385-404, 439-526, 687-746) | the message `m`, the broadcast channel, `sensing`, timers | sense, advertise, read, hear a neighbour, send, leave the cluster | an automatic variable across waits; one channel for two uses; arrays and words that fill up | the newest motions and each neighbour once; the packet fits its buffer; which messages share an id |
| clustering (`gateway.c` 246-276, 326-435; `krava.c` 110-192, 706-715) | what each cow last reported, clusters, the motes' roles and cluster intervals | `handle_clusters`, `SET_LOCAL_GW` and its repetitions, expiry | greedy choice over reports of different ages; commands of one round in any order, repeated, late | clusters are disjoint; a local gateway sends to the default gateway; every mote learns again |
| wire formats (`libmessage.c`) | message records | encode, decode, ids, motions, neighbours | widths, lengths, wrap-around | decode inverts encode, the packet fits |
| sensor and arithmetic helpers (`libsensors.c`, `libmath.c`) | none | conversions, square roots | overflow | not modelled |
| temperature transfer (`assignment2.c`, `assignment3.c`) | circular queue with 8-bit indices, `message_size` | add, send all, acknowledge, change address | an acknowledgement is taken for the size sent last; indices, lengths and sizes wrap | the queue holds the newest measurements in order; what an acknowledgement removes has arrived, unless that acknowledgement is late or repeated or a packet was cut |
| LED counter (`assignment1.c`), echo (`asssignment3_1.c`, `cooja-test.c`), Cooja files, Makefiles | - | - | none | not modelled |

The parts meet in three places.  A mote's `recv` takes acknowledgements for
its list and commands for its modes, and forwards messages of other motes
through the same list.  The gateway's `recv` feeds the herd watch and, through
`handleCommand`, the command queue; the herd watch and the clustering feed the
queue too.  The commander empties the queue into `broadcast_CmdMsg`, which
feeds the gateway's retransmission list.

`PROJECT.json` lists the hazards at their lines, with the properties that
would catch each going wrong.

## 2. Plan

1. the retransmission list, shared and per program, and its proofs (done);
2. delivery over a lossy mesh, refining `ReliableSend` (done);
3. the command queue, refining `CommandQueue` (done);
4. the herd watch (done);
5. the emergency modes of a mote, and of several motes with the gateway
   between them (done);
6. `handle_clusters` as operators over what the cows reported (done);
7. cluster membership over time: rounds, repeated commands, expiry (done);
8. the neighbour process and the measurements of a message (done);
9. wire formats and ids; the temperature queue of the assignments (done);
10. proofs of the herd watch, of the modes, and of emergency two across the
    network (done);
11. proofs of the delivery, including the safety part of `Implements`, of the
    gateway's list, of the command queue, of the temperature queue and of the
    clusters (done);
12. proofs about the message record (`Telemetry`) (done);
13. the refinement `ImplementsQueue`, with a mapping that needs no recursive
    operator, so that it can be proved too.

No module that models the code declares a recursive operator, so that all of
them can be proved about: `Clusters` and `MessageRecord` use recursive
functions.  The only recursive operator is in `MCCommander`.

## 3. Modules and the code

| module | models | state and actions |
|---|---|---|
| `AckList` | what both programs do with `ack_list` and `ack_mem` | a `struct ack_entry *` is the number of its block, `NULL` is 0; `ack_list` is the chain of next pointers, `slot` the contents of every block, freed ones included, `entry` the cursor of `error_recovery`; `FindRemove`, `Push`, `ReceiveAck`, `StartRound`, `RetryEntry` |
| `MoteAcks` | the mote's list in an arbitrary network | `AddToAckList` takes out an older entry of the same key first |
| `MoteDelivery` | the mote's list with packets and acknowledgements under way | `Forwarded` are the messages that `forward` may put on the list again at any time, which `ReliableSend` knows as `Again`; `Send` covers the four `send...` functions and `forward`, `Deliver`/`RecvAck` the ends of the mesh; packets and acknowledgements stay under way once sent, so that one taken twice was duplicated and one never taken was lost; `KeyOf` is what list and acknowledgement know a message by, and messages may share it; `fate` and `tx` are history |
| `ReliableSend` | what a message is promised | abstract specification; messages that share their key (`Twins`) are promised less, and `CutShort` is all a twin that is over may do to one that waits |
| `GatewayAcks` | the gateway's list and the ids of its commands | `BroadcastCmdMsg` pushes without a search; `NextId` is `setCmdMsgId` |
| `Commander` | `commanderBuff` and the commander | the buffer holds bytes, each with the field its writer meant, which only the history `misread` looks at; `torn` is history too, that one byte of a pair was accepted and the other refused; `phase` is the wait the commander stands in |
| `CommandQueue`, `CommandQueueUntilTorn` | what the commander promises | abstract specification, a queue of whole commands; the second one promises it until a command is torn, and nothing from then on |
| `Herd` | how the gateway finds missing cows | bitmaps are sets of indices; `Recv`, `HandleMissingCows`, `HandleCowsSeenRefresh`; a bit for an unregistered mote has index `NUMBER_OF_COWS`, its counter lies outside of the array and is not modelled |
| `Modes` | the functions of `krava.c` that change role, emergency, power or intervals | operators from a record of the globals to the new record and the packets sent |
| `MoteModes` | one mote, anything may come in at any time | one action per callback, timer or reading |
| `RunningCow` | several motes, commands under way, the gateway's queue | motes as in `MoteModes`; queue and commander are `CommandQueue`, which `Commander` implements while no command is torn; `ran` (a cow found running at a reading, `krava.c:501`) and `monitors` are history |
| `Clusters` | `get_average_motion`, `memberInCluster`, `clusterAddMember` and the choice of `handle_clusters` | the gateway's five tables are one report per cow; operators from the reports to the sequence of clusters; the buffer that `get_average_motion` leaves uninitialised is an argument |
| `ClusterRouting` | clusters over time | `HandleClusters` is a round, `Deliver`/`Forget` a `SET_LOCAL_GW` that arrives, arrives again or leaves the list; `Expire` is the end of a cluster interval; the motes are those of `Modes` |
| `MessageRecord` | the message record of `libmessage.c` | `motions` is one word of two bits a motion; `Encode` gives the bytes, `Decode` takes them apart |
| `Telemetry` | what a mote measures between two messages | one action per reading, per "Hello", per timer of the neighbour process; `sensing` may hold any value after a wait |
| `TempTransfer` | the sending and the receiving mote of assignments 2 and 3 | a measurement is its number; acknowledgements are all alike, as in the code, and are counted; `answer` is history and says whether the next acknowledgement is the one that is due |
| `Retransmission_proofs`, `Commander_proofs`, `ClusterRouting_proofs`, `TempTransfer_proofs`, `Herd_proofs`, `Modes_proofs`, `Mote_proofs`, `RunningCow_proofs` | - | lemmas and theorems |

`MC...` modules give the constants values.  Operators that end in `Wrong` or
`Late` are deliberate mistakes: each property is shown to fail when one of
them replaces the definition that follows it.

Abstractions common to all modules: a packet is the bytes the programs look
at (type and id, command and target) and a token for the rest; sensor values
are what the thresholds make of them; printing, sensors, LEDs and the routing
table are left out.  Contiki (`memb`, `list`, `ringbuf`, `mesh`, `etimer`) is
modelled from how the code uses it and marked external.

## 4. Runs

| run | checks | bounds, and why they are enough |
|---|---|---|
| `mote_delivery` | the mote's list on a lossy mesh implements `ReliableSend`, a backlog drains; `ListIsPool`, `UniqueKeys`, `RetryLeft`, `CursorRetryLeft`, `GivesUpCounted`, `ConfirmedWasReceived` | four messages for two blocks, two retries: the pool is exhausted, the cursor goes stale and its block is handed out again; two messages share first byte and destination, a third the first byte only; one is forwarded again at any time, which makes late acknowledgements meet newer entries |
| `mote_superseded` | `NeverSuperseded` fails | the same |
| `gateway_acks` | `ListIsPool`, `BacklogDrains` | five commands, ids 1 and 2, three blocks: ids wrap twice and two entries can share a key |
| `commander` | `MisreadOnlyWhenTorn`, refinement of `CommandQueueUntilTorn` | a buffer of seven bytes with room for six: two clusters do not fit, a cluster of one member fits exactly with a pair, one of two members leaves room for one byte, so that a pair is torn |
| `commander_torn` | `ReadsWhatWasWritten` fails | a buffer of eight bytes with room for seven, odd like the real 63: pairs alone leave room for one byte |
| `herd` | `AlarmMatchesStatus`, `CancelFollowsAlarm`, `AlarmEnds`, `SeenIsNotMissing`, `SilentCowAlarms` | three cows and an unregistered mote, a window of three, two packets a minute |
| `mote_modes` | `GatewayMatchesRole`, `FullPowerOutsideCluster`, `AlarmOnlyWhileRunning`, `ReturnsToDefault` | three addresses, of which one is the mote's own, two readings raise an alarm, the counter stops at three, two samples fill a message |
| `running_cow_watch` | `WatchesRunningCow` fails | two cows, the first may run, with and without a cluster; one command queued, two under way, which may be lost, repeated and overtaken |
| `cluster_routing` | `ClustersDisjoint`, `LocalGatewayForwards`, `LearnsAgain` | three registered cows and a mote that is not, with two or three reports each: a head that qualifies, one exactly on the threshold, one that is judged by garbage; no command outlasts the half minute of its round (`MaxLeft` 0) |
| `cluster_loop` | `NoForwardingLoop` fails | the same with one command left over (`MaxLeft` 1) |
| `telemetry` | `WireRoundTrip`, `PacketFits`, `NewestMotions`, `NeighboursDistinct`, `IdsRecur` | a word of eight motions in two bytes, two neighbours of three: word and array overflow; the buffer of 10 bytes has not one to spare for them, as 34 would for 32 motions and 20 neighbours (the code has 35); nineteen ids are kept, more than the list has room for and twice through their cycle |
| `temp_transfer` | `QueueHoldsNewest`, `EveryMeasurementAccounted`, `OnlyDoubtfulAnswersLose` | indices of three bits, twelve measurements: the queue fills up, its indices wrap, the size wraps at three measurements; packets have room for two; one packet and one acknowledgement under way, each of which may stay there |

No counter of the code is unbounded.  Bounds that the code does not have are
`MaxAcks` (acknowledgements of a minute), `MaxQueued` and `MaxInFlight`,
`MaxTaken` and `MaxAir` (measurements and packets of the temperature transfer)
and the four messages of `mote_delivery`; `COUNTER_RANGE` keeps the herd's
counters below their wrap at 256 (`gateway.c:154`), and `MaxAcks` the mote's
(`krava.c:49`): a cow heard of exactly 256 times in a minute would read as
silent.  Only one message of `mote_delivery` is forwarded again: with two,
forwarding can go on for ever and keep the list full, so that `BacklogDrains`
fails for want of an end of the input.  The delivery run may stop when all
messages are done, so deadlock is not checked there.

### Fairness

Only wake-ups of processes are fair.  `etimer_set` re-arms the timers of
`error_recovery` (`krava.c:759-792`, `gateway.c:680-713`), of the commander
(`gateway.c:625-665`), of `gateway_main` (`gateway.c:550-563`) and of the
neighbour process (`krava.c:723-741`) on every path, and Contiki delivers every
expired timer; weak fairness of those steps says no more.  For the
commander that is `FairSpec`: its next wake-up happens, and is what the fairness
of `CommandQueue` follows from in `ImplementsQueue`.  Nothing is assumed of the
network: no packet has to arrive, and `BacklogDrains` holds when all are
lost.

In `ClusterRouting` half minutes pass (`Tick`), the round of `gateway_main`
happens (`HandleClusters`), the neighbour process notices the end of an
interval (`Expire`), and a command leaves the list (`Forget`), because it is
acknowledged or its retries are over.  The last holds of a command that is not
alone on the list; `cluster_loop` is about the one that is.

### Disagreements between code and comments

Those with a run are under `findings` in `PROJECT.json`:

- `gateway.c:684`: a `SET_LOCAL_GW` that is alone on the list is not repeated
  before another command joins it, so that it arrives after the next round has
  chosen other heads, and two motes become each other's local gateway
  (`cluster_loop`);
- `gateway.c:95`: a monitor's cancellation is queued as an emergency, so that
  motes monitor a cow that never ran (`running_cow_watch`);
- `gateway.c:585`: a command of two bytes that meets room for one is cut in
  half, and targets are then read as commands (`commander_torn`).  The room is
  odd, so that 31 commands of two bytes lead there; the same holds of
  `gateway.c:76-97`, 452-453, 464-465 and 472-473;
- `libmessage.c:21`: "we can assume the number will be unique in our system", but
  every mote counts its ids from the same start and its own come back after
  nine messages: a forwarded message and an own one to the gateway share their
  first byte, and `addToAckList` drops the one that waits (`mote_superseded`).

Others were met while modelling and have no run of their own:

- `assignment2.c:60`: "remove number of elements we sent and were confirmed", but
  line 146 removes as many measurements as were sent last, whichever packet the
  acknowledgement answers, and with them some that never arrived.
  `OnlyDoubtfulAnswersLose` says when this can happen: after a late or repeated
  acknowledgement, and when a packet was cut because the size is too large
  (line 202) or the copy ran past the end of the array (line 93);
- `gateway.h:57`: the alarm window is said to be a number of iterations of
  `COWS_SEEN_COUNTER_INTERVAL`, 60 seconds, to keep the alarm on, `gateway.c:457`
  says the alarm is disabled if it is on for *more* than the window, and
  `gateway.c:460` *after* a window of iterations.  The code counts the ten-second
  checks of `handle_missing_cows`, the one that raises the alarm included, and
  cancels at the last of them: a window of W is W - 1 alarms, ten seconds apart.
  No property is about the length; `AlarmEnds` says that an alarm ends;
- `gateway.c:247`: `get_average_motion` "decodes motions and returns the average",
  but it returns the newest motion, and with none whatever the buffer holds;
  `Clusters` has it as it is;
- `krava.c:114`: whether a `SET_LOCAL_GW` is about the mote itself is decided with
  `node_id`, the address it booted with; after its button changed `mote_id` and
  the address of its packets (`krava.c:338-349`) it may become its own local
  gateway.  `GatewayMatchesRole` is about `node_id`;
- `krava.c:257`: a command that cancels emergency two does not set back the
  intervals, and `cancelEmergencyTwo` then returns early (line 307): the mote
  goes on at double speed.  `AlarmOnlyWhileRunning` does not exclude that;
- `gateway.c:702`: with two entries of one key (ids return to 1 after 63) the
  retry at the limit removes the other entry, which may have retries left;
- `gateway.c:65`: the target of `CMD_EMERGENCY_ONE` is found with a bit index
  where an address is expected;
- `krava.c:233`: the power after emergency one goes by the global `command`,
  which the mote's own alarm overwrote, so that a member may go on with full
  power;
- `krava.c:387`: the next id is computed from the whole first byte, `m.id + 1`,
  so that only the ids 9, 41, 43, 51, 20, 22, 30, 62 and 1 occur, over and over
  (`IdsRecur`), where the list has room for 16 entries;
- `krava.c:54`: a local gateway acknowledges a member's message before it
  forwards it; what is then lost on the second way is repeated by nobody that
  could tell the member, and the promise of `ReliableSend` is one of one way;
- `assignment2.c:93`: the copy's index is not cut to eight bits and runs past
  the end of the array; `assignment2.c:202`: the size of a long message wraps at
  256; `assignment2.c:156` gives `packetbuf_copyfrom` an integer where it
  expects an address;
- `gateway.c:180`: what an unregistered mote reports is stored behind the
  tables; `gateway.c:186`: so are more than five neighbours of a cow;
- `libmessage.c:124`: `getEncodeDataSize` and `encodeData` disagree about a
  message without motions; the former is only printed;
- `krava.c:129`: what `route_lookup` returns is used without a look;
- `krava.c:781`: an acknowledgement frees the block under the cursor during the
  wait, its counter goes on, and at the limit a fresh entry of the same key is
  removed before its retries; `GivesUpCounted` is about a cursor whose entry is
  still listed, and `ReliableSend` allows the rest (`CutShort`, `Again`);
- `gateway.c:438`: the exclusive or makes an unregistered mote missing because
  it was heard of;
- `krava.c:228`: cancelling emergency one sets the pause between two periods of
  sensing to the length of a period;
- `krava.c:222`: a second emergency two mixes samples of two cows in a message;
- `krava.c:365`: a member's command goes to its local gateway, which handles it
  as a command of the gateway and does not forward it.

## 5. Proofs

All proofs are checked by `tlapm` for every value of the constants that satisfies
the named assumptions of the modules.  Each component has one inductive
invariant; a lemma per action shows that the action keeps it, and the
properties of the runs follow from it.

**Retransmission list** (`Retransmission_proofs`, for every pool size, limit of
retries and set of addresses, ids and messages: `PoolAssumption`,
`NonEmptyAssumption`, `RetriesAssumption`).  The first part holds the facts about
the list that mote and gateway share: taking an element out of a sequence
without repetitions (`RemoveAtPositions`, `RemoveAtElements`), pushing a new one
(`PushElements`), what `FindRemove`, `ItemNext` and `FirstFree` return.

*The mote's list in an arbitrary network* (`MoteAcks!Spec`).  `TypeCorrect`,
`ListIsPoolHolds`, `UniqueKeysHolds`, `RetryLeftHolds`,
`CursorRetryLeftHolds` and, as an action property, `GivesUpCountedHolds` follow
from one inductive invariant (`Invariance`)

    IInv == AckTypeOK /\ ListIsPool /\ UniqueKeys /\ RetryLeft /\ CursorRetryLeft

None of its parts is inductive by itself.  The retry at the limit removes by
key, so that it takes out the block under the cursor, while that is listed, only
because keys are unique (`GivesUpCountedHolds`).  When it is not listed any more
another block of that key may go: nothing is promised of that case.  Keys stay
unique because `addToAckList` leaves no entry of the new key and because the
block it then gets from the pool is on no list, which is `ListIsPool`.  And `RetryLeft` needs `CursorRetryLeft`: a stale cursor goes on
counting in a block that may be handed out again, with its counter reset, under
it.  `IInv` consists of invariants of the run `mote_delivery`.

*Delivery over the mesh* (`MoteDelivery!DSpec`).  `DeliveryUsesList` shows that
the delivery uses the list as `MoteAcks` allows, which carries all of the above
over.  `ConfirmedWasReceivedHolds` and `ImplementsHolds`, the safety part of
`ReliableSend`, follow from `DeliveryInvariance`.  Nothing is assumed of the ids:
messages may share their first byte, as nine ids used over and over and
forwarded messages make them do.  What `ReliableSend` promises then is less: a
message may give its place to a twin, be confirmed by an acknowledgement of the
twin, or be given up with it; only a message whose first byte is its own is
confirmed because it arrived itself, and has all of its repetitions.  That
`libmessage.c:21` expects more is the run `mote_superseded`.  `DInv` adds to
`IInv` that

- every allocated block holds the packet of its message, and a message is
  pending exactly as long as it has one (`Packed`, `PendingHasBlock`);
- the counter of a block says how often its message was sent, unless it is
  forwarded again (`RetriesCounted`), so that the list gives up exactly when
  `ReliableSend` may;
- the stale cursor still points at a packet, and at one that is over for good
  unless it was handed over again (`CursorIsPacked`): its retry then is a retry
  of that message, or a stutter;
- what is under way was sent, and a key is acknowledged only after a message of
  that key arrived (`TrafficWasSent`), however often it is lost or repeated.

*The gateway's list* (`GatewayAcks!GatewaySpec`).  `GatewayTypeCorrect` and
`GatewayListIsPoolHolds` follow from `GInv == GatewayTypeOK /\ ListIsPool`.
`broadcast_CmdMsg` pushes without a search, so that two entries may share a
key; `UniqueKeys` and `RetryLeft` are false of it, and the proof shows that list
and pool do not depend on them.  Nor is the retry counter bounded by its limit,
only by its byte.  The number of ids is assumed to be two at least
(`IdAssumption`): with a single one `setCmdMsgId` would give the id 0.

**Command queue** (`Commander_proofs`, for every size of the buffer, every set of
motes and at most 32 cows, the bits of the gateway's masks).
`CommanderTypeCorrect` and `MisreadOnlyWhenTornHolds` are about `Spec`, with
every put that the code makes, also those that are refused half way.  The
invariant

    CInv == TypeOK /\ (~torn => WInv)
    WInv == TypeOK /\ ReadsWhatWasWritten /\ WholeAfter(commanderBuff, MembersLeft)

says that, until a pair is torn, the buffer holds the members that the commander
has still to read of its cluster (`MembersLeft`) and then whole commands.
"Whole commands" is said without recursion, by a set of places at which commands
start: each starts at one of them and ends at another, and the buffer ends at
one (`Delimits`).
Putting a command adds a place, taking one shifts all of them (`TakingBytes`).

**Clusters** (`ClusterRouting_proofs`, for every herd, every report and every
content of the uninitialised buffer).  What the recursive functions of
`Clusters` compute is reached without an induction schema: `UpTo` is induction
below a bound for a property given as a set, by the least counterexample, and
`RecursionExists` shows that a function with the equations of the loops exists
(both in `Modes_proofs`, since the message record needs them as well).
With them `FormedApart` and `FilteredApart` say that the two loops of
`handle_clusters` keep clusters apart after each of their passes, for any number
of cows.  `RoutingTypeCorrect` and `ClustersDisjointHolds` follow from `RInv`:
the types, `Fits` of every mote (below), and that `clusters` is a sequence of
clusters apart from each other.

`LocalGatewayForwardsHolds` relates what different motes believe.  Its
invariant `FInv` says that every command under way and every role that is held
was assigned by the clusters formed *last*, and that a lease is over no later
than the next round; then two motes that are each other's gateway would be in
one cluster with two heads.  It assumes `LeavesBeforeNextRound`, a comparison
of two intervals that `krava.h:39` and `gateway.h:31` satisfy (each of them
alone can be changed), and is a theorem about the behaviours in which no command
outlasts the half minute of its round: `[]RoundDone` is a hypothesis about the
behaviour beside `Spec`, not an assumption about the code.  The code has other
behaviours; `cluster_loop` shows one, and nothing is proved of them but
`RoutingTypeCorrect` and `ClustersDisjointHolds`.  `RInv` and `FInv` are
conjunctions that TLC confirms on the instance of `cluster_routing`.

**Temperature queue** (`TempTransfer_proofs`, for every range of the indices above
3 and every size of the packet buffer).  `QueueTypeCorrect`,
`QueueHoldsNewestHolds` and `EveryMeasurementAccountedHolds` follow from

    TInv == TypeOK /\ QueueHoldsNewest /\ LengthIsTaken /\ GoneIsOldest

That every measurement waits, was removed or was overwritten is not inductive:
what an acknowledgement removes goes by the size sent last, and only because
all that ever left the queue is older than all that waits (`GoneIsOldest`) does
taking from the old end not take a measurement twice.
`OnlyDoubtfulAnswersLoseHolds` needs a second invariant, `AInv`: as long as the
next acknowledgement is the one that is due, all it would remove (`Confirmable`)
is in every packet under way, and has been received once an acknowledgement is
(`DueIsCarried`).  The lemmas `WrapsOnce`, `NextIndex` and `HoldsCellByCell`
carry the arithmetic modulo the range of the indices.

**Herd watch** (`Herd_proofs`, for every number of cows, window and range of the
counters).  `HerdTypeCorrect`, `AlarmMatchesStatusHolds`, `SeenIsNotMissingHolds`
and, as an action property, `CancelFollowsAlarmHolds` follow from

    HInv == TypeOK /\ AlarmMatchesStatus /\ WindowRuns /\ HeardIsKept

`CancelFollowsAlarm` needs `WindowRuns`, that the window has begun to run exactly
while an alarm is on: a window of two or more then does not run out on the check
that raises the alarm.  `SeenIsNotMissing` is not inductive: the refresh makes
the bitmap from the counters, so the invariant must say that whoever was heard
of has been counted (`HeardIsKept`), which is where the counters must not wrap.
`CheckResult` says what `HandleMissingCows` does in each of its branches.

**Modes** (`Modes_proofs`, `Mote_proofs`, for every set of motes, threshold
of running and size of the sample buffers).  `Fits` says of a mote's globals
that they are in their ranges, that role, gateway and power belong together
(`RoleFits`) and that an alarm of its own has a running cow behind it
(`AlarmFits`).  `Modes_proofs` has one lemma per function of `krava.c`: what it
makes of globals that fit, fits, and invents no acknowledgements (`Follows`).
`Mote_proofs` gathers them to the inductive invariant `MInv`, from which
`ModesTypeCorrect`, `GatewayMatchesRoleHolds`, `FullPowerOutsideClusterHolds`
and `AlarmOnlyWhileRunningHolds` follow.  That `MaxAcks` is at most 255, the
range of the counter, is the assumption `AcksAssumption`.

**Emergency two across the network** (`RunningCow_proofs`, for every set of
motes, every clustering and any number of commands; `HerdAssumption` says that
motes are not their own gateways at the start and that the bounds are numbers).
That motes only watch over cows that ran is false of the code
(`running_cow_watch`); what is true is `EmergencyHasCause`: every emergency,
commands in the air and in the queue included, names a cow that a reading found
running (`ran`) or a mote that watched over another one (`monitors`), a mote has
an alarm of its own only if its cow ran, and nobody watches before a cow ran.
`EmergencyHasCauseHolds` follows from `EInv`, which adds that whoever watches is
in `monitors` (`WatchersKnown`): that is where a cancellation with the wrong name
comes from.  It is proved for every value of the constants and checked by no run.
`RunningCowTypeCorrect` says that every command that goes round has a sender, a
recipient and a cow it is about, and the queue keeps to its length.  Its invariant `TInv` adds that the globals of
every mote fit, and that the commander has somebody left to send to only while
it has a command at hand.

**Measurements and messages** (`Mote_proofs`, for every word of four to 32
motions, up to 20 neighbours, every neighbourhood and every set of readings).
All six properties of `telemetry` follow from

    MeasInv == m \in MessageType /\ m.motions < Shift[m.motionCount]
               /\ listening \in BOOLEAN
               /\ MotionsHeld /\ NeighboursHeld /\ IdsHeld

- The word never holds more than the motions it counts: `NewestMotions` holds
  without it, but `WireRoundTrip` does not, because only the bytes that the
  count asks for are sent.  `MotionPutIn` says what a place of the word holds
  after a motion was put in, the cut of the oldest included; it rests on
  `ShiftDivides`, since `Shift` is a recursive function of which nothing but its
  equations is known.
- `RoundTrip` is about every record, not only about those a mote can reach:
  `Packet` says where each field is among the bytes, `WordRead` that the loop of
  `decode` adds the bytes up to the word they were cut from.
- `IdsRecur` is inductive only with the cycle that the ids go through
  (`IdsHeld`): `sendMessage` computes the next id from the whole first byte, and
  so uses 9 of the 63 ids, over and over.  `IdsRecurHolds` says exactly which
  messages share an id, however many are looked at.
- `PacketFitsHolds` assumes `BufferSuffices`, a comparison of three constants
  that holds in `libmessage.h` (34 bytes of 35).

Only model-checked: liveness (`BacklogDrains`, `AlarmEnds`, `SilentCowAlarms`,
`ReturnsToDefault`, `LearnsAgain`, the fair part of `CommandQueueUntilTorn`),
which is out of the prover's reach; the refinement of `CommandQueueUntilTorn`
(`ImplementsQueue`), whose mapping parses the bytes of the buffer with a
recursive operator, in `MCCommander`.

## 6. Not modelled

- the arithmetic helpers and sensor conversions (`libmath.c`, `libsensors.c`):
  no state, and 32-bit roots are beyond TLC except for samples; a reading enters
  the models as what the thresholds make of it;
- the bytes of emergency messages and of commands (`libmessage.c` 184-308): they
  are copied field by field, and nothing follows the samples; how many
  samples an emergency message holds is in `Modes`, the ids of commands in
  `GatewayAcks`;
- the routing table (`krava.c` 124-135) and the mesh's way through it: Contiki's;
- what the gateway prints (QRY replies, statistics, cluster listings): no state;
- `assignment1` (a counter on LEDs), `asssignment3_1` and `cooja-test` (a fixed
  text is sent and printed): nothing hard to test;
- Cooja scenarios and build files.
