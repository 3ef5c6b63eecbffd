----------------------------- MODULE RunningCow -----------------------------
(***************************************************************************)
(* Emergency two across the network: motes that notice that their cow      *)
(* runs, the commands they send, the gateway that queues them              *)
(* (handleCommand in gateway.c), and the commander that sends them to all  *)
(* registered cows.  Each mote is the one of MoteModes; the queue and the  *)
(* commander are CommandQueue, which Commander implements.                 *)
(***************************************************************************)
EXTENDS Modes

CONSTANTS
    Runners,          \* cows that may run
    Heads,            \* gateways of the motes, as clustering may leave them
    MaxQueued,        \* bound on the commands in the queue: 31 in the code
    MaxInFlight       \* bound on the commands in the air

\* What the theorems take for granted of them.
HerdAssumption ==
    /\ Runners \subseteq Mote
    /\ Heads # {} /\ Heads \subseteq [Mote -> Mote \cup {defaultGateway}]
    /\ \A head \in Heads, m \in Mote : head[m] # m
    /\ MaxQueued \in Nat /\ MaxInFlight \in Nat

VARIABLES
    motes,                          \* the globals of each mote
    queue, cmd, target, left, sent, \* of CommandQueue
    air,                            \* commands under way
    ran,                            \* cows found running so far, and motes
    monitors                        \* that watched over another cow: history

queueVars == <<queue, cmd, target, left, sent>>
history == <<ran, monitors>>
vars == <<motes, queueVars, air, history>>

\* handleCommand of the gateway queues every emergency as CMD_EMERGENCY_TWO.
QueuedCommand == [cmd : {CMD_EMERGENCY_TWO}, target : Mote]
Everyone == SetToSeq(Mote)
Recipients(c) == Everyone
Queue == INSTANCE CommandQueue WITH Command <- QueuedCommand

Init ==
    /\ \E head \in Heads : motes = [m \in Mote |->
           IF head[m] = defaultGateway THEN Booted(m)
           ELSE SetLocalGateway(Booted(m), head[m])]
    /\ Queue!Init
    /\ air = {} /\ ran = {} /\ monitors = {}

-----------------------------------------------------------------------------
Packet(c, t, from, to) == [cmd |-> c, target |-> t, from |-> from, to |-> to]

\* The commands among what a mote sends.
CommandsIn(out) == {Packet(out[k].cmd, out[k].from, out[k].from, out[k].to) :
                        k \in {j \in DOMAIN out : out[j].kind = "command"}}

\* A mote does something that gives r.
Does(m, r) ==
    /\ motes' = [motes EXCEPT ![m] = r.mote]
    /\ monitors' = IF r.mote.emergencyTwo = 2 THEN monitors \cup {m} ELSE monitors

\* The movement of a cow is read; at every other reading average_movement is
\* looked at, and finds it RUNNING or not (krava.c:501).
MovementRead(m, running) ==
    LET r == ReadMovement(motes[m], running)
        found == running /\ ~motes[m].odd
    IN
    /\ running => m \in Runners
    /\ Does(m, r)
    /\ ran' = IF found THEN ran \cup {m} ELSE ran
    /\ air' = air \cup CommandsIn(r.out)
    /\ UNCHANGED queueVars

HearNeighbour(m, from) ==
    /\ m # from
    /\ Does(m, BroadcastRecv(motes[m], from))
    /\ UNCHANGED <<queueVars, air, ran>>

\* A command reaches a mote.  It may come in again: it is repeated when its
\* acknowledgement is lost.
MoteReceives(p) ==
    LET r == HandleCommand(motes[p.to], p.cmd, p.target) IN
    /\ p.to \in Mote
    /\ Does(p.to, r)
    /\ \E rest \in {air, air \ {p}} : air' = rest \cup CommandsIn(r.out)
    /\ UNCHANGED <<queueVars, ran>>

\* What the gateway queues for a command of a mote.
Queued(p) == [cmd |-> CMD_EMERGENCY_TWO, target |-> p.target]

\* A command reaches the gateway; a full queue refuses it.
GatewayReceives(p) ==
    /\ p.to = defaultGateway
    /\ air' \in {air, air \ {p}}
    /\ \/ /\ Len(queue) < MaxQueued
          /\ queue' = Append(queue, Queued(p))
          /\ Queue!Accept
       \/ /\ Len(queue) = MaxQueued
          /\ UNCHANGED queueVars
    /\ UNCHANGED <<motes, history>>

\* The commander takes a command, and sends it to one cow after the other.
Commander ==
    /\ \/ Queue!Take /\ left' = Everyone /\ UNCHANGED air
       \/ /\ Queue!SendOne
          /\ air' = air \cup {Packet(cmd, target, defaultGateway, sent'.to)}
    /\ UNCHANGED <<motes, history>>

Lose(p) ==
    /\ air' = air \ {p}
    /\ UNCHANGED <<motes, queueVars, history>>

Next ==
    /\ \/ \E m \in Mote, running \in BOOLEAN : MovementRead(m, running)
       \/ \E m, from \in Mote : HearNeighbour(m, from)
       \/ \E p \in air : MoteReceives(p) \/ GatewayReceives(p) \/ Lose(p)
       \/ Commander
    /\ Cardinality(air') <= MaxInFlight

Spec == Init /\ [][Next]_vars

-----------------------------------------------------------------------------
TypeOK ==
    /\ motes \in [Mote -> Globals]
    /\ queue \in Seq(QueuedCommand) /\ Len(queue) <= MaxQueued
    /\ left \in Seq(Mote)
    /\ air \subseteq [cmd : 0..5, target : Mote, from : Mote \cup {defaultGateway},
                      to : Mote \cup {defaultGateway}]
    /\ ran \subseteq Mote /\ monitors \subseteq Mote

\* "target_id is address of running cow" (libmessage.h:25): a mote only watches
\* over a cow that was found running.
WatchesRunningCow ==
    \A m \in Mote : motes[m].emergencyTwo = 2 => motes[m].emergencyTarget \in ran

\* Whatever is repeated, lost or late: every emergency names a cow that was
\* found running or a mote that watched over one, commands in the air, queued or
\* being sent included, an alarm of its own has a running cow, and no mote
\* watches before a cow ran.  With WatchesRunningCow it would only be the former.
EmergencyHasCause ==
    LET caused == ran \cup monitors IN
    /\ \A m \in Mote : motes[m].emergencyTwo = 1 => m \in ran
    /\ \A m \in Mote : motes[m].emergencyTwo = 2 => motes[m].emergencyTarget \in caused
    /\ \A p \in air : p.target \in caused
    /\ \A k \in DOMAIN queue : queue[k].target \in caused
    /\ left # <<>> => target \in caused
    /\ monitors # {} => ran # {}
=============================================================================
