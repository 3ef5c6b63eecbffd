----------------------------- MODULE MoteModes -----------------------------
(***************************************************************************)
(* The modes of one mote in an arbitrary network: commands, packets and    *)
(* motion come in, timers expire and the button is pressed at any moment   *)
(* and in any order.                                                       *)
(***************************************************************************)
EXTENDS Modes

CONSTANTS
    MY_ADDRESS_1,  \* the address the button gives to a mote
    MaxAcks        \* bound on the acknowledgements of a minute

ASSUME ButtonAssumption == MY_ADDRESS_1 \in Mote
\* ackCounter is a uint8_t.
ASSUME AcksAssumption == MaxAcks \in 1..255

VARIABLES
    mote,     \* the globals of the mote
    out       \* what the last step sent

vars == <<mote, out>>

Init ==
    /\ mote \in {Booted(id) : id \in Mote}
    /\ out = <<>>

-----------------------------------------------------------------------------
Step(r) == mote' = r.mote /\ out' = r.out

\* recv, the branch for commands.  Whether it came from the gateway or from
\* a member of the cluster makes no difference.
Command(cmd, target) == Step(HandleCommand(mote, cmd, target))

\* recv, the branch for acknowledgements.
Acknowledged ==
    /\ mote.ackCounter < MaxAcks
    /\ Step(Quietly([mote EXCEPT !.ackCounter = @ + 1]))

Movement(running) == Step(ReadMovement(mote, running))

Hello(from) == from # mote.mote_id /\ Step(BroadcastRecv(mote, from))

AckCount == Step(Quietly(ToggleEmergencyOne(mote)))

SendInterval == Step(SendMessage(mote))

\* Time passes.
ClusterIntervalExpires ==
    /\ ~mote.clusterExpired
    /\ Step(Quietly([mote EXCEPT !.clusterExpired = TRUE]))

\* Looks at the head of the cluster only.
LeaveClusterWrong ==
    /\ mote.clusterExpired
    /\ mote.iAmGateway
    /\ Step(Quietly(ClusterLearningMode(mote)))

\* The neighbour process wakes up.
LeaveCluster ==
    /\ mote.clusterExpired
    /\ mote.iAmGateway \/ mote.iAmInCluster
    /\ Step(Quietly(ClusterLearningMode(mote)))

Button == Step(Quietly([mote EXCEPT !.mote_id = MY_ADDRESS_1]))

Next ==
    \/ \E cmd \in Cmd, target \in Mote : Command(cmd, target)
    \/ \E running \in BOOLEAN : Movement(running)
    \/ \E from \in Mote : Hello(from)
    \/ Acknowledged \/ AckCount \/ SendInterval \/ Button
    \/ ClusterIntervalExpires \/ LeaveCluster

\* Timers expire and the neighbour process wakes up again and again, it sets
\* its own timers at krava.c:723, 729 and 741.
Spec == Init /\ [][Next]_vars
             /\ WF_vars(ClusterIntervalExpires) /\ WF_vars(LeaveCluster)

-----------------------------------------------------------------------------
TypeOK == mote \in Globals /\ mote.ackCounter <= MaxAcks

\* A mote sends to another gateway than the default one exactly while it is a
\* member of a cluster, and never to node_id, the address it booted with: four
\* functions change the role or the gateway (krava.c:118-143, 173-184, 266-268).
\* Once the button has changed mote_id (krava.c:338-349) it may send to itself,
\* since krava.c:114 goes on comparing with node_id.
GatewayMatchesRole ==
    /\ ~(mote.iAmGateway /\ mote.iAmInCluster)
    /\ mote.iAmInCluster <=> mote.currentGateway # defaultGateway
    /\ mote.currentGateway # mote.node_id

\* Only a member of a cluster saves power: whoever talks to the gateway itself
\* does so with full power (krava.c:142, 180, 275), also after an alarm that
\* began in another role was cancelled (krava.c:233-237).
FullPowerOutsideCluster == ~mote.iAmInCluster => mote.txpower = CC2420_TXPOWER_MAX

\* While a mote has an alarm of its own its cow is running, and it measures and
\* advertises at double speed, whatever commands interfere (krava.c:289, 305,
\* 504-510).  Not the other way round: a cancellation from outside ends the
\* alarm and not the speed (krava.c:255-257, 307).
AlarmOnlyWhileRunning ==
    mote.emergencyTwo = 1 => mote.hurried /\ mote.running_counter >= RUNNING_MAX

\* A mote whose local gateway is not named again goes back to the default
\* gateway: "disable cluster setting" (krava.c:711).
ReturnsToDefault ==
    <>[][\A t \in Mote : ~Command(CMD_SET_LOCAL_GW, t)]_vars
        => <>[](mote.currentGateway = defaultGateway)
=============================================================================
