------------------------------- MODULE Modes -------------------------------
(***************************************************************************)
(* The modes of a mote (krava.c): its role in a cluster, emergency one (a  *)
(* mote is lost) and emergency two (a cow is running), and what they do to *)
(* its transmission power and its intervals.  The functions of krava.c     *)
(* become operators on the record of the mote's globals; MoteModes and     *)
(* RunningCow make steps of them.                                          *)
(*                                                                         *)
(* The status message m and the routing table are left out: no mode        *)
(* depends on them.                                                        *)
(***************************************************************************)
EXTENDS Naturals, Sequences, FiniteSets, SequencesExt

CONSTANTS
    Mote,                \* addresses of motes
    defaultGateway,
    RUNNING_MAX,         \* 5
    RUNNING_CAP,         \* 255: running_counter is a uint8_t
    EMERGENCY_DATA_MAX   \* 100

ASSUME AddressAssumption ==
    /\ Mote \subseteq 1..255
    /\ defaultGateway \in (0..255) \ Mote
ASSUME RunningAssumption ==
    RUNNING_MAX \in Nat \ {0} /\ RUNNING_CAP \in Nat /\ RUNNING_MAX <= RUNNING_CAP
ASSUME DataAssumption == EMERGENCY_DATA_MAX \in Nat \ {0}

CMD_SET_LOCAL_GW == 0
CMD_QUERY_MOTE == 1
CMD_EMERGENCY_ONE == 2
CMD_EMERGENCY_TWO == 3
CMD_CANCEL_EMERGENCY_ONE == 4
CMD_CANCEL_EMERGENCY_TWO == 5
Cmd == CMD_SET_LOCAL_GW..CMD_CANCEL_EMERGENCY_TWO

MemberPower == 15
CC2420_TXPOWER_MAX == 31

\* The values neighbor_sense_interval is given: NEIGHBOR_SENSE_INTERVAL, half
\* of it, and NEIGHBOR_SENSE_TIME.
SenseIntervals == {"interval", "half", "time"}

\* What the globals may be.
Globals == [
    node_id : Mote, mote_id : Mote, iAmGateway : BOOLEAN, iAmInCluster : BOOLEAN,
    emergencyOne : 0..2, emergencyTwo : 0..2, emergencyTarget : Mote \cup {0},
    ackCounter : 0..255, currentGateway : Mote \cup {defaultGateway},
    txpower : {MemberPower, CC2420_TXPOWER_MAX},
    running_counter : 0..RUNNING_CAP, odd : BOOLEAN, hurried : BOOLEAN,
    neighbor_sense_interval : SenseIntervals,
    eTwoRSSI : 0..(EMERGENCY_DATA_MAX - 1), eTwoAcc : 0..(EMERGENCY_DATA_MAX - 1),
    command_target : Mote \cup {0}, clusterExpired : BOOLEAN]

\* The globals after all four processes have been started.  An etimer that
\* was never set counts as expired.
Booted(id) == [
    node_id |-> id, mote_id |-> id, iAmGateway |-> FALSE, iAmInCluster |-> FALSE,
    emergencyOne |-> 0, emergencyTwo |-> 0, emergencyTarget |-> 0,
    ackCounter |-> 0, currentGateway |-> defaultGateway,
    txpower |-> CC2420_TXPOWER_MAX,
    running_counter |-> 0,
    odd |-> FALSE,               \* movement_counter is odd
    hurried |-> FALSE,           \* advertising and movement intervals are halved
    neighbor_sense_interval |-> "interval",
    eTwoRSSI |-> 0, eTwoAcc |-> 0,   \* the number of samples in each
    command_target |-> 0,        \* target_id of the global command
    clusterExpired |-> TRUE]     \* clusterRefreshInterval has expired

-----------------------------------------------------------------------------
(* Every operator gives the globals and the packets that result, as a      *)
(* record of both; Then chains them.                                     *)
(* Operators whose names end in Wrong are what a plausible mistake would    *)
(* make of the definition that follows; no specification uses them.        *)

Quietly(s) == [mote |-> s, out |-> <<>>]

Sending(s, kind, cmd) ==
    [mote |-> s,
     out |-> <<[kind |-> kind, cmd |-> cmd, from |-> s.mote_id,
                to |-> s.currentGateway]>>]

Then(r, next) == [next EXCEPT !.out = r.out \o @]

\* sendCommand after the assignments to the global command.
SendCommand(s, cmd) ==
    Sending([s EXCEPT !.command_target = s.mote_id], "command", cmd)

SendMessage(s) == Sending(s, "message", CMD_QUERY_MOTE)

SendEmergencyTwoRSSI(s) == Sending([s EXCEPT !.eTwoRSSI = 0], "rssi", 0)

SendEmergencyTwoAcc(s) == Sending([s EXCEPT !.eTwoAcc = 0], "acc", 0)

-----------------------------------------------------------------------------
(* Commands *)

SetLocalGateway(s, target) ==
    IF target # s.node_id
    THEN [s EXCEPT !.iAmGateway = FALSE, !.iAmInCluster = TRUE,
                   !.currentGateway = target, !.txpower = MemberPower,
                   !.clusterExpired = FALSE]
    ELSE [s EXCEPT !.iAmGateway = TRUE, !.iAmInCluster = FALSE,
                   !.currentGateway = defaultGateway,
                   !.txpower = CC2420_TXPOWER_MAX, !.clusterExpired = FALSE]

HandleEmergencyOne(s) ==
    [s EXCEPT !.emergencyOne = 2, !.txpower = CC2420_TXPOWER_MAX]

HandleEmergencyTwo(s, target) ==
    IF s.emergencyTwo = 1 \/ s.mote_id = target
    THEN s
    ELSE [s EXCEPT !.neighbor_sense_interval = "half", !.emergencyTwo = 2,
                   !.emergencyTarget = target]

\* The power goes by the global command, not by the one being handled.
CancelSysEmergencyOne(s) ==
    LET t == [s EXCEPT !.neighbor_sense_interval = "time"]
        member == s.iAmInCluster /\ s.command_target # s.node_id
    IN  IF s.emergencyOne = 0 THEN t
        ELSE [t EXCEPT !.emergencyOne = 0,
                  !.txpower = IF member THEN MemberPower ELSE CC2420_TXPOWER_MAX]

CancelSysEmergencyTwo(s) ==
    LET t == [s EXCEPT !.neighbor_sense_interval = "interval"]
        quiet == [t EXCEPT !.emergencyTwo = 0]
    IN  CASE s.emergencyTwo = 2 -> SendEmergencyTwoRSSI(quiet)
          [] s.emergencyTwo = 1 -> SendEmergencyTwoAcc(quiet)
          [] OTHER -> Quietly(t)

HandleCommand(s, cmd, target) ==
    CASE cmd = CMD_SET_LOCAL_GW -> Quietly(SetLocalGateway(s, target))
      [] cmd = CMD_QUERY_MOTE -> SendMessage(s)
      [] cmd = CMD_EMERGENCY_ONE -> Quietly(HandleEmergencyOne(s))
      [] cmd = CMD_EMERGENCY_TWO -> Quietly(HandleEmergencyTwo(s, target))
      [] cmd = CMD_CANCEL_EMERGENCY_ONE -> Quietly(CancelSysEmergencyOne(s))
      [] cmd = CMD_CANCEL_EMERGENCY_TWO -> CancelSysEmergencyTwo(s)

-----------------------------------------------------------------------------
(* Motion *)

TriggerEmergencyTwo(s) ==
    IF s.emergencyTwo = 1 THEN Quietly(s)
    ELSE SendCommand([s EXCEPT !.emergencyTwo = 1, !.hurried = TRUE],
                     CMD_EMERGENCY_TWO)

\* Forgets to leave the mode.
CancelEmergencyTwoWrong(s) == Quietly([s EXCEPT !.running_counter = 0])

CancelEmergencyTwo(s) ==
    LET t == [s EXCEPT !.running_counter = 0] IN
    IF s.emergencyTwo = 0 THEN Quietly(t)
    ELSE LET told == SendCommand([t EXCEPT !.emergencyTwo = 0, !.hurried = FALSE],
                                 CMD_CANCEL_EMERGENCY_TWO)
         IN  Then(told, SendEmergencyTwoAcc(told.mote))

\* Lets the counter run.
JudgeWrong(s, running) ==
    LET t == [s EXCEPT !.running_counter = @ + 1]
    IN  CASE ~running -> CancelEmergencyTwo(s)
          [] running /\ t.running_counter >= RUNNING_MAX -> TriggerEmergencyTwo(t)
          [] OTHER -> Quietly(t)

\* The part of readMovement that looks at average_movement, at every other
\* reading.
Judge(s, running) ==
    LET n == IF s.running_counter = RUNNING_CAP THEN RUNNING_CAP
             ELSE s.running_counter + 1
        t == [s EXCEPT !.running_counter = n]
    IN  CASE ~running -> CancelEmergencyTwo(s)
          [] running /\ n >= RUNNING_MAX -> TriggerEmergencyTwo(t)
          [] OTHER -> Quietly(t)

\* addEmergencyData for eTwoAcc, and the message once it is full.
AddAcc(s) ==
    IF s.emergencyTwo # 1 THEN Quietly(s)
    ELSE LET t == [s EXCEPT !.eTwoAcc = @ + 1] IN
         IF t.eTwoAcc = EMERGENCY_DATA_MAX THEN SendEmergencyTwoAcc(t)
         ELSE Quietly(t)

ReadMovement(s, running) ==
    LET judged == IF s.odd THEN Quietly(s) ELSE Judge(s, running)
    IN  Then(judged, AddAcc([judged.mote EXCEPT !.odd = ~@]))

-----------------------------------------------------------------------------
(* Neighbours, acknowledgements and timers *)

\* broadcast_recv: a "Hello" of some other mote.
BroadcastRecv(s, from) ==
    IF s.emergencyTwo = 2 /\ s.emergencyTarget = from
    THEN LET t == [s EXCEPT !.eTwoRSSI = @ + 1] IN
         IF t.eTwoRSSI = EMERGENCY_DATA_MAX THEN SendEmergencyTwoRSSI(t)
         ELSE Quietly(t)
    ELSE Quietly(s)

\* toggleEmergencyOne, once a minute.
ToggleEmergencyOneWrong(s) ==
    IF s.ackCounter = 0
    THEN [s EXCEPT !.emergencyOne = 1, !.iAmGateway = FALSE,
                   !.iAmInCluster = FALSE, !.currentGateway = defaultGateway]
    ELSE [s EXCEPT !.ackCounter = 0, !.emergencyOne = 0]

ToggleEmergencyOne(s) ==
    IF s.ackCounter = 0
    THEN [s EXCEPT !.emergencyOne = 1, !.iAmGateway = FALSE,
                   !.iAmInCluster = FALSE, !.currentGateway = defaultGateway,
                   !.txpower = CC2420_TXPOWER_MAX]
    ELSE [s EXCEPT !.ackCounter = 0, !.emergencyOne = 0]

ClusterLearningModeWrong(s) ==
    [s EXCEPT !.iAmGateway = FALSE, !.iAmInCluster = FALSE,
              !.txpower = CC2420_TXPOWER_MAX]

ClusterLearningMode(s) ==
    [s EXCEPT !.iAmGateway = FALSE, !.iAmInCluster = FALSE,
              !.txpower = CC2420_TXPOWER_MAX, !.currentGateway = defaultGateway]
=============================================================================
