---------------------------- MODULE GatewayAcks ----------------------------
(***************************************************************************)
(* The retransmission list of the gateway (gateway.c).  It differs from    *)
(* the mote's in two ways: broadcast_CmdMsg numbers the commands itself,   *)
(* and it pushes an entry without looking for an older one with the same   *)
(* id and destination.                                                     *)
(***************************************************************************)
EXTENDS AckList

CONSTANTS
    MAX_ID,       \* 63: six bits of the first byte are left for the id; with
                  \* one id its successor would be 0, which is no id
    MaxCommands   \* bound on the commands of one behaviour

ASSUME IdAssumption == MAX_ID \in Nat \ {0, 1} /\ Id = 0..MAX_ID
ASSUME BoundAssumption == MaxCommands \in Nat

VARIABLES
    command_id,  \* the id in the global command
    commands     \* commands sent so far

gatewayVars == <<ackVars, command_id, commands>>

NextIdWrong(id) == id + 1

\* resetCmdMsg with setCmdMsgId: the successor of the largest id is 1.
NextId(id) == IF id + 1 > MAX_ID THEN (id + 1) % MAX_ID ELSE id + 1

GatewayInit ==
    /\ AckInit
    /\ command_id = NextId(0)
    /\ commands = 0

\* broadcast_CmdMsg: a new id, mesh_send and an entry if there is a block.
BroadcastCmdMsg(msg, destinationAddress) ==
    /\ commands < MaxCommands
    /\ commands' = commands + 1
    /\ command_id' = NextId(command_id)
    /\ Push(ack_list, ack_mem, destinationAddress, command_id', msg)
    /\ UNCHANGED entry

\* recv, the branch for packets of one byte.
GatewayRecvAck(id, from) ==
    /\ ReceiveAck(id, from)
    /\ UNCHANGED <<command_id, commands>>

\* The two places where error_recovery wakes up.
ErrorRecovery ==
    /\ StartRound \/ RetryEntry
    /\ UNCHANGED <<command_id, commands>>

GatewayNext ==
    \/ \E msg \in Msg, to \in Addr : BroadcastCmdMsg(msg, to)
    \/ \E id \in Id, from \in Addr : GatewayRecvAck(id, from)
    \/ ErrorRecovery

\* The recovery timer is re-armed on every path through gateway.c:680-713.
GatewaySpec ==
    /\ GatewayInit
    /\ [][GatewayNext]_gatewayVars
    /\ WF_gatewayVars(ErrorRecovery)

-----------------------------------------------------------------------------
GatewayTypeOK ==
    /\ AckTypeOK
    /\ command_id \in 1..MAX_ID
    /\ commands \in 0..MaxCommands
=============================================================================
