--------------------------- MODULE ClusterRouting ---------------------------
(***************************************************************************)
(* Clusters over time: the gateway forms them from the latest reports and  *)
(* tells heads and members, its list repeats these commands, and the motes *)
(* send through their local gateways until their cluster interval is over. *)
(*                                                                         *)
(* Time passes in half minutes.  What a process does at its timer it does  *)
(* in the half minute in which the timer expires, except that a mote may   *)
(* notice the end of its cluster interval one half minute late: the        *)
(* neighbors process looks at clusterRefreshInterval when one of its own   *)
(* timers wakes it up.                                                     *)
(* Operators whose names end in Wrong are what a plausible mistake would    *)
(* make of the definition that follows them; no specification uses them.   *)
(***************************************************************************)
EXTENDS Modes, Clusters

CONSTANTS
    CLUSTERS_REFRESH_INTERVAL,   \* 4 half minutes
    CLUSTERS_RETRY_INTERVAL,     \* 2
    CLUSTER_INTERVAL,            \* 2
    Reports,      \* what each registered cow may report
    Weak,         \* motes that may get no acknowledgement for a minute
    Garbage,      \* what the buffer of get_average_motion may hold
    MaxLeft       \* commands that may outlast the half minute of their round

ASSUME IntervalAssumption ==
    /\ CLUSTERS_REFRESH_INTERVAL \in Nat \ {0}
    /\ CLUSTERS_RETRY_INTERVAL \in 1..CLUSTERS_REFRESH_INTERVAL
    /\ CLUSTER_INTERVAL \in Nat \ {0}
\* A message names up to 20 neighbours but neighbours[i] has room for
\* NUMBER_OF_COWS (gateway.c:185): there must not be more of them.
ASSUME RowAssumption == Cardinality(Mote) <= NUMBER_OF_COWS + 1
ASSUME ReportsAssumption ==
    \A i \in Cow : \A r \in Reports[i] :
        /\ register_cows[i] \in Mote
        /\ r.neighbours \subseteq Mote \ {register_cows[i]}
ASSUME EnvironmentAssumption ==
    /\ Weak \subseteq Mote
    /\ Garbage \subseteq 0..255 /\ Garbage # {}
    /\ MaxLeft \in Nat

\* A mote learns of its new role in the half minute of a round, and leaves it a
\* minute later, or half a minute after that: it does so before the next round,
\* when CLUSTER_INTERVAL (krava.h:39) is that much the shorter one of the two
\* (gateway.h:31).
LeavesBeforeNextRound == CLUSTER_INTERVAL + 2 <= CLUSTERS_REFRESH_INTERVAL

VARIABLES
    reports,    \* the tables of the gateway: what each cow last reported
    clusters,
    refresh,    \* half minutes until clusters_refresh_interval expires
    pending,    \* SET_LOCAL_GW commands to send and to repeat
    motes,      \* the globals of each mote
    lease       \* half minutes until the end of its cluster interval is noticed

vars == <<reports, clusters, refresh, pending, motes, lease>>

Init ==
    /\ reports = [i \in Cow |-> NoReport]
    /\ clusters = <<>>
    /\ refresh = CLUSTERS_REFRESH_INTERVAL
    /\ pending = {}
    /\ motes = [m \in Mote |-> Booted(m)]
    /\ lease = [m \in Mote |-> 0]

-----------------------------------------------------------------------------
(* The gateway *)

\* recv, for a message of a registered cow.
Report(i) ==
    /\ \E r \in Reports[i] : reports' = [reports EXCEPT ![i] = r]
    /\ UNCHANGED <<clusters, refresh, pending, motes, lease>>

\* Sends the head's command to the gateway itself.
CommandsOfWrong(c) ==
    {[to |-> m, target |-> c.head] : m \in c.members \cup {defaultGateway}}

\* The commands for a cluster, to its head and to its members.
CommandsOf(c) == {[to |-> m, target |-> c.head] : m \in c.members \cup {c.head}}

\* Always the retry interval.
NextRoundWrong(formed) == CLUSTERS_RETRY_INTERVAL

\* The interval to the next round.
NextRound(formed) ==
    IF formed = <<>> THEN CLUSTERS_RETRY_INTERVAL ELSE CLUSTERS_REFRESH_INTERVAL

\* handle_clusters.  Without candidates the old clusters stay in their array;
\* they are not sent again.
HandleClusters ==
    /\ refresh = 0
    /\ \E garbage \in [Cow -> Garbage] :
       LET candidates == ClustersOf(reports, garbage)
           formed == WithMembers(candidates)
       IN  /\ clusters' = IF candidates = <<>> THEN clusters ELSE formed
           /\ refresh' = NextRound(formed)
           /\ pending' = pending \cup UNION {CommandsOf(formed[k]) :
                                                 k \in DOMAIN formed}
    /\ UNCHANGED <<reports, motes, lease>>

\* A command is acknowledged, given up, or found no room in the queue.
Forget(p) ==
    /\ p \in pending
    /\ pending' = pending \ {p}
    /\ UNCHANGED <<reports, clusters, refresh, motes, lease>>

-----------------------------------------------------------------------------
(* The motes *)

\* A command reaches its mote.  It stays on the gateway's list, and comes again,
\* until its acknowledgement is received.
Deliver(p) ==
    /\ p \in pending
    /\ motes' = [motes EXCEPT ![p.to] = SetLocalGateway(@, p.target)]
    /\ lease' = [lease EXCEPT ![p.to] = CLUSTER_INTERVAL + 2]
    /\ UNCHANGED <<reports, clusters, refresh, pending>>

\* The neighbors process finds the interval expired.
Expire(m) ==
    /\ lease[m] \in {1, 2}
    /\ lease' = [lease EXCEPT ![m] = 0]
    /\ motes' = [motes EXCEPT ![m] =
           LET s == [@ EXCEPT !.clusterExpired = TRUE] IN
           IF s.iAmGateway \/ s.iAmInCluster THEN ClusterLearningMode(s) ELSE s]
    /\ UNCHANGED <<reports, clusters, refresh, pending>>

\* A minute without acknowledgements.
LoseConnection(m) ==
    /\ m \in Weak
    /\ motes' = [motes EXCEPT ![m] = ToggleEmergencyOne(@)]
    /\ UNCHANGED <<reports, clusters, refresh, pending, lease>>

-----------------------------------------------------------------------------
\* Half a minute passes.  By then the commands of a round have been
\* acknowledged or repeated to the limit, up to MaxLeft of them.
Tick ==
    /\ refresh > 0
    /\ Cardinality(pending) <= MaxLeft
    /\ \A m \in Mote : lease[m] # 1
    /\ refresh' = refresh - 1
    /\ lease' = [m \in Mote |-> IF lease[m] = 0 THEN 0 ELSE lease[m] - 1]
    /\ UNCHANGED <<reports, clusters, pending, motes>>

Next ==
    \/ \E i \in Cow : Report(i)
    \/ HandleClusters
    \/ \E p \in pending : Deliver(p) \/ Forget(p)
    \/ \E m \in Mote : Expire(m) \/ LoseConnection(m)
    \/ Tick

Spec == Init /\ [][Next]_vars

FairSpec ==
    /\ Spec
    /\ WF_vars(Tick) /\ WF_vars(HandleClusters)
    /\ \A m \in Mote : WF_vars(Expire(m))
    /\ WF_vars(\E p \in pending : Forget(p))

-----------------------------------------------------------------------------
\* The commands of a round are acknowledged or given up within its half minute.
\* The code does not see to it: a command that is alone on the list stays there
\* until the next one comes (gateway.c:684).
RoundDone == refresh # CLUSTERS_REFRESH_INTERVAL => pending = {}

TypeOK ==
    /\ \A i \in Cow : reports[i] \in Reports[i] \cup {NoReport}
    /\ \A k \in DOMAIN clusters :
           clusters[k].head \in Mote /\ clusters[k].members \subseteq Mote
    /\ Len(clusters) <= NUMBER_OF_COWS
    /\ refresh \in 0..CLUSTERS_REFRESH_INTERVAL
    /\ pending \subseteq [to : Mote, target : Mote]
    /\ motes \in [Mote -> Globals]
    /\ lease \in [Mote -> 0..CLUSTER_INTERVAL + 2]

\* The greedy choice (gateway.c:369-404) puts no mote into two clusters, as head
\* or as member, whatever the cows report of each other.
ClustersDisjoint ==
    \A j, k \in DOMAIN clusters :
        j # k => (clusters[j].members \cup {clusters[j].head})
                     \cap (clusters[k].members \cup {clusters[k].head}) = {}

\* "IF I am local gateway ... I need to forward them to default gateway"
\* (krava.c:81-82): the mote another one sends through sends to the default
\* gateway itself, whichever commands have arrived so far.
LocalGatewayForwards ==
    \A m \in Mote : LET head == motes[m].currentGateway IN
        head # defaultGateway => motes[head].currentGateway = defaultGateway

\* A member and its head do not send to each other: what they forward would go
\* back and forth.
NoForwardingLoop ==
    \A m \in Mote : LET head == motes[m].currentGateway IN
        head # defaultGateway => motes[head].currentGateway # m

\* "proceed with 1 minute learning mode for new cluster setup" (krava.c:711):
\* every mote leaves its cluster between two rounds, again and again, because
\* the rounds are further apart than the cluster interval is long.
LearnsAgain ==
    \A m \in Mote : []<>(~motes[m].iAmGateway /\ ~motes[m].iAmInCluster)
=============================================================================
