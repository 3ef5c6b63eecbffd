------------------------------ MODULE Clusters ------------------------------
(***************************************************************************)
(* How the gateway divides the herd into clusters (gateway.c 246-276,      *)
(* 326-425): every registered cow gets a score from what it last reported, *)
(* the candidates become heads in the order of registration, and take the  *)
(* neighbours that no earlier cluster has.                                 *)
(*                                                                         *)
(* A report is what recv stores of a message: the neighbours, how many     *)
(* motions, the newest of them, the battery and the hops it took.          *)
(***************************************************************************)
EXTENDS Naturals, Integers, Sequences, FiniteSets

CONSTANTS register_cows   \* the addresses of the registered cows, in their order

NUMBER_OF_COWS == Len(register_cows)
Cow == 1..NUMBER_OF_COWS

ASSUME RegisterAssumption ==
    /\ register_cows \in Seq(1..255)
    /\ \A i, j \in Cow : register_cows[i] = register_cows[j] => i = j

CLUSTER_FORMULA_TRESHOLD == 3

\* The tables at start, all zero.
NoReport == [neighbours |-> {}, motionCount |-> 0, motion |-> 0,
             battery |-> 0, hops |-> 0]

\* What get_average_motion may return for a report.  It returns the newest
\* motion; without motions it returns what its uninitialised buffer holds.
AverageMotion(r, uninitialised) ==
    IF r.motionCount = 0 THEN uninitialised ELSE r.motion

Score(r, uninitialised) ==
    5 * Cardinality(r.neighbours) - AverageMotion(r, uninitialised) - r.hops
        + (r.battery \div 10) \div 2

Candidate(r, uninitialised) == Score(r, uninitialised) > CLUSTER_FORMULA_TRESHOLD

-----------------------------------------------------------------------------
(* Operators whose names end in Wrong are what a plausible mistake would    *)
(* make of the definition that follows them; no specification uses them.   *)

\* Looks among the members only.
MemberInClusterWrong(c, mote) == mote \in c.members

MemberInCluster(c, mote) == c.head = mote \/ mote \in c.members

\* Takes any candidate for a head.
AddClusterWrong(clusters, head, neighbours) ==
    LET taken(n) == \E k \in DOMAIN clusters : MemberInCluster(clusters[k], n)
    IN  Append(clusters, [head |-> head,
                          members |-> {n \in neighbours : ~taken(n)}])

\* Clusters, a sequence, with one more of this head: the neighbours no earlier
\* cluster has become its members.
AddCluster(clusters, head, neighbours) ==
    LET taken(n) == \E k \in DOMAIN clusters : MemberInCluster(clusters[k], n)
    IN  IF taken(head) THEN clusters
        ELSE Append(clusters, [head |-> head,
                               members |-> {n \in neighbours : ~taken(n)}])

\* The clusters for the reports of all cows; garbage is what the uninitialised
\* buffer holds when the score of each cow is computed.
ClustersOf(reports, garbage) ==
    LET grown[i \in 0..NUMBER_OF_COWS] ==
            IF i = 0 THEN <<>>
            ELSE IF Candidate(reports[i], garbage[i])
            THEN AddCluster(grown[i - 1], register_cows[i], reports[i].neighbours)
            ELSE grown[i - 1]
    IN  grown[NUMBER_OF_COWS]

\* Clusters without members are filtered out.
WithMembers(clusters) ==
    LET kept[k \in 0..Len(clusters)] ==
            IF k = 0 THEN <<>>
            ELSE IF clusters[k].members # {}
            THEN Append(kept[k - 1], clusters[k])
            ELSE kept[k - 1]
    IN  kept[Len(clusters)]
=============================================================================
