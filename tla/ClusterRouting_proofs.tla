------------------------ MODULE ClusterRouting_proofs ------------------------
(***************************************************************************)
(* Proofs about clusters, for every set of motes, every register, every    *)
(* report and every content of the uninitialised buffer: the clusters of a *)
(* round do not overlap, and a mote that others send through sends to the  *)
(* default gateway itself.                                                 *)
(***************************************************************************)
EXTENDS ClusterRouting, Modes_proofs, SequenceTheorems, FiniteSetTheorems

-----------------------------------------------------------------------------
(* The formation of clusters.                                              *)

ClusterRecord == [head : Mote, members : SUBSET Mote]

\* The motes of a cluster, its head among them.
Group(c) == c.members \cup {c.head}

Apart(cs) == \A j, k \in DOMAIN cs : j # k => Group(cs[j]) \cap Group(cs[k]) = {}

\* Sequences of clusters that do not overlap.
Clusterings == {cs \in Seq(ClusterRecord) : Apart(cs)}

LEMMA NoClusters == <<>> \in Clusterings /\ Len(<<>>) = 0
BY DEF Clusterings, Apart

\* One more cluster that has nothing in common with those there are.
LEMMA AppendCluster ==
    ASSUME NEW cs \in Clusterings, NEW c \in ClusterRecord,
           \A k \in DOMAIN cs : Group(cs[k]) \cap Group(c) = {}
    PROVE  /\ Append(cs, c) \in Clusterings
           /\ Len(Append(cs, c)) = Len(cs) + 1
           /\ \A k \in 1..Len(cs) : Append(cs, c)[k] = cs[k]
           /\ Append(cs, c)[Len(cs) + 1] = c
<1>. DEFINE r == Append(cs, c)
            n == Len(cs)
<1>1. cs \in Seq(ClusterRecord)
  BY DEF Clusterings
<1>2. /\ n \in Nat
      /\ DOMAIN cs = 1..n
      /\ r \in Seq(ClusterRecord)
      /\ Len(r) = n + 1
      /\ DOMAIN r = 1..(n + 1)
      /\ \A k \in 1..n : r[k] = cs[k]
      /\ r[n + 1] = c
  <2>1. n \in Nat /\ DOMAIN cs = 1..n
    BY <1>1, LenProperties
  <2>2. /\ r \in Seq(ClusterRecord)
        /\ Len(r) = n + 1
        /\ \A k \in 1..n : r[k] = cs[k]
        /\ r[n + 1] = c
    BY <1>1, AppendProperties
  <2>3. DOMAIN r = 1..(n + 1)
    BY <2>2, LenProperties
  <2>. QED
    BY <2>1, <2>2, <2>3
<1>. HIDE DEF r, n
<1>3. \A k \in 1..(n + 1) : k = n + 1 \/ k \in 1..n
  BY <1>2
<1>4. Apart(r)
  <2>. SUFFICES ASSUME NEW j \in 1..(n + 1), NEW k \in 1..(n + 1), j # k
                PROVE  Group(r[j]) \cap Group(r[k]) = {}
    BY <1>2 DEF Apart
  <2>1. CASE j \in 1..n /\ k \in 1..n
    <3>1. Group(cs[j]) \cap Group(cs[k]) = {}
      BY <1>2, <2>1 DEF Clusterings, Apart
    <3>. QED
      BY <1>2, <2>1, <3>1
  <2>2. CASE j \in 1..n /\ k = n + 1
    <3>1. Group(cs[j]) \cap Group(c) = {}
      BY <1>2, <2>2
    <3>. QED
      BY <1>2, <2>2, <3>1
  <2>3. CASE j = n + 1 /\ k \in 1..n
    <3>1. Group(cs[k]) \cap Group(c) = {}
      BY <1>2, <2>3
    <3>. QED
      BY <1>2, <2>3, <3>1
  <2>. QED
    BY <1>3, <2>1, <2>2, <2>3
<1>5. r \in Clusterings
  BY <1>2, <1>4 DEF Clusterings
<1>. QED
  BY <1>2, <1>5 DEF r, n

\* A new head that is in no cluster yet takes the neighbours that are in none.
LEMMA AddClusterKeepsApart ==
    ASSUME NEW cs \in Clusterings, NEW head \in Mote,
           NEW neighbours \in SUBSET Mote
    PROVE  /\ AddCluster(cs, head, neighbours) \in Clusterings
           /\ Len(AddCluster(cs, head, neighbours)) <= Len(cs) + 1
<1>. DEFINE taken(n) == \E k \in DOMAIN cs : MemberInCluster(cs[k], n)
            c == [head |-> head, members |-> {n \in neighbours : ~taken(n)}]
<1>1. Len(cs) \in Nat
  BY LenProperties DEF Clusterings
<1>2. CASE taken(head)
  <2>1. AddCluster(cs, head, neighbours) = cs
    BY <1>2 DEF AddCluster
  <2>. QED
    BY <1>1, <2>1
<1>3. CASE ~taken(head)
  <2>1. AddCluster(cs, head, neighbours) = Append(cs, c)
    BY <1>3 DEF AddCluster
  <2>2. c \in ClusterRecord
    BY DEF ClusterRecord
  <2>3. \A n \in Group(c) : ~taken(n)
    BY <1>3 DEF Group
  <2>4. \A k \in DOMAIN cs : Group(cs[k]) \cap Group(c) = {}
    BY <2>3 DEF Group, MemberInCluster
  <2>. HIDE DEF c
  <2>5. Append(cs, c) \in Clusterings /\ Len(Append(cs, c)) = Len(cs) + 1
    BY <2>2, <2>4, AppendCluster
  <2>. QED
    BY <1>1, <2>1, <2>5
<1>. QED
  BY <1>2, <1>3

\* A cow that has not reported is no candidate: without neighbours and battery
\* its score is not positive, whatever the buffer holds.
LEMMA SilentIsNoCandidate ==
    ASSUME NEW held \in 0..255
    PROVE  ~Candidate(NoReport, held)
<1>1. Cardinality({}) = 0
  BY FS_EmptySet
<1>2. (0 \div 10) \div 2 = 0
  OBVIOUS
<1>3. Score(NoReport, held) = 5 * 0 - held - 0 + 0
  BY <1>1, <1>2 DEF Score, NoReport, AverageMotion
<1>. QED
  BY <1>3 DEF Candidate, CLUSTER_FORMULA_TRESHOLD

Reported(rs) == \A i \in Cow : rs[i] \in Reports[i] \cup {NoReport}

\* The clusters of any reports do not overlap.
LEMMA FormedApart ==
    ASSUME NEW rs, Reported(rs), NEW garbage \in [Cow -> Garbage]
    PROVE  /\ ClustersOf(rs, garbage) \in Clusterings
           /\ Len(ClustersOf(rs, garbage)) <= NUMBER_OF_COWS
<1>. DEFINE N == NUMBER_OF_COWS
            add(i, cs) == IF Candidate(rs[i], garbage[i])
                          THEN AddCluster(cs, register_cows[i], rs[i].neighbours)
                          ELSE cs
            Grows(g) == g = [i \in 0..N |-> IF i = 0 THEN <<>>
                                            ELSE IF Candidate(rs[i], garbage[i])
                                            THEN AddCluster(g[i - 1], register_cows[i], rs[i].neighbours)
                                            ELSE g[i - 1]]
<1>0. N \in Nat /\ Cow = 1..N
  BY RegisterAssumption, LenProperties DEF NUMBER_OF_COWS, Cow
<1>1. ASSUME NEW i \in 1..N, NEW cs \in Clusterings
      PROVE  add(i, cs) \in Clusterings /\ Len(add(i, cs)) <= Len(cs) + 1
  <2>0. Len(cs) \in Nat
    BY LenProperties DEF Clusterings
  <2>1. CASE Candidate(rs[i], garbage[i])
    <3>1. garbage[i] \in 0..255
      BY <1>0, EnvironmentAssumption
    <3>2. rs[i] \in Reports[i]
      BY <1>0, <2>1, <3>1, SilentIsNoCandidate DEF Reported
    <3>3. register_cows[i] \in Mote
          /\ rs[i].neighbours \in SUBSET Mote
      BY <1>0, <3>2, ReportsAssumption
    <3>. QED
      BY <2>1, <3>3, AddClusterKeepsApart
  <2>2. CASE ~Candidate(rs[i], garbage[i])
    BY <2>0, <2>2
  <2>. QED
    BY <2>1, <2>2
<1>. DEFINE grown == CHOOSE g : Grows(g)
<1>2. Grows(grown)
  <2>. DEFINE step == [i \in 1..N |-> [cs \in Clusterings |-> add(i, cs)]]
  <2>. HIDE DEF N
  <2>1. step \in [1..N -> [Clusterings -> Clusterings]]
    <3>. HIDE DEF add
    <3>. QED
      BY <1>1
  <2>2. \A i \in 1..N : \A cs \in Clusterings : step[i][cs] = add(i, cs)
    OBVIOUS
  <2>. HIDE DEF step
  <2>3. PICK g \in [0..N -> Clusterings] :
            /\ g[0] = <<>>
            /\ \A i \in 1..N : g[i] = step[i][g[i - 1]]
    <3>1. <<>> \in Clusterings
      BY NoClusters
    <3>2. \E g \in [0..N -> Clusterings] : Recurs(g, N, <<>>, step)
      BY <1>0, <2>1, <3>1, RecursionExists
    <3>. QED
      BY <3>2 DEF Recurs
  <2>4. ASSUME NEW i \in 1..N
        PROVE  g[i] = add(i, g[i - 1])
    <3>1. i - 1 \in 0..N
      BY <1>0
    <3>2. g[i - 1] \in Clusterings
      BY <3>1
    <3>. QED
      BY <2>2, <2>3, <3>2
  <2>5. Grows(g)
    <3>1. \A i \in 0..N : i # 0 => i \in 1..N
      BY <1>0
    <3>2. \A i \in 0..N : g[i] = IF i = 0 THEN <<>> ELSE add(i, g[i - 1])
      BY <2>3, <2>4, <3>1
    <3>. QED
      BY <3>2
  <2>. HIDE DEF Grows
  <2>. QED
    BY <2>5, Zenon
<1>3. ClustersOf(rs, garbage) = grown[N]
  BY Zenon DEF ClustersOf
<1>. HIDE DEF grown
<1>. DEFINE P == {i \in 0..N : grown[i] \in Clusterings /\ Len(grown[i]) <= i}
<1>4. grown[0] = <<>> /\ \A i \in 1..N : grown[i] = add(i, grown[i - 1])
  <2>. HIDE DEF N
  <2>1. 0 \in 0..N /\ \A i \in 1..N : i \in 0..N /\ i # 0
    BY <1>0
  <2>. QED
    BY <1>2, <2>1
<1>. HIDE DEF N, add
<1>5. 0 \in P
  BY <1>0, <1>4, NoClusters
<1>6. ASSUME NEW i \in 1..N, i - 1 \in P
      PROVE  i \in P
  <2>1. grown[i - 1] \in Clusterings /\ Len(grown[i - 1]) <= i - 1
    BY <1>6
  <2>2. grown[i] \in Clusterings /\ Len(grown[i]) <= Len(grown[i - 1]) + 1
    BY <1>1, <1>4, <2>1
  <2>3. Len(grown[i]) \in Nat /\ Len(grown[i - 1]) \in Nat
    BY <2>1, <2>2, LenProperties DEF Clusterings
  <2>4. Len(grown[i]) <= i
    BY <1>0, <2>1, <2>2, <2>3
  <2>. QED
    BY <1>0, <2>2, <2>4
<1>. HIDE DEF P
<1>7. 0..N \subseteq P
  BY <1>0, <1>5, <1>6, UpTo
<1>8. N \in P
  BY <1>0, <1>7
<1>. QED
  BY <1>3, <1>8 DEF P, N

\* Leaving out the clusters without members keeps the others apart.
LEMMA FilteredApart ==
    ASSUME NEW cs \in Clusterings
    PROVE  /\ WithMembers(cs) \in Clusterings
           /\ Len(WithMembers(cs)) <= Len(cs)
<1>. DEFINE n == Len(cs)
            keep(k, ks) == IF cs[k].members # {} THEN Append(ks, cs[k]) ELSE ks
            Keeps(g) == g = [k \in 0..n |-> IF k = 0 THEN <<>>
                                            ELSE IF cs[k].members # {}
                                            THEN Append(g[k - 1], cs[k])
                                            ELSE g[k - 1]]
            S == Seq(ClusterRecord)
<1>0. /\ n \in Nat
      /\ DOMAIN cs = 1..n
      /\ \A k \in 1..n : cs[k] \in ClusterRecord
      /\ \A j, k \in 1..n : j # k => Group(cs[j]) \cap Group(cs[k]) = {}
  <2>1. cs \in Seq(ClusterRecord)
    BY DEF Clusterings
  <2>2. n \in Nat /\ DOMAIN cs = 1..n
    BY <2>1, LenProperties
  <2>3. \A k \in 1..n : cs[k] \in ClusterRecord
    BY <2>1, ElementOfSeq
  <2>. QED
    BY <2>2, <2>3 DEF Clusterings, Apart
<1>1. ASSUME NEW k \in 1..n, NEW ks \in S
      PROVE  keep(k, ks) \in S
  <2>1. cs[k] \in ClusterRecord
    BY <1>0
  <2>. QED
    BY <2>1, AppendProperties
<1>. DEFINE kept == CHOOSE g : Keeps(g)
<1>2. Keeps(kept)
  <2>. DEFINE step == [k \in 1..n |-> [ks \in S |-> keep(k, ks)]]
  <2>. HIDE DEF n, S
  <2>1. step \in [1..n -> [S -> S]]
    <3>. HIDE DEF keep
    <3>. QED
      BY <1>1
  <2>2. \A k \in 1..n : \A ks \in S : step[k][ks] = keep(k, ks)
    OBVIOUS
  <2>. HIDE DEF step
  <2>3. PICK g \in [0..n -> S] :
            /\ g[0] = <<>>
            /\ \A k \in 1..n : g[k] = step[k][g[k - 1]]
    <3>1. <<>> \in S
      BY DEF S
    <3>2. \E g \in [0..n -> S] : Recurs(g, n, <<>>, step)
      BY <1>0, <2>1, <3>1, RecursionExists
    <3>. QED
      BY <3>2 DEF Recurs
  <2>4. ASSUME NEW k \in 1..n
        PROVE  g[k] = keep(k, g[k - 1])
    <3>1. k - 1 \in 0..n
      BY <1>0
    <3>2. g[k - 1] \in S
      BY <3>1
    <3>. QED
      BY <2>2, <2>3, <3>2
  <2>5. Keeps(g)
    <3>1. \A k \in 0..n : k # 0 => k \in 1..n
      BY <1>0
    <3>2. \A k \in 0..n : g[k] = IF k = 0 THEN <<>> ELSE keep(k, g[k - 1])
      BY <2>3, <2>4, <3>1
    <3>. QED
      BY <3>2
  <2>. HIDE DEF Keeps
  <2>. QED
    BY <2>5, Zenon
<1>3. WithMembers(cs) = kept[n]
  BY Zenon DEF WithMembers
<1>. HIDE DEF kept
<1>4. kept[0] = <<>> /\ \A k \in 1..n : kept[k] = keep(k, kept[k - 1])
  <2>. HIDE DEF n
  <2>1. 0 \in 0..n /\ \A k \in 1..n : k \in 0..n /\ k # 0
    BY <1>0
  <2>. QED
    BY <1>2, <2>1
<1>. DEFINE From(k) == \A p \in DOMAIN kept[k] : \E j \in 1..k : kept[k][p] = cs[j]
            P == {k \in 0..n : kept[k] \in Clusterings /\ Len(kept[k]) <= k /\ From(k)}
<1>. HIDE DEF n
<1>5. 0 \in P
  <2>1. kept[0] \in Clusterings /\ Len(kept[0]) = 0 /\ DOMAIN kept[0] = {}
    BY <1>4, NoClusters
  <2>. QED
    BY <1>0, <2>1
<1>6. ASSUME NEW k \in 1..n, k - 1 \in P
      PROVE  k \in P
  <2>. DEFINE ks == kept[k - 1]
              m == Len(ks)
  <2>0. k \in Nat /\ k >= 1 /\ k <= n
    BY <1>0
  <2>1. ks \in Clusterings /\ m <= k - 1 /\ From(k - 1)
    BY <1>6
  <2>2. m \in Nat /\ DOMAIN ks = 1..m
    BY <2>1, LenProperties DEF Clusterings
  <2>3. kept[k] = keep(k, ks)
    BY <1>4
  <2>4. \A p \in 1..m : \E j \in 1..(k - 1) : ks[p] = cs[j]
    BY <2>1, <2>2
  <2>. HIDE DEF ks, m, From
  <2>5. CASE cs[k].members = {}
    <3>1. kept[k] = ks
      BY <2>3, <2>5
    <3>2. m <= k
      BY <2>0, <2>1, <2>2
    <3>3. \A p \in DOMAIN kept[k] : \E j \in 1..k : kept[k][p] = cs[j]
      <4>1. \A j \in 1..(k - 1) : j \in 1..k
        BY <2>0
      <4>. QED
        BY <2>2, <2>4, <3>1, <4>1
    <3>. QED
      BY <2>1, <3>1, <3>2, <3>3 DEF m, From
  <2>6. CASE cs[k].members # {}
    <3>1. kept[k] = Append(ks, cs[k])
      BY <2>3, <2>6
    <3>2. cs[k] \in ClusterRecord
      BY <1>0
    <3>3. \A p \in DOMAIN ks : Group(ks[p]) \cap Group(cs[k]) = {}
      <4>1. \A j \in 1..(k - 1) : j \in 1..n /\ j # k
        BY <1>0, <2>0
      <4>2. \A j \in 1..(k - 1) : Group(cs[j]) \cap Group(cs[k]) = {}
        BY <1>0, <4>1
      <4>. QED
        BY <2>2, <2>4, <4>2
    <3>4. /\ kept[k] \in Clusterings
          /\ Len(kept[k]) = m + 1
          /\ \A p \in 1..m : kept[k][p] = ks[p]
          /\ kept[k][m + 1] = cs[k]
      BY <2>1, <3>1, <3>2, <3>3, AppendCluster DEF m
    <3>5. DOMAIN kept[k] = 1..(m + 1)
      BY <3>4, LenProperties DEF Clusterings
    <3>6. m + 1 <= k
      BY <2>0, <2>1, <2>2
    <3>7. ASSUME NEW p \in DOMAIN kept[k]
          PROVE  \E j \in 1..k : kept[k][p] = cs[j]
      <4>1. CASE p = m + 1
        <5>1. k \in 1..k
          BY <2>0
        <5>. QED
          BY <3>4, <4>1, <5>1
      <4>2. CASE p # m + 1
        <5>1. p \in 1..m
          BY <2>2, <3>5, <4>2
        <5>2. PICK j \in 1..(k - 1) : ks[p] = cs[j]
          BY <2>4, <5>1
        <5>3. j \in 1..k
          BY <2>0
        <5>. QED
          BY <3>4, <5>1, <5>2, <5>3
      <4>. QED
        BY <4>1, <4>2
    <3>8. From(k)
      BY <3>7 DEF From
    <3>. QED
      BY <3>4, <3>6, <3>8
  <2>. QED
    BY <2>5, <2>6
<1>. HIDE DEF P
<1>7. 0..n \subseteq P
  BY <1>0, <1>5, <1>6, UpTo
<1>8. n \in P
  BY <1>0, <1>7
<1>. QED
  BY <1>3, <1>8 DEF P, n

\* Without clusters there is nothing to leave out.
LEMMA NothingFiltered == WithMembers(<<>>) = <<>>
<1>1. Len(WithMembers(<<>>)) <= 0 /\ WithMembers(<<>>) \in Clusterings
  BY NoClusters, FilteredApart
<1>2. Len(WithMembers(<<>>)) = 0 /\ WithMembers(<<>>) \in Seq(ClusterRecord)
  BY <1>1, LenProperties DEF Clusterings
<1>. QED
  BY <1>2, EmptySeq

-----------------------------------------------------------------------------
(* Steps of a mote.                                                        *)

\* What a mote does about its role: it stays in place, and unless it is told
\* its role, nobody becomes its gateway but the default one.
LEMMA ToldRole ==
    ASSUME NEW s, Fits(s), NEW target \in Mote
    PROVE  /\ Fits(SetLocalGateway(s, target))
           /\ SetLocalGateway(s, target).node_id = s.node_id
           /\ SetLocalGateway(s, target).currentGateway =
                 IF target = s.node_id THEN defaultGateway ELSE target
<1>0. s \in Globals
  BY DEF Fits
<1>. QED
  BY <1>0, SetLocalGatewayFits DEF Follows, SetLocalGateway, Globals

LEMMA LostConnection ==
    ASSUME NEW s, Fits(s)
    PROVE  /\ Fits(ToggleEmergencyOne(s))
           /\ ToggleEmergencyOne(s).node_id = s.node_id
           /\ ToggleEmergencyOne(s).currentGateway
                 \in {s.currentGateway, defaultGateway}
<1>0. s \in Globals
  BY DEF Fits
<1>. QED
  BY <1>0, ToggleEmergencyOneFits DEF Follows, ToggleEmergencyOne, Globals

\* What the neighbors process makes of a mote whose interval is over.
Expired(s) ==
    LET t == [s EXCEPT !.clusterExpired = TRUE] IN
    IF t.iAmGateway \/ t.iAmInCluster THEN ClusterLearningMode(t) ELSE t

LEMMA ExpiredRole ==
    ASSUME NEW s, Fits(s)
    PROVE  /\ Fits(Expired(s))
           /\ Expired(s).node_id = s.node_id
           /\ Expired(s).currentGateway = defaultGateway
<1>. DEFINE t == [s EXCEPT !.clusterExpired = TRUE]
<1>0. s \in Globals
  BY DEF Fits
<1>1. t \in Globals
  BY <1>0, FieldTypes, Zenon
<1>2. /\ t.iAmGateway = s.iAmGateway /\ t.iAmInCluster = s.iAmInCluster
      /\ t.currentGateway = s.currentGateway /\ t.node_id = s.node_id
      /\ t.txpower = s.txpower /\ t.emergencyTwo = s.emergencyTwo
      /\ t.hurried = s.hurried /\ t.running_counter = s.running_counter
  BY <1>0 DEF Globals
<1>3. Fits(t)
  BY <1>1, <1>2, SameRole, SameAlarm, Zenon DEF Fits
<1>. HIDE DEF t
<1>4. CASE t.iAmGateway \/ t.iAmInCluster
  <2>. DEFINE r == ClusterLearningMode(t)
  <2>1. Expired(s) = r
    BY <1>4 DEF Expired, t
  <2>2. Fits(r)
    BY <1>3, ClusterLearningModeFits DEF Follows
  <2>3. r.node_id = t.node_id /\ r.currentGateway = defaultGateway
    BY <1>1 DEF ClusterLearningMode, Globals
  <2>. HIDE DEF r
  <2>. QED
    BY <1>2, <2>1, <2>2, <2>3, Zenon
<1>5. CASE ~(t.iAmGateway \/ t.iAmInCluster)
  <2>1. Expired(s) = t
    BY <1>5 DEF Expired, t
  <2>2. t.currentGateway = defaultGateway
    BY <1>3, <1>5 DEF Fits, RoleFits
  <2>. QED
    BY <1>2, <1>3, <2>1, <2>2, Zenon
<1>. QED
  BY <1>4, <1>5

-----------------------------------------------------------------------------
(* The first invariant: types, roles that fit, and clusters that are apart *)
(* whatever the reports, however many commands are left over.              *)

RInv ==
    /\ reports \in [Cow -> (UNION {Reports[i] : i \in Cow}) \cup {NoReport}]
    /\ Reported(reports)
    /\ clusters \in Clusterings
    /\ Len(clusters) <= NUMBER_OF_COWS
    /\ refresh \in 0..CLUSTERS_REFRESH_INTERVAL
    /\ pending \subseteq [to : Mote, target : Mote]
    /\ motes \in [Mote -> Globals]
    /\ \A m \in Mote : Fits(motes[m])
    /\ lease \in [Mote -> 0..CLUSTER_INTERVAL + 2]

LEMMA InitRInv == Init => RInv
<1>. SUFFICES ASSUME Init PROVE RInv
  OBVIOUS
<1>1. reports \in [Cow -> (UNION {Reports[i] : i \in Cow}) \cup {NoReport}]
      /\ Reported(reports)
  <2>1. reports = [i \in Cow |-> NoReport]
    BY DEF Init
  <2>2. Reported(reports)
    BY <2>1 DEF Reported
  <2>. DEFINE A == UNION {Reports[i] : i \in Cow}
  <2>. HIDE DEF A
  <2>3. reports \in [Cow -> A \cup {NoReport}]
    BY <2>1
  <2>. QED
    BY <2>2, <2>3 DEF A
<1>2. clusters \in Clusterings /\ Len(clusters) <= NUMBER_OF_COWS
  <2>1. NUMBER_OF_COWS \in Nat
    BY RegisterAssumption, LenProperties DEF NUMBER_OF_COWS
  <2>. QED
    BY <2>1, NoClusters DEF Init
<1>3. refresh \in 0..CLUSTERS_REFRESH_INTERVAL
  BY IntervalAssumption DEF Init
<1>4. \A m \in Mote : motes[m] = Booted(m)
  BY Zenon DEF Init
<1>5. \A m \in Mote : Fits(motes[m])
  BY <1>4, BootedFits, Zenon
<1>6. motes \in [Mote -> Globals]
  <2>1. \A m \in Mote : Booted(m) \in Globals
    BY BootedFits DEF Fits
  <2>2. motes = [m \in Mote |-> Booted(m)]
    BY DEF Init
  <2>. QED
    BY <2>1, <2>2
<1>7. pending \subseteq [to : Mote, target : Mote]
  BY DEF Init
<1>8. lease \in [Mote -> 0..CLUSTER_INTERVAL + 2]
  BY IntervalAssumption DEF Init
<1>. QED
  BY <1>1, <1>2, <1>3, <1>5, <1>6, <1>7, <1>8 DEF RInv

\* What a round makes of the tables.
LEMMA RoundResult ==
    ASSUME RInv, NEW garbage \in [Cow -> Garbage]
    PROVE  LET candidates == ClustersOf(reports, garbage)
               formed == WithMembers(candidates)
           IN  /\ candidates \in Clusterings
               /\ Len(candidates) <= NUMBER_OF_COWS
               /\ formed \in Clusterings
               /\ Len(formed) <= NUMBER_OF_COWS
               /\ candidates = <<>> => formed = <<>>
<1>. DEFINE candidates == ClustersOf(reports, garbage)
            formed == WithMembers(candidates)
<1>1. candidates \in Clusterings /\ Len(candidates) <= NUMBER_OF_COWS
  BY FormedApart DEF RInv
<1>2. NUMBER_OF_COWS \in Nat
  BY RegisterAssumption, LenProperties DEF NUMBER_OF_COWS
<1>3. formed \in Clusterings /\ Len(formed) <= Len(candidates)
  BY <1>1, FilteredApart
<1>. HIDE DEF candidates
<1>4. candidates = <<>> => formed = <<>>
  BY NothingFiltered
<1>. HIDE DEF formed
<1>5. Len(candidates) \in Nat /\ Len(formed) \in Nat
  BY <1>1, <1>3, LenProperties DEF Clusterings
<1>6. Len(formed) <= NUMBER_OF_COWS
  BY <1>1, <1>2, <1>3, <1>5
<1>. QED
  BY <1>1, <1>3, <1>4, <1>6 DEF candidates, formed

\* The commands of a clustering name motes.
LEMMA CommandTypes ==
    ASSUME NEW cs \in Clusterings, NEW k \in DOMAIN cs
    PROVE  /\ CommandsOf(cs[k]) \subseteq [to : Mote, target : Mote]
           /\ \A p \in CommandsOf(cs[k]) :
                 p.target = cs[k].head /\ p.to \in Group(cs[k])
<1>1. cs[k] \in ClusterRecord
  <2>1. cs \in Seq(ClusterRecord) /\ k \in 1..Len(cs)
    BY LenProperties DEF Clusterings
  <2>. QED
    BY <2>1, ElementOfSeq
<1>. QED
  BY <1>1 DEF CommandsOf, ClusterRecord, Group

LEMMA ReportPreserves ==
    ASSUME RInv, NEW i \in Cow, Report(i)
    PROVE  RInv'
<1>1. PICK r \in Reports[i] : reports' = [reports EXCEPT ![i] = r]
  BY DEF Report
<1>2. r \in UNION {Reports[j] : j \in Cow}
  OBVIOUS
<1>3. /\ reports' \in [Cow -> (UNION {Reports[j] : j \in Cow}) \cup {NoReport}]
      /\ Reported(reports')
  BY <1>1, <1>2 DEF RInv, Reported
<1>4. UNCHANGED <<clusters, refresh, pending, motes, lease>>
  BY DEF Report
<1>. QED
  BY <1>3, <1>4 DEF RInv

LEMMA RoundPreserves ==
    ASSUME RInv, HandleClusters
    PROVE  RInv'
<1>. DEFINE candidates(g) == ClustersOf(reports, g)
            formed(g) == WithMembers(candidates(g))
<1>1. PICK g \in [Cow -> Garbage] :
          /\ clusters' = IF candidates(g) = <<>> THEN clusters ELSE formed(g)
          /\ refresh' = NextRound(formed(g))
          /\ pending' = pending \cup UNION {CommandsOf(formed(g)[k]) :
                                                k \in DOMAIN formed(g)}
  BY DEF HandleClusters
<1>2. formed(g) \in Clusterings /\ Len(formed(g)) <= NUMBER_OF_COWS
  BY RoundResult
<1>. HIDE DEF candidates, formed
<1>3. clusters' \in Clusterings /\ Len(clusters') <= NUMBER_OF_COWS
  BY <1>1, <1>2 DEF RInv
<1>4. refresh' \in 0..CLUSTERS_REFRESH_INTERVAL
  BY <1>1, IntervalAssumption DEF NextRound
<1>5. pending' \subseteq [to : Mote, target : Mote]
  <2>1. \A k \in DOMAIN formed(g) :
            CommandsOf(formed(g)[k]) \subseteq [to : Mote, target : Mote]
    BY <1>2, CommandTypes, Zenon
  <2>. QED
    BY <1>1, <2>1 DEF RInv
<1>6. UNCHANGED <<reports, motes, lease>>
  BY DEF HandleClusters
<1>. QED
  BY <1>3, <1>4, <1>5, <1>6 DEF RInv

\* A step that changes one mote and one lease.
LEMMA MotePreserves ==
    ASSUME RInv, NEW m \in Mote, NEW s, Fits(s),
           motes' = [motes EXCEPT ![m] = s],
           lease' \in [Mote -> 0..CLUSTER_INTERVAL + 2],
           UNCHANGED <<reports, clusters, refresh, pending>>
    PROVE  RInv'
<1>1. s \in Globals
  BY DEF Fits
<1>2. motes' \in [Mote -> Globals]
  BY <1>1 DEF RInv
<1>3. \A k \in Mote : Fits(motes'[k])
  <2>1. \A k \in Mote : motes'[k] = IF k = m THEN s ELSE motes[k]
    BY DEF RInv
  <2>. QED
    BY <2>1 DEF RInv
<1>. QED
  BY <1>2, <1>3 DEF RInv

LEMMA NextPreservesRInv == RInv /\ [Next]_vars => RInv'
<1>. SUFFICES ASSUME RInv, [Next]_vars PROVE RInv'
  OBVIOUS
<1>0. /\ CLUSTER_INTERVAL \in Nat
      /\ lease \in [Mote -> 0..CLUSTER_INTERVAL + 2]
      /\ \A m \in Mote : Fits(motes[m])
  BY IntervalAssumption DEF RInv
<1>1. ASSUME NEW p \in pending, Deliver(p)
      PROVE  RInv'
  <2>1. p.to \in Mote /\ p.target \in Mote
    BY DEF RInv
  <2>2. motes' = [motes EXCEPT ![p.to] = SetLocalGateway(motes[p.to], p.target)]
    BY <1>1 DEF Deliver
  <2>3. Fits(SetLocalGateway(motes[p.to], p.target))
    <3>. DEFINE s == motes[p.to]
                t == p.target
    <3>1. Fits(s) /\ t \in Mote
      BY <1>0, <2>1
    <3>. HIDE DEF s, t
    <3>2. Fits(SetLocalGateway(s, t))
      BY <3>1, ToldRole
    <3>. QED
      BY <3>2 DEF s, t
  <2>4. lease' \in [Mote -> 0..CLUSTER_INTERVAL + 2]
    <3>1. lease' = [lease EXCEPT ![p.to] = CLUSTER_INTERVAL + 2]
      BY <1>1 DEF Deliver
    <3>2. CLUSTER_INTERVAL + 2 \in 0..CLUSTER_INTERVAL + 2
      BY <1>0
    <3>. QED
      BY <1>0, <3>1, <3>2
  <2>5. UNCHANGED <<reports, clusters, refresh, pending>>
    BY <1>1 DEF Deliver
  <2>. QED
    BY <2>1, <2>2, <2>3, <2>4, <2>5, MotePreserves
<1>2. ASSUME NEW m \in Mote, Expire(m)
      PROVE  RInv'
  <2>1. motes' = [motes EXCEPT ![m] = Expired(motes[m])]
    BY <1>2, Zenon DEF Expire, Expired
  <2>2. Fits(Expired(motes[m]))
    BY <1>0, ExpiredRole
  <2>3. lease' \in [Mote -> 0..CLUSTER_INTERVAL + 2]
    BY <1>0, <1>2 DEF Expire
  <2>4. UNCHANGED <<reports, clusters, refresh, pending>>
    BY <1>2 DEF Expire
  <2>. QED
    BY <2>1, <2>2, <2>3, <2>4, MotePreserves
<1>3. ASSUME NEW m \in Mote, LoseConnection(m)
      PROVE  RInv'
  <2>1. motes' = [motes EXCEPT ![m] = ToggleEmergencyOne(motes[m])]
    BY <1>3 DEF LoseConnection
  <2>2. Fits(ToggleEmergencyOne(motes[m]))
    BY <1>0, LostConnection
  <2>3. UNCHANGED <<reports, clusters, refresh, pending, lease>>
    BY <1>3 DEF LoseConnection
  <2>. QED
    BY <1>0, <2>1, <2>2, <2>3, MotePreserves
<1>4. ASSUME NEW p \in pending, Forget(p)
      PROVE  RInv'
  BY <1>4 DEF Forget, RInv
<1>5. CASE Tick
  <2>1. refresh' \in 0..CLUSTERS_REFRESH_INTERVAL
    BY <1>5, IntervalAssumption DEF Tick, RInv
  <2>2. lease' \in [Mote -> 0..CLUSTER_INTERVAL + 2]
    BY <1>0, <1>5 DEF Tick
  <2>3. UNCHANGED <<reports, clusters, pending, motes>>
    BY <1>5 DEF Tick
  <2>. QED
    BY <2>1, <2>2, <2>3 DEF RInv
<1>6. CASE UNCHANGED vars
  BY <1>6 DEF vars, RInv
<1>. QED
  BY <1>1, <1>2, <1>3, <1>4, <1>5, <1>6, ReportPreserves, RoundPreserves DEF Next

-----------------------------------------------------------------------------
(* The second invariant, for rounds whose commands are done within half a  *)
(* minute: what is under way, and every role that is held, is of the       *)
(* clusters that were formed last.                                         *)

\* The clusters cs send m through target, or make m a head when it is target.
Assigns(cs, m, target) ==
    \E k \in DOMAIN cs : target = cs[k].head /\ m \in Group(cs[k])

FInv ==
    /\ \A m \in Mote : motes[m].node_id = m
    /\ \A p \in pending : Assigns(clusters, p.to, p.target)
    /\ pending # {} => refresh = CLUSTERS_REFRESH_INTERVAL
    /\ \A m \in Mote : lease[m] <= refresh
    /\ \A m \in Mote : LET head == motes[m].currentGateway IN
           head # defaultGateway => lease[m] > 0 /\ Assigns(clusters, m, head)

LEMMA InitFInv == Init => FInv
<1>. SUFFICES ASSUME Init PROVE FInv
  OBVIOUS
<1>1. \A m \in Mote : motes[m] = Booted(m) /\ lease[m] = 0
  BY Zenon DEF Init
<1>2. \A m \in Mote : /\ Booted(m).node_id = m
                      /\ Booted(m).currentGateway = defaultGateway
  BY DEF Booted
<1>3. refresh \in Nat /\ pending = {}
  BY IntervalAssumption DEF Init
<1>. QED
  BY <1>1, <1>2, <1>3 DEF FInv

LEMMA NextPreservesFInv ==
    ASSUME RInv, FInv, [Next]_vars, LeavesBeforeNextRound, RoundDone'
    PROVE  FInv'
<1>0. /\ CLUSTER_INTERVAL \in Nat /\ CLUSTERS_REFRESH_INTERVAL \in Nat \ {0}
      /\ CLUSTER_INTERVAL + 2 <= CLUSTERS_REFRESH_INTERVAL
      /\ lease \in [Mote -> 0..CLUSTER_INTERVAL + 2]
      /\ refresh \in 0..CLUSTERS_REFRESH_INTERVAL
      /\ motes \in [Mote -> Globals]
      /\ \A m \in Mote : Fits(motes[m])
  BY IntervalAssumption DEF RInv, LeavesBeforeNextRound
<1>1. ASSUME NEW i \in Cow, Report(i)
      PROVE  FInv'
  BY <1>1 DEF Report, FInv, Assigns
<1>2. CASE HandleClusters
  <2>. DEFINE candidates(g) == ClustersOf(reports, g)
              formed(g) == WithMembers(candidates(g))
  <2>1. PICK g \in [Cow -> Garbage] :
            /\ clusters' = IF candidates(g) = <<>> THEN clusters ELSE formed(g)
            /\ refresh' = NextRound(formed(g))
            /\ pending' = pending \cup UNION {CommandsOf(formed(g)[k]) :
                                                  k \in DOMAIN formed(g)}
    BY <1>2 DEF HandleClusters
  <2>2. formed(g) \in Clusterings /\ (candidates(g) = <<>> => formed(g) = <<>>)
    BY RoundResult
  <2>. HIDE DEF candidates, formed
  <2>3. refresh = 0 /\ UNCHANGED <<motes, lease>>
    BY <1>2 DEF HandleClusters
  \* No command of the round before is left, and nobody holds a role.
  <2>4. pending = {} /\ \A m \in Mote : lease[m] = 0
    <3>1. pending = {}
      BY <1>0, <2>3 DEF FInv
    <3>2. \A m \in Mote : lease[m] \in Nat /\ lease[m] <= 0
      BY <1>0, <2>3 DEF FInv
    <3>. QED
      BY <3>1, <3>2
  <2>5. \A m \in Mote : motes[m].currentGateway = defaultGateway
    BY <2>4 DEF FInv
  <2>6. refresh' \in Nat
    BY <2>1, IntervalAssumption DEF NextRound
  <2>7. formed(g) = <<>> => pending' = {}
    BY <2>1, <2>4
  <2>8. formed(g) # <<>> => /\ refresh' = CLUSTERS_REFRESH_INTERVAL
                            /\ clusters' = formed(g)
    BY <2>1, <2>2 DEF NextRound
  <2>9. \A p \in pending' : Assigns(clusters', p.to, p.target)
    <3>. SUFFICES ASSUME NEW p \in pending' PROVE Assigns(clusters', p.to, p.target)
      OBVIOUS
    <3>1. clusters' = formed(g)
      BY <2>7, <2>8
    <3>2. PICK k \in DOMAIN formed(g) : p \in CommandsOf(formed(g)[k])
      BY <2>1, <2>4
    <3>3. p.target = formed(g)[k].head /\ p.to \in Group(formed(g)[k])
      BY <2>2, <3>2, CommandTypes
    <3>. QED
      BY <3>1, <3>3 DEF Assigns
  <2>10. pending' # {} => refresh' = CLUSTERS_REFRESH_INTERVAL
    BY <2>7, <2>8
  <2>. QED
    BY <2>3, <2>4, <2>5, <2>6, <2>9, <2>10 DEF FInv
<1>3. ASSUME NEW p \in pending, Deliver(p)
      PROVE  FInv'
  <2>. DEFINE s == motes[p.to]
              r == SetLocalGateway(s, p.target)
  <2>1. p.to \in Mote /\ p.target \in Mote
    BY DEF RInv
  <2>2. Fits(s) /\ s.node_id = p.to
    BY <1>0, <2>1 DEF FInv
  <2>3. /\ r.node_id = p.to
        /\ r.currentGateway = IF p.target = p.to THEN defaultGateway
                              ELSE p.target
    <3>. HIDE DEF s
    <3>. QED
      BY <2>1, <2>2, ToldRole
  <2>4. /\ motes' = [motes EXCEPT ![p.to] = r]
        /\ lease' = [lease EXCEPT ![p.to] = CLUSTER_INTERVAL + 2]
        /\ UNCHANGED <<clusters, refresh, pending>>
    BY <1>3 DEF Deliver
  <2>. HIDE DEF r
  <2>5. /\ motes'[p.to] = r /\ lease'[p.to] = CLUSTER_INTERVAL + 2
        /\ \A m \in Mote : m # p.to => motes'[m] = motes[m] /\ lease'[m] = lease[m]
    BY <1>0, <2>1, <2>4
  <2>6. refresh = CLUSTERS_REFRESH_INTERVAL
    BY DEF FInv
  <2>7. Assigns(clusters, p.to, p.target)
    BY DEF FInv
  <2>8. \A m \in Mote : motes'[m].node_id = m
    BY <2>3, <2>5 DEF FInv
  <2>9. \A m \in Mote : lease'[m] <= refresh'
    BY <1>0, <2>4, <2>5, <2>6 DEF FInv
  <2>10. ASSUME NEW m \in Mote, motes'[m].currentGateway # defaultGateway
         PROVE  lease'[m] > 0 /\ Assigns(clusters', m, motes'[m].currentGateway)
    <3>1. CASE m = p.to
      <4>1. motes'[m].currentGateway = p.target
        BY <2>3, <2>5, <2>10, <3>1
      <4>2. Assigns(clusters', m, p.target)
        BY <2>4, <2>7, <3>1 DEF Assigns
      <4>3. lease'[m] > 0
        BY <1>0, <2>5, <3>1
      <4>. QED
        BY <4>1, <4>2, <4>3
    <3>2. CASE m # p.to
      <4>1. motes'[m] = motes[m] /\ lease'[m] = lease[m]
        BY <2>5, <3>2
      <4>2. lease[m] > 0 /\ Assigns(clusters, m, motes[m].currentGateway)
        BY <2>10, <4>1 DEF FInv
      <4>. QED
        BY <2>4, <4>1, <4>2 DEF Assigns
    <3>. QED
      BY <3>1, <3>2
  <2>. QED
    BY <2>4, <2>8, <2>9, <2>10 DEF FInv, Assigns
<1>4. ASSUME NEW p \in pending, Forget(p)
      PROVE  FInv'
  <2>1. pending' \subseteq pending
    BY <1>4 DEF Forget
  <2>2. UNCHANGED <<clusters, refresh, motes, lease>>
    BY <1>4 DEF Forget
  <2>. QED
    BY <2>1, <2>2 DEF FInv, Assigns
<1>5. ASSUME NEW m \in Mote, NEW s, NEW l,
             motes' = [motes EXCEPT ![m] = s],
             lease' = [lease EXCEPT ![m] = l],
             UNCHANGED <<clusters, refresh, pending>>,
             s.node_id = m,
             s.currentGateway = defaultGateway
                 \/ (s.currentGateway = motes[m].currentGateway /\ l = lease[m]),
             l = 0 \/ l = lease[m]
      PROVE  FInv'
  <2>1. /\ motes'[m] = s /\ lease'[m] = l
        /\ \A k \in Mote : k # m => motes'[k] = motes[k] /\ lease'[k] = lease[k]
    BY <1>0, <1>5
  <2>2. \A k \in Mote : motes'[k].node_id = k
    BY <1>5, <2>1 DEF FInv
  <2>3. \A k \in Mote : lease'[k] <= refresh'
    BY <1>0, <1>5, <2>1 DEF FInv
  <2>4. ASSUME NEW k \in Mote, motes'[k].currentGateway # defaultGateway
        PROVE  lease'[k] > 0 /\ Assigns(clusters', k, motes'[k].currentGateway)
    <3>1. motes'[k].currentGateway = motes[k].currentGateway /\ lease'[k] = lease[k]
      BY <1>5, <2>1, <2>4
    <3>2. lease[k] > 0 /\ Assigns(clusters, k, motes[k].currentGateway)
      BY <2>4, <3>1 DEF FInv
    <3>. QED
      BY <1>5, <3>1, <3>2 DEF Assigns
  <2>. QED
    BY <1>5, <2>2, <2>3, <2>4 DEF FInv, Assigns
<1>6. ASSUME NEW m \in Mote, Expire(m)
      PROVE  FInv'
  <2>. DEFINE s == Expired(motes[m])
  <2>1. motes' = [motes EXCEPT ![m] = s]
    BY <1>6, Zenon DEF Expire, Expired
  <2>2. s.node_id = m /\ s.currentGateway = defaultGateway
    BY <1>0, ExpiredRole DEF FInv
  <2>3. lease' = [lease EXCEPT ![m] = 0]
    BY <1>6 DEF Expire
  <2>4. UNCHANGED <<clusters, refresh, pending>>
    BY <1>6 DEF Expire
  <2>. HIDE DEF s
  <2>. QED
    BY <1>5, <2>1, <2>2, <2>3, <2>4
<1>7. ASSUME NEW m \in Mote, LoseConnection(m)
      PROVE  FInv'
  <2>. DEFINE s == ToggleEmergencyOne(motes[m])
  <2>1. motes' = [motes EXCEPT ![m] = s]
    BY <1>7 DEF LoseConnection
  <2>2. s.node_id = m
        /\ s.currentGateway \in {motes[m].currentGateway, defaultGateway}
    BY <1>0, LostConnection DEF FInv
  <2>3. lease' = [lease EXCEPT ![m] = lease[m]]
    BY <1>0, <1>7 DEF LoseConnection
  <2>4. UNCHANGED <<clusters, refresh, pending>>
    BY <1>7 DEF LoseConnection
  <2>. HIDE DEF s
  <2>. QED
    BY <1>5, <2>1, <2>2, <2>3, <2>4
<1>8. CASE Tick
  <2>0. refresh' # CLUSTERS_REFRESH_INTERVAL
    BY <1>0, <1>8 DEF Tick
  <2>1. pending = {}
    BY <1>8, <2>0 DEF Tick, RoundDone
  <2>2. refresh > 0 /\ refresh' = refresh - 1 /\ UNCHANGED <<clusters, pending, motes>>
    BY <1>8 DEF Tick
  <2>3. \A m \in Mote : lease[m] # 1
                        /\ lease'[m] = IF lease[m] = 0 THEN 0 ELSE lease[m] - 1
    BY <1>8 DEF Tick
  <2>4. \A m \in Mote : lease[m] \in Nat /\ lease[m] <= refresh
    BY <1>0 DEF FInv
  <2>5. \A m \in Mote : /\ lease'[m] <= refresh'
                        /\ lease[m] > 0 => lease'[m] > 0
    BY <1>0, <2>2, <2>3, <2>4
  <2>. QED
    BY <2>1, <2>2, <2>5 DEF FInv, Assigns
<1>9. CASE UNCHANGED vars
  BY <1>9 DEF vars, FInv, Assigns
<1>. QED
  BY <1>1, <1>2, <1>3, <1>4, <1>6, <1>7, <1>8, <1>9 DEF Next

-----------------------------------------------------------------------------
(* The theorems.                                                           *)

\* Reports, clusters, commands and roles keep their types, and clusters stay
\* apart, for every herd and whatever it reports.
THEOREM RoutingInvariance == Spec => []RInv
BY InitRInv, NextPreservesRInv, PTL DEF Spec

\* Heads, members and gateways are motes, there are never more clusters than
\* the array has room for (gateway.c:412), and no timer leaves its range.
THEOREM RoutingTypeCorrect == Spec => []TypeOK
<1>1. RInv => TypeOK
  <2>. SUFFICES ASSUME RInv PROVE TypeOK
    OBVIOUS
  <2>1. \A k \in DOMAIN clusters : clusters[k] \in ClusterRecord
    <3>1. clusters \in Seq(ClusterRecord) /\ DOMAIN clusters = 1..Len(clusters)
      BY LenProperties DEF RInv, Clusterings
    <3>. QED
      BY <3>1, ElementOfSeq
  <2>. QED
    BY <2>1 DEF RInv, TypeOK, Reported, ClusterRecord
<1>. QED
  BY <1>1, RoutingInvariance, PTL

\* The greedy choice of heads and members (gateway.c:369-404) puts no mote into
\* two clusters, and the filter for members (gateway.c:408-414) keeps it so.
THEOREM ClustersDisjointHolds == Spec => []ClustersDisjoint
<1>1. RInv => ClustersDisjoint
  BY DEF RInv, Clusterings, Apart, Group, ClustersDisjoint
<1>. QED
  BY <1>1, RoutingInvariance, PTL

\* In every behaviour in which the commands of each round are done before half
\* a minute is over, the mote that another one sends through sends to the default
\* gateway itself (krava.c:81-82), whatever is lost, repeated or late within the
\* round.  The hypothesis is one about the behaviour, not about the code, which
\* allows others (gateway.c:684).
THEOREM LocalGatewayForwardsHolds ==
    ASSUME LeavesBeforeNextRound
    PROVE  Spec /\ []RoundDone => []LocalGatewayForwards
<1>1. RInv /\ FInv => LocalGatewayForwards
  <2>. SUFFICES ASSUME RInv, FInv, NEW m \in Mote, NEW head,
                       head = motes[m].currentGateway,
                       head # defaultGateway,
                       motes[head].currentGateway # defaultGateway
                PROVE  FALSE
    BY DEF LocalGatewayForwards
  <2>1. clusters \in Clusterings
    BY DEF RInv
  <2>2. PICK k \in DOMAIN clusters :
            head = clusters[k].head /\ m \in Group(clusters[k])
    BY DEF FInv, Assigns
  <2>3. head \in Mote
    <3>1. clusters \in Seq(ClusterRecord) /\ k \in 1..Len(clusters)
      BY <2>1, LenProperties DEF Clusterings
    <3>2. clusters[k] \in ClusterRecord
      BY <3>1, ElementOfSeq
    <3>. QED
      BY <2>2, <3>2 DEF ClusterRecord
  <2>. DEFINE other == motes[head].currentGateway
  <2>4. PICK j \in DOMAIN clusters :
            other = clusters[j].head /\ head \in Group(clusters[j])
    BY <2>3 DEF FInv, Assigns
  <2>5. head \in Group(clusters[k])
    BY <2>2 DEF Group
  <2>6. j = k
    BY <2>1, <2>4, <2>5 DEF Clusterings, Apart
  <2>7. other = head
    BY <2>2, <2>4, <2>6
  \* A mote never sends through itself.
  <2>8. other # head
    BY <2>3 DEF RInv, FInv, Fits, RoleFits
  <2>. QED
    BY <2>7, <2>8
<1>2. Spec /\ []RoundDone => []FInv
  <2>1. RInv /\ FInv /\ RoundDone' /\ [Next]_vars => FInv'
    BY NextPreservesFInv
  <2>. QED
    BY <2>1, InitFInv, RoutingInvariance, PTL DEF Spec
<1>. QED
  BY <1>1, <1>2, RoutingInvariance, PTL
=============================================================================
