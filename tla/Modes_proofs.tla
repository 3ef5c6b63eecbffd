---------------------------- MODULE Modes_proofs ----------------------------
(***************************************************************************)
(* What the proofs about motes share: induction up to a bound, and what    *)
(* the operators of Modes preserve, for every set of motes, every          *)
(* threshold of running and every size of the sample buffers.              *)
(***************************************************************************)
EXTENDS Modes, WellFoundedInduction, TLAPS

-----------------------------------------------------------------------------
(* Recursion.  The loops of handle_clusters, the shifts of a word and its  *)
(* bytes are recursive functions; that there is a function that satisfies  *)
(* such a recursion, and what it computes, is proved by the least          *)
(* counterexample.                                                         *)

\* What holds of 0, and of every number up to N if it holds of the one before,
\* holds up to N.
LEMMA UpTo ==
    ASSUME NEW N \in Nat, NEW P, 0 \in P,
           \A i \in 1..N : i - 1 \in P => i \in P
    PROVE  0..N \subseteq P
<1>. DEFINE R == OpToRel(<, Nat)
            missing == (0..N) \ P
<1>1. SUFFICES ASSUME missing # {} PROVE FALSE
  OBVIOUS
<1>2. PICK n \in missing : \A m \in missing : <<m, n>> \notin R
  <2>1. IsWellFoundedOn(R, Nat)
    BY NatLessThanWellFounded
  <2>2. missing \subseteq Nat
    OBVIOUS
  <2>. HIDE DEF R, missing
  <2>. QED
    BY <1>1, <2>1, <2>2, WFMin
<1>3. n \in 0..N /\ n \notin P /\ n # 0
  OBVIOUS
<1>4. n \in 1..N /\ n - 1 \in 0..N
  BY <1>3
<1>5. n - 1 \in missing
  BY <1>3, <1>4
<1>6. missing \subseteq Nat /\ n \in Nat
  OBVIOUS
<1>. HIDE DEF missing
<1>7. \A m \in missing : ~(m < n)
  BY <1>2, <1>6 DEF OpToRel
<1>. QED
  BY <1>4, <1>5, <1>7

\* g is start and then, for each number up to N, a step further.
Recurs(g, N, start, step) ==
    g[0] = start /\ \A i \in 1..N : g[i] = step[i][g[i - 1]]

\* A step for each number up to N is a recursion that some function satisfies.
LEMMA RecursionExists ==
    ASSUME NEW N \in Nat, NEW S, NEW start \in S,
           NEW step \in [1..N -> [S -> S]]
    PROVE  \E g \in [0..N -> S] : Recurs(g, N, start, step)
<1>. DEFINE Follow(n, g) == /\ g[0] = start
                            /\ \A i \in 1..n : g[i] = step[i][g[i - 1]]
            P == {n \in 0..N : \E g \in [0..n -> S] : Follow(n, g)}
<1>1. 0 \in P
  <2>. DEFINE g == [i \in 0..0 |-> start]
  <2>1. g \in [0..0 -> S] /\ Follow(0, g)
    OBVIOUS
  <2>2. 0 \in 0..N
    OBVIOUS
  <2>. HIDE DEF Follow, g
  <2>. QED
    BY <2>1, <2>2
<1>2. ASSUME NEW n \in 1..N, n - 1 \in P
      PROVE  n \in P
  <2>1. PICK g \in [0..(n - 1) -> S] : Follow(n - 1, g)
    BY <1>2
  <2>. DEFINE h == [i \in 0..n |-> IF i = n THEN step[n][g[n - 1]] ELSE g[i]]
  <2>2. n \in Nat /\ n >= 1 /\ n - 1 \in 0..(n - 1)
    OBVIOUS
  <2>3. step[n][g[n - 1]] \in S
    BY <2>2
  <2>4. \A i \in 0..n : i # n => i \in 0..(n - 1)
    BY <2>2
  <2>5. h \in [0..n -> S]
    BY <2>3, <2>4
  <2>6. h[n] = step[n][g[n - 1]] /\ \A i \in 0..(n - 1) : h[i] = g[i]
    BY <2>2
  <2>. HIDE DEF h
  <2>7. h[0] = start
    BY <2>1, <2>2, <2>6
  <2>8. ASSUME NEW i \in 1..n
        PROVE  h[i] = step[i][h[i - 1]]
    <3>1. h[i - 1] = g[i - 1]
      BY <2>2, <2>6
    <3>2. CASE i = n
      BY <2>6, <3>1, <3>2
    <3>3. CASE i # n
      <4>1. i \in 1..(n - 1) /\ i \in 0..(n - 1)
        BY <2>2, <3>3
      <4>2. g[i] = step[i][g[i - 1]]
        BY <2>1, <4>1
      <4>. QED
        BY <2>6, <3>1, <4>1, <4>2
    <3>. QED
      BY <3>2, <3>3
  <2>9. Follow(n, h)
    BY <2>7, <2>8
  <2>. HIDE DEF Follow
  <2>. QED
    BY <2>2, <2>5, <2>9
<1>. HIDE DEF P
<1>3. 0..N \subseteq P
  BY <1>1, <1>2, UpTo
<1>4. N \in P
  BY <1>3
<1>. QED
  BY <1>4 DEF P, Recurs

-----------------------------------------------------------------------------
(* Globals that fit together.                                              *)

\* Role, gateway and power of a mote belong together.
RoleFits(s) ==
    /\ ~(s.iAmGateway /\ s.iAmInCluster)
    /\ s.iAmInCluster <=> s.currentGateway # defaultGateway
    /\ s.currentGateway # s.node_id
    /\ ~s.iAmInCluster => s.txpower = CC2420_TXPOWER_MAX

\* A mote with an alarm of its own hurries, and its cow runs.
AlarmFits(s) ==
    s.emergencyTwo = 1 => s.hurried /\ s.running_counter >= RUNNING_MAX

Fits(s) == s \in Globals /\ RoleFits(s) /\ AlarmFits(s)

\* r is what some function makes of s; no acknowledgement is invented.
Follows(s, r) == Fits(r) /\ (r.ackCounter = s.ackCounter \/ r.ackCounter = 0)

-----------------------------------------------------------------------------
(* Records.                                                                *)

LEMMA FieldTypes ==
    ASSUME NEW s \in Globals
    PROVE  /\ \A v \in BOOLEAN : [s EXCEPT !.iAmGateway = v] \in Globals
           /\ \A v \in BOOLEAN : [s EXCEPT !.iAmInCluster = v] \in Globals
           /\ \A v \in BOOLEAN : [s EXCEPT !.hurried = v] \in Globals
           /\ \A v \in BOOLEAN : [s EXCEPT !.odd = v] \in Globals
           /\ \A v \in BOOLEAN : [s EXCEPT !.clusterExpired = v] \in Globals
           /\ \A v \in 0..2 : [s EXCEPT !.emergencyOne = v] \in Globals
           /\ \A v \in 0..2 : [s EXCEPT !.emergencyTwo = v] \in Globals
           /\ \A v \in Mote \cup {0} : [s EXCEPT !.emergencyTarget = v] \in Globals
           /\ \A v \in Mote \cup {0} : [s EXCEPT !.command_target = v] \in Globals
           /\ \A v \in Mote \cup {defaultGateway} : [s EXCEPT !.currentGateway = v] \in Globals
           /\ \A v \in {MemberPower, CC2420_TXPOWER_MAX} : [s EXCEPT !.txpower = v] \in Globals
           /\ \A v \in 0..RUNNING_CAP : [s EXCEPT !.running_counter = v] \in Globals
           /\ \A v \in SenseIntervals : [s EXCEPT !.neighbor_sense_interval = v] \in Globals
           /\ \A v \in 0..(EMERGENCY_DATA_MAX - 1) : [s EXCEPT !.eTwoRSSI = v] \in Globals
           /\ \A v \in 0..(EMERGENCY_DATA_MAX - 1) : [s EXCEPT !.eTwoAcc = v] \in Globals
           /\ \A v \in 0..255 : [s EXCEPT !.ackCounter = v] \in Globals
           /\ \A v \in Mote : [s EXCEPT !.mote_id = v] \in Globals
<1>1. \A v \in BOOLEAN : [s EXCEPT !.iAmGateway = v] \in Globals
  BY DEF Globals
<1>2. \A v \in BOOLEAN : [s EXCEPT !.iAmInCluster = v] \in Globals
  BY DEF Globals
<1>3. \A v \in BOOLEAN : [s EXCEPT !.hurried = v] \in Globals
  BY DEF Globals
<1>4. \A v \in BOOLEAN : [s EXCEPT !.odd = v] \in Globals
  BY DEF Globals
<1>5. \A v \in BOOLEAN : [s EXCEPT !.clusterExpired = v] \in Globals
  BY DEF Globals
<1>6. \A v \in 0..2 : [s EXCEPT !.emergencyOne = v] \in Globals
  BY DEF Globals
<1>7. \A v \in 0..2 : [s EXCEPT !.emergencyTwo = v] \in Globals
  BY DEF Globals
<1>8. \A v \in Mote \cup {0} : [s EXCEPT !.emergencyTarget = v] \in Globals
  BY DEF Globals
<1>9. \A v \in Mote \cup {0} : [s EXCEPT !.command_target = v] \in Globals
  BY DEF Globals
<1>10. \A v \in Mote \cup {defaultGateway} : [s EXCEPT !.currentGateway = v] \in Globals
  BY DEF Globals
<1>11. \A v \in {MemberPower, CC2420_TXPOWER_MAX} : [s EXCEPT !.txpower = v] \in Globals
  BY DEF Globals
<1>12. \A v \in 0..RUNNING_CAP : [s EXCEPT !.running_counter = v] \in Globals
  BY DEF Globals
<1>13. \A v \in SenseIntervals : [s EXCEPT !.neighbor_sense_interval = v] \in Globals
  BY DEF Globals
<1>14. \A v \in 0..(EMERGENCY_DATA_MAX - 1) : [s EXCEPT !.eTwoRSSI = v] \in Globals
  BY DEF Globals
<1>15. \A v \in 0..(EMERGENCY_DATA_MAX - 1) : [s EXCEPT !.eTwoAcc = v] \in Globals
  BY DEF Globals
<1>16. \A v \in 0..255 : [s EXCEPT !.ackCounter = v] \in Globals
  BY DEF Globals
<1>17. \A v \in Mote : [s EXCEPT !.mote_id = v] \in Globals
  BY DEF Globals
<1>. QED
  BY <1>1, <1>2, <1>3, <1>4, <1>5, <1>6, <1>7, <1>8, <1>9,
     <1>10, <1>11, <1>12, <1>13, <1>14, <1>15, <1>16, <1>17

LEMMA RoleTypes ==
    ASSUME NEW s \in Globals, NEW a \in BOOLEAN, NEW b \in BOOLEAN,
           NEW g \in Mote \cup {defaultGateway},
           NEW p \in {MemberPower, CC2420_TXPOWER_MAX}
    PROVE  [[[[s EXCEPT !.iAmGateway = a] EXCEPT !.iAmInCluster = b]
               EXCEPT !.currentGateway = g] EXCEPT !.txpower = p] \in Globals
<1>. DEFINE s1 == [s EXCEPT !.iAmGateway = a]
            s2 == [s1 EXCEPT !.iAmInCluster = b]
            s3 == [s2 EXCEPT !.currentGateway = g]
<1>1. s1 \in Globals
  BY FieldTypes
<1>2. s2 \in Globals
  <2>. HIDE DEF s1
  <2>. QED
    BY <1>1, FieldTypes DEF s2
<1>3. s3 \in Globals
  <2>. HIDE DEF s2
  <2>. QED
    BY <1>2, FieldTypes DEF s3
<1>. HIDE DEF s3
<1>4. [s3 EXCEPT !.txpower = p] \in Globals
  BY <1>3, FieldTypes
<1>. QED
  BY <1>4 DEF s3

\* What none of these fields tells is not disturbed by a change of another one.
LEMMA SameRole ==
    ASSUME NEW s, NEW r, Fits(s), r \in Globals,
           r.iAmGateway = s.iAmGateway, r.iAmInCluster = s.iAmInCluster,
           r.currentGateway = s.currentGateway, r.node_id = s.node_id,
           r.txpower = s.txpower
    PROVE  RoleFits(r)
BY DEF Fits, RoleFits

LEMMA SameAlarm ==
    ASSUME NEW s, NEW r, Fits(s), r \in Globals,
           r.emergencyTwo = s.emergencyTwo, r.hurried = s.hurried,
           r.running_counter = s.running_counter
    PROVE  AlarmFits(r)
BY DEF Fits, AlarmFits

LEMMA FieldRanges ==
    ASSUME NEW s, s \in Globals
    PROVE  /\ {s.node_id, s.mote_id} \subseteq Mote
           /\ {s.iAmGateway, s.iAmInCluster, s.odd, s.hurried, s.clusterExpired}
                  \subseteq BOOLEAN
           /\ s.emergencyOne \in 0..2 /\ s.emergencyTwo \in 0..2
           /\ s.ackCounter \in 0..255
           /\ s.currentGateway \in Mote \cup {defaultGateway}
           /\ s.running_counter \in 0..RUNNING_CAP
           /\ {s.eTwoRSSI, s.eTwoAcc} \subseteq 0..(EMERGENCY_DATA_MAX - 1)
BY DEF Globals

-----------------------------------------------------------------------------
(* The form of a result.                                                   *)

LEMMA Results ==
    ASSUME NEW s, NEW kind, NEW cmd
    PROVE  /\ Quietly(s).mote = s /\ Quietly(s).out = <<>>
           /\ Sending(s, kind, cmd).mote = s
           /\ SendMessage(s).mote = s
           /\ SendCommand(s, cmd).mote = [s EXCEPT !.command_target = s.mote_id]
           /\ SendEmergencyTwoRSSI(s).mote = [s EXCEPT !.eTwoRSSI = 0]
           /\ SendEmergencyTwoAcc(s).mote = [s EXCEPT !.eTwoAcc = 0]
BY DEF Quietly, Sending, SendMessage, SendCommand, SendEmergencyTwoRSSI,
       SendEmergencyTwoAcc

LEMMA ThenResult ==
    ASSUME NEW r, NEW s, NEW out
    PROVE  /\ Then(r, [mote |-> s, out |-> out]).mote = s
           /\ Then(r, [mote |-> s, out |-> out]).out = r.out \o out
BY DEF Then

LEMMA Untouched ==
    ASSUME NEW s, NEW r, Fits(s), r \in Globals,
           r.iAmGateway = s.iAmGateway, r.iAmInCluster = s.iAmInCluster,
           r.currentGateway = s.currentGateway, r.node_id = s.node_id,
           r.txpower = s.txpower, r.emergencyTwo = s.emergencyTwo,
           r.hurried = s.hurried, r.running_counter = s.running_counter,
           r.ackCounter = s.ackCounter
    PROVE  Follows(s, r)
BY SameRole, SameAlarm DEF Fits, Follows

LEMMA FollowsTwice ==
    ASSUME NEW s, NEW r, NEW q, Follows(s, r), Follows(r, q)
    PROVE  Follows(s, q)
BY DEF Follows

LEMMA FollowsItself == ASSUME NEW s, Fits(s) PROVE Follows(s, s)
BY DEF Follows

-----------------------------------------------------------------------------
(* What is sent.                                                           *)

LEMMA SendingFits ==
    ASSUME NEW s, Fits(s), NEW cmd
    PROVE  /\ Follows(s, SendMessage(s).mote)
           /\ Follows(s, SendCommand(s, cmd).mote)
           /\ Follows(s, SendEmergencyTwoRSSI(s).mote)
           /\ Follows(s, SendEmergencyTwoAcc(s).mote)
<1>0. s \in Globals /\ s.mote_id \in Mote /\ 0 \in 0..(EMERGENCY_DATA_MAX - 1)
  BY DataAssumption, FieldRanges DEF Fits
<1>1. Follows(s, SendMessage(s).mote)
  BY Results, FollowsItself
<1>2. Follows(s, [s EXCEPT !.command_target = s.mote_id])
  <2>. DEFINE r == [s EXCEPT !.command_target = s.mote_id]
  <2>1. r \in Globals
    BY <1>0, FieldTypes
  <2>2. /\ r.iAmGateway = s.iAmGateway /\ r.iAmInCluster = s.iAmInCluster
        /\ r.currentGateway = s.currentGateway /\ r.node_id = s.node_id
        /\ r.txpower = s.txpower /\ r.emergencyTwo = s.emergencyTwo
        /\ r.hurried = s.hurried /\ r.running_counter = s.running_counter
        /\ r.ackCounter = s.ackCounter
    BY <1>0 DEF Globals
  <2>. QED
    BY <2>1, <2>2, Untouched, Zenon
<1>3. Follows(s, [s EXCEPT !.eTwoRSSI = 0])
  <2>. DEFINE r == [s EXCEPT !.eTwoRSSI = 0]
  <2>1. r \in Globals
    BY <1>0, FieldTypes
  <2>2. /\ r.iAmGateway = s.iAmGateway /\ r.iAmInCluster = s.iAmInCluster
        /\ r.currentGateway = s.currentGateway /\ r.node_id = s.node_id
        /\ r.txpower = s.txpower /\ r.emergencyTwo = s.emergencyTwo
        /\ r.hurried = s.hurried /\ r.running_counter = s.running_counter
        /\ r.ackCounter = s.ackCounter
    BY <1>0 DEF Globals
  <2>. QED
    BY <2>1, <2>2, Untouched, Zenon
<1>4. Follows(s, [s EXCEPT !.eTwoAcc = 0])
  <2>. DEFINE r == [s EXCEPT !.eTwoAcc = 0]
  <2>1. r \in Globals
    BY <1>0, FieldTypes
  <2>2. /\ r.iAmGateway = s.iAmGateway /\ r.iAmInCluster = s.iAmInCluster
        /\ r.currentGateway = s.currentGateway /\ r.node_id = s.node_id
        /\ r.txpower = s.txpower /\ r.emergencyTwo = s.emergencyTwo
        /\ r.hurried = s.hurried /\ r.running_counter = s.running_counter
        /\ r.ackCounter = s.ackCounter
    BY <1>0 DEF Globals
  <2>. QED
    BY <2>1, <2>2, Untouched, Zenon
<1>5. Follows(s, SendCommand(s, cmd).mote)
  BY <1>2, Results, Zenon
<1>6. /\ Follows(s, SendEmergencyTwoRSSI(s).mote)
      /\ Follows(s, SendEmergencyTwoAcc(s).mote)
  BY <1>3, <1>4, Results, Zenon
<1>. QED
  BY <1>1, <1>5, <1>6

LEMMA BootedFits ==
    ASSUME NEW id \in Mote
    PROVE  Fits(Booted(id)) /\ Booted(id).ackCounter = 0
           /\ Booted(id).emergencyTwo = 0
<1>. DEFINE s == Booted(id)
<1>1. s \in Globals
  <2>1. /\ 0 \in 0..2 /\ 0 \in 0..255 /\ 0 \in 0..RUNNING_CAP
        /\ 0 \in 0..(EMERGENCY_DATA_MAX - 1)
        /\ "interval" \in SenseIntervals
    BY RunningAssumption, DataAssumption DEF SenseIntervals
  <2>. QED
    BY <2>1 DEF Booted, Globals
<1>2. /\ s.iAmGateway = FALSE /\ s.iAmInCluster = FALSE
      /\ s.currentGateway = defaultGateway /\ s.node_id = id
      /\ s.txpower = CC2420_TXPOWER_MAX
      /\ s.emergencyTwo = 0 /\ s.ackCounter = 0
  BY DEF Booted
<1>3. RoleFits(s)
  BY <1>2, AddressAssumption DEF RoleFits
<1>4. AlarmFits(s)
  BY <1>2 DEF AlarmFits
<1>. QED
  BY <1>1, <1>2, <1>3, <1>4 DEF Fits

-----------------------------------------------------------------------------
(* Commands and timers that change the role.                               *)

LEMMA SetLocalGatewayFits ==
    ASSUME NEW s, Fits(s), NEW t \in Mote
    PROVE  Follows(s, SetLocalGateway(s, t))
<1>. DEFINE r == SetLocalGateway(s, t)
<1>0. s \in Globals
  BY DEF Fits
<1>1. CASE t # s.node_id
  <2>1. r = [[[[[s EXCEPT !.iAmGateway = FALSE] EXCEPT !.iAmInCluster = TRUE]
                EXCEPT !.currentGateway = t] EXCEPT !.txpower = MemberPower]
                EXCEPT !.clusterExpired = FALSE]
    BY <1>0, <1>1 DEF SetLocalGateway, Globals
  <2>2. r \in Globals
    BY <1>0, <2>1, FieldTypes, Zenon
  <2>3. /\ r.iAmGateway = FALSE /\ r.iAmInCluster = TRUE
        /\ r.currentGateway = t /\ r.node_id = s.node_id
    BY <1>0, <2>1 DEF Globals
  <2>4. RoleFits(r)
    BY <1>1, <2>3, AddressAssumption DEF RoleFits
  <2>5. /\ r.emergencyTwo = s.emergencyTwo /\ r.hurried = s.hurried
        /\ r.running_counter = s.running_counter /\ r.ackCounter = s.ackCounter
    BY <1>0, <2>1 DEF Globals
  <2>. QED
    BY <2>2, <2>4, <2>5, SameAlarm, Zenon DEF Fits, Follows
<1>2. CASE t = s.node_id
  <2>1. r = [[[[[s EXCEPT !.iAmGateway = TRUE] EXCEPT !.iAmInCluster = FALSE]
                EXCEPT !.currentGateway = defaultGateway]
                EXCEPT !.txpower = CC2420_TXPOWER_MAX]
                EXCEPT !.clusterExpired = FALSE]
    BY <1>0, <1>2 DEF SetLocalGateway, Globals
  <2>2. r \in Globals
    BY <1>0, <2>1, FieldTypes, Zenon
  <2>3. /\ r.iAmGateway = TRUE /\ r.iAmInCluster = FALSE
        /\ r.currentGateway = defaultGateway /\ r.node_id = s.node_id
        /\ r.txpower = CC2420_TXPOWER_MAX
    BY <1>0, <2>1 DEF Globals
  <2>4. RoleFits(r)
    BY <1>0, <2>3, AddressAssumption, FieldRanges DEF RoleFits
  <2>5. /\ r.emergencyTwo = s.emergencyTwo /\ r.hurried = s.hurried
        /\ r.running_counter = s.running_counter /\ r.ackCounter = s.ackCounter
    BY <1>0, <2>1 DEF Globals
  <2>. QED
    BY <2>2, <2>4, <2>5, SameAlarm, Zenon DEF Fits, Follows
<1>. QED
  BY <1>1, <1>2

LEMMA ToggleEmergencyOneFits ==
    ASSUME NEW s, Fits(s)
    PROVE  Follows(s, ToggleEmergencyOne(s))
<1>. DEFINE r == ToggleEmergencyOne(s)
<1>0. s \in Globals
  BY DEF Fits
<1>1. CASE s.ackCounter = 0
  <2>1. r = [[[[[s EXCEPT !.emergencyOne = 1] EXCEPT !.iAmGateway = FALSE]
                EXCEPT !.iAmInCluster = FALSE]
                EXCEPT !.currentGateway = defaultGateway]
                EXCEPT !.txpower = CC2420_TXPOWER_MAX]
    BY <1>0, <1>1 DEF ToggleEmergencyOne, Globals
  <2>2. r \in Globals
    <3>. DEFINE lost == [s EXCEPT !.emergencyOne = 1]
    <3>1. lost \in Globals
      <4>1. 1 \in 0..2
        OBVIOUS
      <4>. QED
        BY <1>0, <4>1, FieldTypes, Zenon
    <3>2. r = [[[[lost EXCEPT !.iAmGateway = FALSE] EXCEPT !.iAmInCluster = FALSE]
                EXCEPT !.currentGateway = defaultGateway]
                EXCEPT !.txpower = CC2420_TXPOWER_MAX]
      BY <2>1
    <3>. HIDE DEF lost
    <3>. QED
      BY <3>1, <3>2, RoleTypes, Zenon
  <2>3. /\ r.iAmGateway = FALSE /\ r.iAmInCluster = FALSE
        /\ r.currentGateway = defaultGateway /\ r.node_id = s.node_id
        /\ r.txpower = CC2420_TXPOWER_MAX
    BY <1>0, <2>1 DEF Globals
  <2>4. RoleFits(r)
    BY <1>0, <2>3, AddressAssumption, FieldRanges DEF RoleFits
  <2>5. /\ r.emergencyTwo = s.emergencyTwo /\ r.hurried = s.hurried
        /\ r.running_counter = s.running_counter /\ r.ackCounter = s.ackCounter
    BY <1>0, <2>1 DEF Globals
  <2>. QED
    BY <2>2, <2>4, <2>5, SameAlarm, Zenon DEF Fits, Follows
<1>2. CASE s.ackCounter # 0
  <2>1. r = [[s EXCEPT !.ackCounter = 0] EXCEPT !.emergencyOne = 0]
    BY <1>0, <1>2 DEF ToggleEmergencyOne, Globals
  <2>2. r \in Globals
    <3>. DEFINE heard == [s EXCEPT !.ackCounter = 0]
    <3>1. 0 \in 0..2 /\ 0 \in 0..255
      OBVIOUS
    <3>2. heard \in Globals
      BY <1>0, <3>1, FieldTypes, Zenon
    <3>3. r = [heard EXCEPT !.emergencyOne = 0]
      BY <2>1
    <3>. HIDE DEF heard
    <3>4. \A v \in 0..2 : [heard EXCEPT !.emergencyOne = v] \in Globals
      BY <3>2, FieldTypes, Zenon
    <3>. QED
      BY <3>1, <3>3, <3>4, Zenon
  <2>3. /\ r.iAmGateway = s.iAmGateway /\ r.iAmInCluster = s.iAmInCluster
        /\ r.currentGateway = s.currentGateway /\ r.node_id = s.node_id
        /\ r.txpower = s.txpower /\ r.emergencyTwo = s.emergencyTwo
        /\ r.hurried = s.hurried /\ r.running_counter = s.running_counter
        /\ r.ackCounter = 0
    BY <1>0, <2>1 DEF Globals
  <2>. QED
    BY <2>2, <2>3, SameRole, SameAlarm, Zenon DEF Fits, Follows
<1>. QED
  BY <1>1, <1>2

LEMMA ClusterLearningModeFits ==
    ASSUME NEW s, Fits(s)
    PROVE  Follows(s, ClusterLearningMode(s))
<1>. DEFINE r == ClusterLearningMode(s)
<1>0. s \in Globals
  BY DEF Fits
<1>1. r = [[[[s EXCEPT !.iAmGateway = FALSE] EXCEPT !.iAmInCluster = FALSE]
              EXCEPT !.currentGateway = defaultGateway]
              EXCEPT !.txpower = CC2420_TXPOWER_MAX]
  BY <1>0 DEF ClusterLearningMode, Globals
<1>2. r \in Globals
  BY <1>0, <1>1, RoleTypes, Zenon
<1>3. /\ r.iAmGateway = FALSE /\ r.iAmInCluster = FALSE
      /\ r.currentGateway = defaultGateway /\ r.node_id = s.node_id
      /\ r.txpower = CC2420_TXPOWER_MAX
  BY <1>0, <1>1 DEF Globals
<1>4. RoleFits(r)
  BY <1>0, <1>3, AddressAssumption, FieldRanges DEF RoleFits
<1>5. /\ r.emergencyTwo = s.emergencyTwo /\ r.hurried = s.hurried
      /\ r.running_counter = s.running_counter /\ r.ackCounter = s.ackCounter
  BY <1>0, <1>1 DEF Globals
<1>. QED
  BY <1>2, <1>4, <1>5, SameAlarm, Zenon DEF Fits, Follows

LEMMA HandleEmergencyOneFits ==
    ASSUME NEW s, Fits(s)
    PROVE  Follows(s, HandleEmergencyOne(s))
<1>. DEFINE r == HandleEmergencyOne(s)
            lost == [s EXCEPT !.emergencyOne = 2]
<1>0. s \in Globals
  BY DEF Fits
<1>1. r = [lost EXCEPT !.txpower = CC2420_TXPOWER_MAX]
  BY <1>0 DEF HandleEmergencyOne, Globals
<1>2. r \in Globals
  <2>1. 2 \in 0..2
    OBVIOUS
  <2>2. lost \in Globals
    BY <1>0, <2>1, FieldTypes, Zenon
  <2>. HIDE DEF lost
  <2>. QED
    BY <1>1, <2>2, FieldTypes, Zenon
<1>3. /\ r.iAmGateway = s.iAmGateway /\ r.iAmInCluster = s.iAmInCluster
      /\ r.currentGateway = s.currentGateway /\ r.node_id = s.node_id
      /\ r.txpower = CC2420_TXPOWER_MAX
  BY <1>0, <1>1 DEF Globals
<1>4. RoleFits(r)
  BY <1>3 DEF Fits, RoleFits
<1>5. /\ r.emergencyTwo = s.emergencyTwo /\ r.hurried = s.hurried
      /\ r.running_counter = s.running_counter /\ r.ackCounter = s.ackCounter
  BY <1>0, <1>1 DEF Globals
<1>. QED
  BY <1>2, <1>4, <1>5, SameAlarm, Zenon DEF Fits, Follows

LEMMA HandleEmergencyTwoFits ==
    ASSUME NEW s, Fits(s), NEW t \in Mote
    PROVE  Follows(s, HandleEmergencyTwo(s, t))
<1>. DEFINE s1 == [s EXCEPT !.neighbor_sense_interval = "half"]
            s2 == [s1 EXCEPT !.emergencyTwo = 2]
            r == [s2 EXCEPT !.emergencyTarget = t]
<1>0. s \in Globals
  BY DEF Fits
<1>1. r \in Globals
  <2>1. 2 \in 0..2 /\ "half" \in SenseIntervals
    BY DEF SenseIntervals
  <2>2. s1 \in Globals
    BY <1>0, <2>1, FieldTypes, Zenon
  <2>3. s2 \in Globals
    <3>. HIDE DEF s1
    <3>. QED
      BY <2>1, <2>2, FieldTypes, Zenon DEF s2
  <2>. HIDE DEF s2
  <2>. QED
    BY <2>3, FieldTypes, Zenon DEF r
<1>2. /\ r.iAmGateway = s.iAmGateway /\ r.iAmInCluster = s.iAmInCluster
      /\ r.currentGateway = s.currentGateway /\ r.node_id = s.node_id
      /\ r.txpower = s.txpower
  BY <1>0 DEF Globals
<1>3. AlarmFits(r) /\ r.ackCounter = s.ackCounter
  BY <1>0 DEF Globals, AlarmFits
<1>4. Follows(s, r)
  BY <1>1, <1>2, <1>3, SameRole, Zenon DEF Fits, Follows
<1>5. HandleEmergencyTwo(s, t) = s \/ HandleEmergencyTwo(s, t) = r
  BY <1>0 DEF HandleEmergencyTwo, Globals
<1>. QED
  BY <1>4, <1>5, FollowsItself, Zenon

LEMMA SenseIntervalFits ==
    ASSUME NEW s, Fits(s), NEW i \in SenseIntervals
    PROVE  Follows(s, [s EXCEPT !.neighbor_sense_interval = i])
<1>. DEFINE r == [s EXCEPT !.neighbor_sense_interval = i]
<1>0. s \in Globals
  BY DEF Fits
<1>1. r \in Globals
  BY <1>0, FieldTypes, Zenon
<1>2. /\ r.iAmGateway = s.iAmGateway /\ r.iAmInCluster = s.iAmInCluster
      /\ r.currentGateway = s.currentGateway /\ r.node_id = s.node_id
      /\ r.txpower = s.txpower /\ r.emergencyTwo = s.emergencyTwo
      /\ r.hurried = s.hurried /\ r.running_counter = s.running_counter
      /\ r.ackCounter = s.ackCounter
  BY <1>0 DEF Globals
<1>. QED
  BY <1>1, <1>2, Untouched, Zenon

LEMMA CancelSysEmergencyOneFits ==
    ASSUME NEW s, Fits(s)
    PROVE  Follows(s, CancelSysEmergencyOne(s))
<1>. DEFINE t == [s EXCEPT !.neighbor_sense_interval = "time"]
            member == s.iAmInCluster /\ s.command_target # s.node_id
            power == IF member THEN MemberPower ELSE CC2420_TXPOWER_MAX
            ended == [t EXCEPT !.emergencyOne = 0]
            r == [ended EXCEPT !.txpower = power]
<1>0. s \in Globals
  BY DEF Fits
<1>1. Follows(s, t)
  BY SenseIntervalFits DEF SenseIntervals
<1>2. CancelSysEmergencyOne(s) = t \/ CancelSysEmergencyOne(s) = r
  BY <1>0 DEF CancelSysEmergencyOne, Globals
<1>3. r \in Globals
  <2>1. 0 \in 0..2 /\ power \in {MemberPower, CC2420_TXPOWER_MAX}
    OBVIOUS
  <2>2. ended \in Globals
    <3>1. t \in Globals
      BY <1>1 DEF Follows, Fits
    <3>. HIDE DEF t
    <3>. QED
      BY <2>1, <3>1, FieldTypes, Zenon DEF ended
  <2>. HIDE DEF ended, power
  <2>. QED
    BY <2>1, <2>2, FieldTypes, Zenon DEF r
<1>4. /\ r.iAmGateway = s.iAmGateway /\ r.iAmInCluster = s.iAmInCluster
      /\ r.currentGateway = s.currentGateway /\ r.node_id = s.node_id
      /\ r.txpower = power
  BY <1>0 DEF Globals
<1>5. ~r.iAmInCluster => r.txpower = CC2420_TXPOWER_MAX
  BY <1>4, Zenon
<1>6. RoleFits(r)
  BY <1>4, <1>5 DEF Fits, RoleFits
<1>7. /\ r.emergencyTwo = s.emergencyTwo /\ r.hurried = s.hurried
      /\ r.running_counter = s.running_counter /\ r.ackCounter = s.ackCounter
  BY <1>0 DEF Globals
<1>8. Follows(s, r)
  BY <1>3, <1>6, <1>7, SameAlarm, Zenon DEF Fits, Follows
<1>. QED
  BY <1>1, <1>2, <1>8, Zenon

LEMMA NoEmergencyTwoFits ==
    ASSUME NEW s, Fits(s)
    PROVE  Follows(s, [s EXCEPT !.emergencyTwo = 0])
<1>. DEFINE r == [s EXCEPT !.emergencyTwo = 0]
<1>0. s \in Globals
  BY DEF Fits
<1>1. r \in Globals
  <2>1. 0 \in 0..2
    OBVIOUS
  <2>. QED
    BY <1>0, <2>1, FieldTypes, Zenon
<1>2. /\ r.iAmGateway = s.iAmGateway /\ r.iAmInCluster = s.iAmInCluster
      /\ r.currentGateway = s.currentGateway /\ r.node_id = s.node_id
      /\ r.txpower = s.txpower
  BY <1>0 DEF Globals
<1>3. AlarmFits(r) /\ r.ackCounter = s.ackCounter
  BY <1>0 DEF Globals, AlarmFits
<1>. QED
  BY <1>1, <1>2, <1>3, SameRole, Zenon DEF Fits, Follows

LEMMA CancelSysEmergencyTwoFits ==
    ASSUME NEW s, Fits(s)
    PROVE  Follows(s, CancelSysEmergencyTwo(s).mote)
<1>. DEFINE t == [s EXCEPT !.neighbor_sense_interval = "interval"]
            quiet == [t EXCEPT !.emergencyTwo = 0]
<1>1. Follows(s, t)
  BY SenseIntervalFits DEF SenseIntervals
<1>2. Follows(s, quiet)
  <2>1. Follows(t, quiet)
    <3>1. Fits(t)
      BY <1>1 DEF Follows
    <3>. HIDE DEF t
    <3>. QED
      BY <3>1, NoEmergencyTwoFits DEF quiet
  <2>. QED
    BY <1>1, <2>1, FollowsTwice, Zenon
<1>3. Fits(quiet)
  BY <1>2 DEF Follows
<1>4. \/ CancelSysEmergencyTwo(s) = SendEmergencyTwoRSSI(quiet)
      \/ CancelSysEmergencyTwo(s) = SendEmergencyTwoAcc(quiet)
      \/ CancelSysEmergencyTwo(s) = Quietly(t)
  <2>1. CASE s.emergencyTwo = 2
    BY <2>1 DEF CancelSysEmergencyTwo
  <2>2. CASE s.emergencyTwo = 1
    BY <2>2 DEF CancelSysEmergencyTwo
  <2>3. CASE s.emergencyTwo # 1 /\ s.emergencyTwo # 2
    BY <2>3 DEF CancelSysEmergencyTwo
  <2>. QED
    BY <2>1, <2>2, <2>3
<1>5. /\ Follows(quiet, SendEmergencyTwoRSSI(quiet).mote)
      /\ Follows(quiet, SendEmergencyTwoAcc(quiet).mote)
  <2>. HIDE DEF quiet
  <2>. QED
    BY <1>3, SendingFits
<1>6. Quietly(t).mote = t
  BY Results
<1>. HIDE DEF t, quiet
<1>. QED
  BY <1>1, <1>2, <1>4, <1>5, <1>6, FollowsTwice, Zenon

\* Every command of the gateway, or of a mote that takes this one for it.
LEMMA HandleCommandFits ==
    ASSUME NEW s, Fits(s), NEW cmd \in Cmd, NEW t \in Mote
    PROVE  Follows(s, HandleCommand(s, cmd, t).mote)
<1>. DEFINE r == HandleCommand(s, cmd, t)
<1>1. \/ r = Quietly(SetLocalGateway(s, t))
      \/ r = SendMessage(s)
      \/ r = Quietly(HandleEmergencyOne(s))
      \/ r = Quietly(HandleEmergencyTwo(s, t))
      \/ r = Quietly(CancelSysEmergencyOne(s))
      \/ r = CancelSysEmergencyTwo(s)
  <2>1. cmd \in {0, 1, 2, 3, 4, 5}
    BY DEF Cmd, CMD_SET_LOCAL_GW, CMD_CANCEL_EMERGENCY_TWO
  <2>. QED
    BY <2>1 DEF HandleCommand, CMD_SET_LOCAL_GW, CMD_QUERY_MOTE,
                CMD_EMERGENCY_ONE, CMD_EMERGENCY_TWO, CMD_CANCEL_EMERGENCY_ONE,
                CMD_CANCEL_EMERGENCY_TWO
<1>2. /\ Follows(s, Quietly(SetLocalGateway(s, t)).mote)
      /\ Follows(s, Quietly(HandleEmergencyOne(s)).mote)
      /\ Follows(s, Quietly(HandleEmergencyTwo(s, t)).mote)
      /\ Follows(s, Quietly(CancelSysEmergencyOne(s)).mote)
  <2>1. /\ Follows(s, SetLocalGateway(s, t))
        /\ Follows(s, HandleEmergencyOne(s))
        /\ Follows(s, HandleEmergencyTwo(s, t))
        /\ Follows(s, CancelSysEmergencyOne(s))
    BY SetLocalGatewayFits, HandleEmergencyOneFits, HandleEmergencyTwoFits,
       CancelSysEmergencyOneFits
  <2>2. \A q : Quietly(q).mote = q
    BY Results
  <2>. QED
    BY <2>1, <2>2
<1>3. /\ Follows(s, SendMessage(s).mote)
      /\ Follows(s, CancelSysEmergencyTwo(s).mote)
  BY SendingFits, CancelSysEmergencyTwoFits
<1>. HIDE DEF r
<1>. QED
  BY <1>1, <1>2, <1>3, Zenon DEF r

-----------------------------------------------------------------------------
(* Motion.                                                                 *)

LEMMA SampleFits ==
    ASSUME NEW s, Fits(s), NEW d \in 0..(EMERGENCY_DATA_MAX - 1)
    PROVE  /\ Follows(s, [s EXCEPT !.eTwoAcc = d])
           /\ Follows(s, [s EXCEPT !.eTwoRSSI = d])
<1>0. s \in Globals
  BY DEF Fits
<1>1. Follows(s, [s EXCEPT !.eTwoAcc = d])
  <2>. DEFINE r == [s EXCEPT !.eTwoAcc = d]
  <2>1. r \in Globals
    BY <1>0, FieldTypes, Zenon
  <2>2. /\ r.iAmGateway = s.iAmGateway /\ r.iAmInCluster = s.iAmInCluster
        /\ r.currentGateway = s.currentGateway /\ r.node_id = s.node_id
        /\ r.txpower = s.txpower /\ r.emergencyTwo = s.emergencyTwo
        /\ r.hurried = s.hurried /\ r.running_counter = s.running_counter
        /\ r.ackCounter = s.ackCounter
    BY <1>0 DEF Globals
  <2>. QED
    BY <2>1, <2>2, Untouched, Zenon
<1>2. Follows(s, [s EXCEPT !.eTwoRSSI = d])
  <2>. DEFINE r == [s EXCEPT !.eTwoRSSI = d]
  <2>1. r \in Globals
    BY <1>0, FieldTypes, Zenon
  <2>2. /\ r.iAmGateway = s.iAmGateway /\ r.iAmInCluster = s.iAmInCluster
        /\ r.currentGateway = s.currentGateway /\ r.node_id = s.node_id
        /\ r.txpower = s.txpower /\ r.emergencyTwo = s.emergencyTwo
        /\ r.hurried = s.hurried /\ r.running_counter = s.running_counter
        /\ r.ackCounter = s.ackCounter
    BY <1>0 DEF Globals
  <2>. QED
    BY <2>1, <2>2, Untouched, Zenon
<1>. QED
  BY <1>1, <1>2

LEMMA AddAccFits ==
    ASSUME NEW s, Fits(s)
    PROVE  Follows(s, AddAcc(s).mote)
<1>. DEFINE t == [s EXCEPT !.eTwoAcc = s.eTwoAcc + 1]
<1>0. s \in Globals /\ s.eTwoAcc \in 0..(EMERGENCY_DATA_MAX - 1)
  BY FieldRanges DEF Fits
<1>1. t.eTwoAcc = s.eTwoAcc + 1
  BY <1>0 DEF Globals
<1>2. CASE s.emergencyTwo # 1
  <2>1. AddAcc(s).mote = s
    BY <1>2 DEF AddAcc, Quietly
  <2>. QED
    BY <2>1, FollowsItself, Zenon
<1>3. CASE s.emergencyTwo = 1 /\ t.eTwoAcc = EMERGENCY_DATA_MAX
  <2>1. AddAcc(s).mote = [t EXCEPT !.eTwoAcc = 0]
    BY <1>3 DEF AddAcc, SendEmergencyTwoAcc, Sending
  <2>2. [t EXCEPT !.eTwoAcc = 0] = [s EXCEPT !.eTwoAcc = 0]
    BY <1>0 DEF Globals
  <2>3. 0 \in 0..(EMERGENCY_DATA_MAX - 1)
    BY DataAssumption
  <2>4. Follows(s, [s EXCEPT !.eTwoAcc = 0])
    BY <2>3, SampleFits, Zenon
  <2>5. AddAcc(s).mote = [s EXCEPT !.eTwoAcc = 0]
    BY <2>1, <2>2, Zenon
  <2>. QED
    BY <2>4, <2>5, Zenon
<1>4. CASE s.emergencyTwo = 1 /\ t.eTwoAcc # EMERGENCY_DATA_MAX
  <2>1. AddAcc(s).mote = t
    BY <1>4 DEF AddAcc, Quietly
  <2>2. s.eTwoAcc + 1 \in 0..(EMERGENCY_DATA_MAX - 1)
    BY <1>0, <1>1, <1>4, DataAssumption
  <2>3. Follows(s, [s EXCEPT !.eTwoAcc = s.eTwoAcc + 1])
    BY <2>2, SampleFits, Zenon
  <2>. QED
    BY <2>1, <2>3, Zenon
<1>. QED
  BY <1>2, <1>3, <1>4

LEMMA BroadcastRecvFits ==
    ASSUME NEW s, Fits(s), NEW from
    PROVE  Follows(s, BroadcastRecv(s, from).mote)
<1>. DEFINE t == [s EXCEPT !.eTwoRSSI = s.eTwoRSSI + 1]
            watched == s.emergencyTwo = 2 /\ s.emergencyTarget = from
<1>0. s \in Globals /\ s.eTwoRSSI \in 0..(EMERGENCY_DATA_MAX - 1)
  BY FieldRanges DEF Fits
<1>1. t.eTwoRSSI = s.eTwoRSSI + 1
  BY <1>0 DEF Globals
<1>2. CASE ~watched
  <2>1. BroadcastRecv(s, from).mote = s
    BY <1>2 DEF BroadcastRecv, Quietly
  <2>. QED
    BY <2>1, FollowsItself, Zenon
<1>3. CASE watched /\ t.eTwoRSSI = EMERGENCY_DATA_MAX
  <2>1. BroadcastRecv(s, from).mote = [t EXCEPT !.eTwoRSSI = 0]
    BY <1>3 DEF BroadcastRecv, SendEmergencyTwoRSSI, Sending
  <2>2. [t EXCEPT !.eTwoRSSI = 0] = [s EXCEPT !.eTwoRSSI = 0]
    BY <1>0 DEF Globals
  <2>3. 0 \in 0..(EMERGENCY_DATA_MAX - 1)
    BY DataAssumption
  <2>4. Follows(s, [s EXCEPT !.eTwoRSSI = 0])
    BY <2>3, SampleFits, Zenon
  <2>5. BroadcastRecv(s, from).mote = [s EXCEPT !.eTwoRSSI = 0]
    BY <2>1, <2>2, Zenon
  <2>. QED
    BY <2>4, <2>5, Zenon
<1>4. CASE watched /\ t.eTwoRSSI # EMERGENCY_DATA_MAX
  <2>1. BroadcastRecv(s, from).mote = t
    BY <1>4 DEF BroadcastRecv, Quietly
  <2>2. s.eTwoRSSI + 1 \in 0..(EMERGENCY_DATA_MAX - 1)
    BY <1>0, <1>1, <1>4, DataAssumption
  <2>3. Follows(s, [s EXCEPT !.eTwoRSSI = s.eTwoRSSI + 1])
    BY <2>2, SampleFits, Zenon
  <2>. QED
    BY <2>1, <2>3, Zenon
<1>. QED
  BY <1>2, <1>3, <1>4

LEMMA TriggerEmergencyTwoFits ==
    ASSUME NEW s, Fits(s), s.running_counter >= RUNNING_MAX
    PROVE  Follows(s, TriggerEmergencyTwo(s).mote)
<1>. DEFINE one == [s EXCEPT !.emergencyTwo = 1]
            r == [one EXCEPT !.hurried = TRUE]
<1>0. s \in Globals
  BY DEF Fits
<1>1. r \in Globals
  <2>1. 1 \in 0..2
    OBVIOUS
  <2>2. one \in Globals
    BY <1>0, <2>1, FieldTypes, Zenon
  <2>. HIDE DEF one
  <2>. QED
    BY <2>2, FieldTypes, Zenon DEF r
<1>2. /\ r.iAmGateway = s.iAmGateway /\ r.iAmInCluster = s.iAmInCluster
      /\ r.currentGateway = s.currentGateway /\ r.node_id = s.node_id
      /\ r.txpower = s.txpower
  BY <1>0 DEF Globals
<1>3. AlarmFits(r) /\ r.ackCounter = s.ackCounter
  BY <1>0 DEF Globals, AlarmFits
<1>4. Follows(s, r)
  BY <1>1, <1>2, <1>3, SameRole, Zenon DEF Fits, Follows
<1>5. CASE s.emergencyTwo = 1
  <2>1. TriggerEmergencyTwo(s).mote = s
    BY <1>5 DEF TriggerEmergencyTwo, Quietly
  <2>. QED
    BY <2>1, FollowsItself, Zenon
<1>6. CASE s.emergencyTwo # 1
  <2>1. TriggerEmergencyTwo(s) = SendCommand(r, CMD_EMERGENCY_TWO)
    <3>1. r = [s EXCEPT !.emergencyTwo = 1, !.hurried = TRUE]
      BY <1>0 DEF Globals
    <3>. HIDE DEF r
    <3>. QED
      BY <1>6, <3>1, Zenon DEF TriggerEmergencyTwo
  <2>2. Fits(r)
    BY <1>4 DEF Follows
  <2>. HIDE DEF r
  <2>3. Follows(r, SendCommand(r, CMD_EMERGENCY_TWO).mote)
    BY <2>2, SendingFits
  <2>. QED
    BY <1>4, <2>1, <2>3, FollowsTwice, Zenon
<1>. QED
  BY <1>5, <1>6

\* A command and the samples.
LEMMA ToldResult ==
    ASSUME NEW s, Fits(s), NEW cmd
    PROVE  LET told == SendCommand(s, cmd)
           IN  Follows(s, Then(told, SendEmergencyTwoAcc(told.mote)).mote)
<1>. DEFINE told == SendCommand(s, cmd)
            after == SendEmergencyTwoAcc(told.mote)
<1>1. Follows(s, told.mote)
  BY SendingFits
<1>2. Follows(told.mote, after.mote)
  <2>1. Fits(told.mote)
    BY <1>1 DEF Follows
  <2>. HIDE DEF told
  <2>. QED
    BY <2>1, SendingFits DEF after
<1>3. Then(told, after).mote = after.mote
  BY DEF Then, SendEmergencyTwoAcc, Sending
<1>. HIDE DEF told, after
<1>4. Follows(s, Then(told, after).mote)
  BY <1>1, <1>2, <1>3, FollowsTwice, Zenon
<1>. QED
  BY <1>4, Zenon DEF told, after

LEMMA CancelEmergencyTwoFits ==
    ASSUME NEW s, Fits(s)
    PROVE  Follows(s, CancelEmergencyTwo(s).mote)
<1>. DEFINE t == [s EXCEPT !.running_counter = 0]
            none == [t EXCEPT !.emergencyTwo = 0]
            r == [none EXCEPT !.hurried = FALSE]
<1>0. s \in Globals
  BY DEF Fits
<1>1. t \in Globals
  <2>1. 0 \in 0..RUNNING_CAP
    BY RunningAssumption
  <2>. QED
    BY <1>0, <2>1, FieldTypes, Zenon
<1>2. r \in Globals
  <2>1. 0 \in 0..2
    OBVIOUS
  <2>. HIDE DEF t
  <2>2. none \in Globals
    BY <1>1, <2>1, FieldTypes, Zenon DEF none
  <2>. HIDE DEF none
  <2>. QED
    BY <2>2, FieldTypes, Zenon DEF r
<1>3. /\ t.iAmGateway = s.iAmGateway /\ t.iAmInCluster = s.iAmInCluster
      /\ t.currentGateway = s.currentGateway /\ t.node_id = s.node_id
      /\ t.txpower = s.txpower /\ t.ackCounter = s.ackCounter
  BY <1>0 DEF Globals
<1>4. /\ r.iAmGateway = s.iAmGateway /\ r.iAmInCluster = s.iAmInCluster
      /\ r.currentGateway = s.currentGateway /\ r.node_id = s.node_id
      /\ r.txpower = s.txpower /\ r.ackCounter = s.ackCounter
  BY <1>0 DEF Globals
<1>5. AlarmFits(r)
  BY <1>0 DEF Globals, AlarmFits
<1>6. Follows(s, r)
  BY <1>2, <1>4, <1>5, SameRole, Zenon DEF Fits, Follows
<1>7. CASE s.emergencyTwo = 0
  <2>1. CancelEmergencyTwo(s).mote = t
    BY <1>7 DEF CancelEmergencyTwo, Quietly
  <2>2. AlarmFits(t)
    BY <1>0, <1>7 DEF Globals, AlarmFits
  <2>3. Follows(s, t)
    BY <1>1, <1>3, <2>2, SameRole, Zenon DEF Fits, Follows
  <2>. QED
    BY <2>1, <2>3, Zenon
<1>8. CASE s.emergencyTwo # 0
  <2>. DEFINE told == SendCommand(r, CMD_CANCEL_EMERGENCY_TWO)
              all == Then(told, SendEmergencyTwoAcc(told.mote))
  <2>1. CancelEmergencyTwo(s) = all
    <3>1. r = [t EXCEPT !.emergencyTwo = 0, !.hurried = FALSE]
      BY <1>0 DEF Globals
    <3>. HIDE DEF r
    <3>. QED
      BY <1>8, <3>1, Zenon DEF CancelEmergencyTwo
  <2>2. Fits(r)
    BY <1>6 DEF Follows
  <2>3. Follows(r, all.mote)
    <3>. HIDE DEF r
    <3>. QED
      BY <2>2, ToldResult
  <2>. HIDE DEF r, all
  <2>. QED
    BY <1>6, <2>1, <2>3, FollowsTwice, Zenon
<1>. QED
  BY <1>7, <1>8

LEMMA JudgeFits ==
    ASSUME NEW s, Fits(s), NEW running \in BOOLEAN
    PROVE  Follows(s, Judge(s, running).mote)
<1>. DEFINE n == IF s.running_counter = RUNNING_CAP THEN RUNNING_CAP
                 ELSE s.running_counter + 1
            t == [s EXCEPT !.running_counter = n]
<1>0. s \in Globals /\ s.running_counter \in 0..RUNNING_CAP
  BY FieldRanges DEF Fits
<1>1. n \in 0..RUNNING_CAP /\ n >= s.running_counter
  BY <1>0, RunningAssumption
<1>. HIDE DEF n
<1>2. t \in Globals
  BY <1>0, <1>1, FieldTypes, Zenon
<1>3. /\ t.iAmGateway = s.iAmGateway /\ t.iAmInCluster = s.iAmInCluster
      /\ t.currentGateway = s.currentGateway /\ t.node_id = s.node_id
      /\ t.txpower = s.txpower /\ t.ackCounter = s.ackCounter
      /\ t.emergencyTwo = s.emergencyTwo /\ t.hurried = s.hurried
      /\ t.running_counter = n
  BY <1>0 DEF Globals
<1>4. AlarmFits(t)
  <2>1. s.running_counter >= RUNNING_MAX => n >= RUNNING_MAX
    BY <1>0, <1>1, RunningAssumption
  <2>. QED
    BY <1>3, <2>1 DEF Fits, AlarmFits
<1>5. Follows(s, t)
  BY <1>2, <1>3, <1>4, SameRole, Zenon DEF Fits, Follows
<1>6. CASE ~running
  <2>1. Judge(s, running) = CancelEmergencyTwo(s)
    BY <1>6 DEF Judge
  <2>. QED
    BY <2>1, CancelEmergencyTwoFits, Zenon
<1>7. CASE running /\ n >= RUNNING_MAX
  <2>1. Judge(s, running) = TriggerEmergencyTwo(t)
    BY <1>7 DEF Judge, n
  <2>2. Fits(t) /\ t.running_counter >= RUNNING_MAX
    BY <1>3, <1>5, <1>7 DEF Follows
  <2>. HIDE DEF t
  <2>3. Follows(t, TriggerEmergencyTwo(t).mote)
    BY <2>2, TriggerEmergencyTwoFits
  <2>. QED
    BY <1>5, <2>1, <2>3, FollowsTwice, Zenon
<1>8. CASE running /\ ~(n >= RUNNING_MAX)
  <2>1. Judge(s, running).mote = t
    BY <1>8 DEF Judge, Quietly, n
  <2>. QED
    BY <1>5, <2>1, Zenon
<1>. QED
  BY <1>6, <1>7, <1>8

LEMMA ReadMovementFits ==
    ASSUME NEW s, Fits(s), NEW running \in BOOLEAN
    PROVE  Follows(s, ReadMovement(s, running).mote)
<1>. DEFINE judged == IF s.odd THEN Quietly(s) ELSE Judge(s, running)
            j == judged.mote
            t == [j EXCEPT !.odd = ~@]
<1>1. Follows(s, j)
  <2>1. CASE s.odd
    <3>1. j = s
      BY <2>1 DEF Quietly
    <3>. QED
      BY <3>1, FollowsItself, Zenon
  <2>2. CASE ~s.odd
    <3>1. j = Judge(s, running).mote
      BY <2>2
    <3>. QED
      BY <3>1, JudgeFits, Zenon
  <2>. QED
    BY <2>1, <2>2
<1>2. Follows(j, t)
  <2>. HIDE DEF j
  <2>1. Fits(j) /\ j \in Globals
    BY <1>1 DEF Follows, Fits
  <2>2. t \in Globals
    <3>1. (~j.odd) \in BOOLEAN
      OBVIOUS
    <3>. QED
      BY <2>1, <3>1, FieldTypes, Zenon
  <2>3. /\ t.iAmGateway = j.iAmGateway /\ t.iAmInCluster = j.iAmInCluster
        /\ t.currentGateway = j.currentGateway /\ t.node_id = j.node_id
        /\ t.txpower = j.txpower /\ t.emergencyTwo = j.emergencyTwo
        /\ t.hurried = j.hurried /\ t.running_counter = j.running_counter
        /\ t.ackCounter = j.ackCounter
    BY <2>1 DEF Globals
  <2>. QED
    BY <2>1, <2>2, <2>3, Untouched, Zenon
<1>3. ReadMovement(s, running) = Then(judged, AddAcc(t))
  BY Zenon DEF ReadMovement
<1>4. Follows(t, AddAcc(t).mote)
  <2>1. Fits(t)
    BY <1>2 DEF Follows
  <2>. HIDE DEF t
  <2>. QED
    BY <2>1, AddAccFits
<1>5. Then(judged, AddAcc(t)).mote = AddAcc(t).mote
  BY DEF Then, AddAcc, SendEmergencyTwoAcc, Sending, Quietly
<1>. HIDE DEF j, t, judged
<1>. QED
  BY <1>1, <1>2, <1>3, <1>4, <1>5, FollowsTwice, Zenon
=============================================================================
