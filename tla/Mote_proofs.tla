----------------------------- MODULE Mote_proofs -----------------------------
(***************************************************************************)
(* Proofs about one mote.  Its modes (MoteModes), for every set of motes,  *)
(* every threshold and every size of the buffers: whatever comes in, and   *)
(* in whatever order, role, gateway, power and alarm of a mote fit         *)
(* together.  What it measures (Telemetry), for every width of the word of *)
(* motions and every number of neighbours: what the gateway decodes is     *)
(* what the mote read.                                                     *)
(***************************************************************************)
EXTENDS MoteModes, Telemetry, Modes_proofs, SequenceTheorems, FiniteSetTheorems

-----------------------------------------------------------------------------
(* The modes.                                                              *)

\* Fits is inductive as it stands: every function of Modes preserves it.
MInv == Fits(mote) /\ mote.ackCounter <= MaxAcks

LEMMA InitMInv == Init => MInv
<1>. SUFFICES ASSUME Init PROVE MInv
  OBVIOUS
<1>1. PICK id \in Mote : mote = Booted(id)
  BY DEF Init
<1>. QED
  BY <1>1, BootedFits, AcksAssumption DEF MInv

\* Time and the button leave alone what Fits is about.
LEMMA QuietFieldsFit ==
    ASSUME NEW s, Fits(s), NEW a \in Mote
    PROVE  /\ Follows(s, [s EXCEPT !.clusterExpired = TRUE])
           /\ Follows(s, [s EXCEPT !.mote_id = a])
<1>0. s \in Globals
  BY DEF Fits
<1>1. Follows(s, [s EXCEPT !.clusterExpired = TRUE])
  <2>. DEFINE r == [s EXCEPT !.clusterExpired = TRUE]
  <2>1. r \in Globals
    BY <1>0, FieldTypes, Zenon
  <2>2. /\ r.iAmGateway = s.iAmGateway /\ r.iAmInCluster = s.iAmInCluster
        /\ r.currentGateway = s.currentGateway /\ r.node_id = s.node_id
        /\ r.txpower = s.txpower /\ r.emergencyTwo = s.emergencyTwo
        /\ r.hurried = s.hurried /\ r.running_counter = s.running_counter
        /\ r.ackCounter = s.ackCounter
    BY <1>0 DEF Globals
  <2>. QED
    BY <2>1, <2>2, Untouched, Zenon
<1>2. Follows(s, [s EXCEPT !.mote_id = a])
  <2>. DEFINE r == [s EXCEPT !.mote_id = a]
  <2>1. r \in Globals
    BY <1>0, FieldTypes, Zenon
  <2>2. /\ r.iAmGateway = s.iAmGateway /\ r.iAmInCluster = s.iAmInCluster
        /\ r.currentGateway = s.currentGateway /\ r.node_id = s.node_id
        /\ r.txpower = s.txpower /\ r.emergencyTwo = s.emergencyTwo
        /\ r.hurried = s.hurried /\ r.running_counter = s.running_counter
        /\ r.ackCounter = s.ackCounter
    BY <1>0 DEF Globals
  <2>. QED
    BY <2>1, <2>2, Untouched, Zenon
<1>. QED
  BY <1>1, <1>2

LEMMA AcknowledgedFits ==
    ASSUME NEW s, Fits(s), s.ackCounter < MaxAcks
    PROVE  LET r == [s EXCEPT !.ackCounter = @ + 1]
           IN  Fits(r) /\ r.ackCounter <= MaxAcks
<1>. DEFINE n == s.ackCounter + 1
            r == [s EXCEPT !.ackCounter = n]
<1>0. s \in Globals /\ s.ackCounter \in 0..255
  BY FieldRanges DEF Fits
<1>1. n \in 0..255 /\ n <= MaxAcks
  BY <1>0, AcksAssumption
<1>. HIDE DEF n
<1>2. r \in Globals
  BY <1>0, <1>1, FieldTypes, Zenon
<1>3. /\ r.iAmGateway = s.iAmGateway /\ r.iAmInCluster = s.iAmInCluster
      /\ r.currentGateway = s.currentGateway /\ r.node_id = s.node_id
      /\ r.txpower = s.txpower /\ r.emergencyTwo = s.emergencyTwo
      /\ r.hurried = s.hurried /\ r.running_counter = s.running_counter
      /\ r.ackCounter = n
  BY <1>0 DEF Globals
<1>4. Fits(r)
  BY <1>2, <1>3, SameRole, SameAlarm, Zenon DEF Fits
<1>5. r.ackCounter <= MaxAcks
  BY <1>1, <1>3
<1>. QED
  BY <1>4, <1>5, Zenon DEF n

LEMMA FollowsKeepsMInv ==
    ASSUME MInv, Follows(mote, mote')
    PROVE  MInv'
BY AcksAssumption DEF MInv, Follows, Fits

LEMMA StepPreserves == MInv /\ [Next]_vars => MInv'
<1>. SUFFICES ASSUME MInv, [Next]_vars PROVE MInv'
  OBVIOUS
<1>0. Fits(mote) /\ mote.ackCounter <= MaxAcks
  BY DEF MInv
<1>1. ASSUME NEW cmd \in Cmd, NEW target \in Mote, Command(cmd, target)
      PROVE  MInv'
  <2>1. mote' = HandleCommand(mote, cmd, target).mote
    BY <1>1, Zenon DEF Command, Step
  <2>. QED
    BY <1>0, <2>1, HandleCommandFits, FollowsKeepsMInv
<1>2. ASSUME NEW running \in BOOLEAN, Movement(running)
      PROVE  MInv'
  <2>1. mote' = ReadMovement(mote, running).mote
    BY <1>2, Zenon DEF Movement, Step
  <2>. QED
    BY <1>0, <2>1, ReadMovementFits, FollowsKeepsMInv
<1>3. ASSUME NEW from \in Mote, Hello(from)
      PROVE  MInv'
  <2>1. mote' = BroadcastRecv(mote, from).mote
    BY <1>3, Zenon DEF Hello, Step
  <2>. QED
    BY <1>0, <2>1, BroadcastRecvFits, FollowsKeepsMInv
<1>4. CASE Acknowledged
  <2>1. mote.ackCounter < MaxAcks
    BY <1>4 DEF Acknowledged
  <2>2. mote' = [mote EXCEPT !.ackCounter = @ + 1]
    BY <1>4 DEF Acknowledged, Step, Quietly
  <2>. QED
    BY <1>0, <2>1, <2>2, AcknowledgedFits DEF MInv
<1>5. CASE AckCount
  <2>1. mote' = ToggleEmergencyOne(mote)
    BY <1>5 DEF AckCount, Step, Quietly
  <2>. QED
    BY <1>0, <2>1, ToggleEmergencyOneFits, FollowsKeepsMInv
<1>6. CASE SendInterval
  <2>1. mote' = SendMessage(mote).mote
    BY <1>6 DEF SendInterval, Step
  <2>. QED
    BY <1>0, <2>1, SendingFits, FollowsKeepsMInv
<1>7. CASE Button
  <2>1. mote' = [mote EXCEPT !.mote_id = MY_ADDRESS_1]
    BY <1>7 DEF Button, Step, Quietly
  <2>. QED
    BY <1>0, <2>1, ButtonAssumption, QuietFieldsFit, FollowsKeepsMInv
<1>8. CASE ClusterIntervalExpires
  <2>1. mote' = [mote EXCEPT !.clusterExpired = TRUE]
    BY <1>8 DEF ClusterIntervalExpires, Step, Quietly
  <2>. QED
    BY <1>0, <2>1, ButtonAssumption, QuietFieldsFit, FollowsKeepsMInv
<1>9. CASE LeaveCluster
  <2>1. mote' = ClusterLearningMode(mote)
    BY <1>9 DEF LeaveCluster, Step, Quietly
  <2>. QED
    BY <1>0, <2>1, ClusterLearningModeFits, FollowsKeepsMInv
<1>10. CASE UNCHANGED vars
  BY <1>10 DEF vars, MInv
<1>. QED
  BY <1>1, <1>2, <1>3, <1>4, <1>5, <1>6, <1>7, <1>8, <1>9, <1>10 DEF Next

-----------------------------------------------------------------------------
(* The theorems about the modes.                                           *)

\* In every state of a mote its globals fit together.
THEOREM ModesInvariance == Spec => []MInv
BY InitMInv, StepPreserves, PTL DEF Spec

\* Every global stays within its type: counters in their bytes, buffers below
\* their size.
THEOREM ModesTypeCorrect == Spec => []TypeOK
<1>1. MInv => TypeOK
  BY DEF MInv, Fits, TypeOK
<1>. QED
  BY <1>1, ModesInvariance, PTL

\* A mote sends to a local gateway exactly while it is a member of a cluster,
\* and never to the address it booted with (krava.c:118-143, 173-184, 266-268).
THEOREM GatewayMatchesRoleHolds == Spec => []GatewayMatchesRole
<1>1. MInv => GatewayMatchesRole
  BY DEF MInv, Fits, RoleFits, GatewayMatchesRole
<1>. QED
  BY <1>1, ModesInvariance, PTL

\* Only a member of a cluster saves power (krava.c:142, 180, 233-237, 275).
THEOREM FullPowerOutsideClusterHolds == Spec => []FullPowerOutsideCluster
<1>1. MInv => FullPowerOutsideCluster
  BY DEF MInv, Fits, RoleFits, FullPowerOutsideCluster
<1>. QED
  BY <1>1, ModesInvariance, PTL

\* While a mote has an alarm of its own its cow runs and the mote hurries
\* (krava.c:289, 305, 504-510); it may go on hurrying without one.
THEOREM AlarmOnlyWhileRunningHolds == Spec => []AlarmOnlyWhileRunning
<1>1. MInv => AlarmOnlyWhileRunning
  BY DEF MInv, Fits, AlarmFits, AlarmOnlyWhileRunning
<1>. QED
  BY <1>1, ModesInvariance, PTL

-----------------------------------------------------------------------------
(* Words and shifts.                                                       *)

LEMMA Width ==
    /\ MOTION_MAX \in 4..32
    /\ \E j \in 1..8 : MOTION_MAX = 4 * j
    /\ MAX_NEIGHBOURS \in 1..20
BY MotionAssumption, NeighbourAssumption

LEMMA Division ==
    ASSUME NEW w \in Nat, NEW p \in Nat \ {0}
    PROVE  /\ w \div p \in Nat /\ w % p \in 0..p - 1
           /\ w = p * (w \div p) + (w % p)
<1>1. w \div p \in Nat
  OBVIOUS
<1>2. w % p \in 0..p - 1
  OBVIOUS
<1>3. w = p * (w \div p) + (w % p)
  OBVIOUS
<1>. QED
  BY <1>1, <1>2, <1>3

LEMMA DivisionIsUnique ==
    ASSUME NEW w \in Nat, NEW p \in Nat \ {0}, NEW q \in Nat, NEW r \in 0..p - 1,
           w = p * q + r
    PROVE  w \div p = q /\ w % p = r
<1>1. w \div p = q
  OBVIOUS
<1>2. w % p = r
  OBVIOUS
<1>. QED
  BY <1>1, <1>2

\* A motion that is put in at the low end moves the others up by one.
LEMMA MovedUp ==
    ASSUME NEW y \in Nat, NEW a \in 0..3, NEW p \in Nat \ {0}
    PROVE  (y * 4 + a) \div (4 * p) = y \div p
<1>. DEFINE q == y \div p
            r == y % p
            s == 4 * r + a
<1>1. q \in Nat /\ r \in 0..p - 1 /\ y = p * q + r
  BY Division
<1>. HIDE DEF q, r
<1>2. s \in 0..(4 * p) - 1 /\ 4 * p \in Nat \ {0} /\ y * 4 + a \in Nat
  BY <1>1
<1>3. y * 4 + a = (4 * p) * q + s
  BY <1>1
<1>. HIDE DEF s
<1>4. (y * 4 + a) \div (4 * p) = q
  BY <1>1, <1>2, <1>3, DivisionIsUnique
<1>. QED
  BY <1>4 DEF q

\* Cutting a word leaves the motions below the cut.
LEMMA CutLeavesLow ==
    ASSUME NEW x \in Nat, NEW p \in Nat \ {0}, NEW c \in Nat \ {0}
    PROVE  ((x % ((4 * p) * c)) \div p) % 4 = (x \div p) % 4
<1>. DEFINE d == (4 * p) * c
            q == x \div d
            r == x % d
            s == r \div p
            t == r % p
<1>1. d \in Nat \ {0}
  OBVIOUS
<1>. HIDE DEF d
<1>2. q \in Nat /\ r \in 0..d - 1 /\ x = d * q + r
  BY <1>1, Division, Zenon
<1>. HIDE DEF q, r
<1>3. s \in Nat /\ t \in 0..p - 1 /\ r = p * s + t
  <2>1. r \in Nat
    BY <1>1, <1>2
  <2>. QED
    BY <2>1, Division, Zenon
<1>. HIDE DEF s, t
<1>. DEFINE e == c * q
<1>4. e \in Nat
  BY <1>2
<1>5. d * q = p * (4 * e)
  BY <1>2 DEF d
<1>. HIDE DEF e
<1>6. x = p * (4 * e + s) + t
  BY <1>2, <1>3, <1>4, <1>5
<1>7. x \div p = 4 * e + s
  BY <1>3, <1>4, <1>6, DivisionIsUnique
<1>8. (4 * e + s) % 4 = s % 4
  BY <1>3, <1>4
<1>. QED
  BY <1>7, <1>8 DEF s, r, d

\* The part of w below the byte at p and that byte make the part below the next.
OneMoreByte(w, p) == w % (256 * p) = (w % p) + ((w \div p) % 256) * p

LEMMA ByteAdded ==
    ASSUME NEW w \in Nat, NEW p \in Nat \ {0}
    PROVE  OneMoreByte(w, p)
<1>. DEFINE q == w \div p
            r == w % p
            a == q \div 256
            b == q % 256
            s == p * b + r
<1>1. q \in Nat /\ r \in 0..p - 1 /\ w = p * q + r
  BY Division
<1>. HIDE DEF q, r
<1>2. a \in Nat /\ b \in 0..255 /\ q = 256 * a + b
  BY <1>1
<1>. HIDE DEF a, b
<1>3. s \in 0..(256 * p) - 1 /\ 256 * p \in Nat \ {0}
  BY <1>1, <1>2
<1>4. p * q = (256 * p) * a + p * b
  BY <1>1, <1>2
<1>5. w = (256 * p) * a + s
  BY <1>1, <1>2, <1>4
<1>. HIDE DEF s
<1>6. w % (256 * p) = s
  BY <1>2, <1>3, <1>5, DivisionIsUnique
<1>7. s = r + b * p
  BY <1>1, <1>2 DEF s
<1>. QED
  BY <1>6, <1>7 DEF r, b, q, OneMoreByte

LEMMA ShiftFacts ==
    /\ Shift[0] = 1
    /\ \A n \in 1..MOTION_MAX : Shift[n] = 4 * Shift[n - 1]
    /\ \A n \in 0..MOTION_MAX : Shift[n] \in Nat \ {0}
<1>. DEFINE N == MOTION_MAX
            S == Nat \ {0}
            Doubles(g) == g = [n \in 0..N |-> IF n = 0 THEN 1 ELSE 4 * g[n - 1]]
            step == [n \in 1..N |-> [w \in S |-> 4 * w]]
<1>1. N \in Nat
  BY Width
<1>2. \E g \in [0..N -> S] : Recurs(g, N, 1, step)
  <2>1. 1 \in S /\ \A w \in S : 4 * w \in S
    OBVIOUS
  <2>2. step \in [1..N -> [S -> S]]
    BY <2>1
  <2>. HIDE DEF N, S, step
  <2>. QED
    BY <1>1, <2>1, <2>2, RecursionExists
<1>3. PICK g \in [0..N -> S] : g[0] = 1 /\ \A n \in 1..N : g[n] = step[n][g[n - 1]]
  BY <1>2 DEF Recurs
<1>4. \A n \in 1..N : n - 1 \in 0..N /\ g[n - 1] \in S
  BY <1>1
<1>5. \A n \in 1..N : g[n] = 4 * g[n - 1]
  BY <1>3, <1>4
<1>6. Doubles(g)
  <2>1. \A n \in 0..N : n # 0 => n \in 1..N
    BY <1>1
  <2>2. \A n \in 0..N : g[n] = IF n = 0 THEN 1 ELSE 4 * g[n - 1]
    BY <1>3, <1>5, <2>1
  <2>. QED
    BY <2>2
<1>. HIDE DEF Doubles, step
<1>7. Doubles(Shift)
  <2>1. Shift = CHOOSE f : Doubles(f)
    BY Zenon DEF Shift, Doubles
  <2>. QED
    BY <1>6, <2>1, Zenon
<1>8. /\ 0 \in 0..N /\ \A n \in 1..N : n \in 0..N /\ n # 0
  BY <1>1
<1>9. Shift[0] = 1 /\ \A n \in 1..N : Shift[n] = 4 * Shift[n - 1]
  BY <1>7, <1>8 DEF Doubles
<1>. DEFINE P == {n \in 0..N : Shift[n] \in S}
<1>10. 0 \in P
  BY <1>8, <1>9
<1>11. \A n \in 1..N : n - 1 \in P => n \in P
  BY <1>8, <1>9
<1>. HIDE DEF P
<1>12. 0..N \subseteq P
  BY <1>1, <1>10, <1>11, UpTo
<1>. QED
  BY <1>9, <1>12 DEF P

\* A longer shift is made of a shorter one and at least two bits more.
LEMMA ShiftDivides ==
    ASSUME NEW n \in 0..MOTION_MAX, NEW i \in 0..n - 1
    PROVE  \E c \in Nat \ {0} : Shift[n] = (4 * Shift[i]) * c
<1>. DEFINE Divides(k, j) == \E c \in Nat \ {0} : Shift[k] = (4 * Shift[j]) * c
            P == {k \in 0..MOTION_MAX : \A j \in 0..k - 1 : Divides(k, j)}
<1>0. MOTION_MAX \in Nat
  BY Width
<1>1. 0 \in P
  BY <1>0
<1>2. ASSUME NEW k \in 1..MOTION_MAX, k - 1 \in P
      PROVE  k \in P
  <2>1. k \in 0..MOTION_MAX /\ k - 1 \in 0..MOTION_MAX
    BY <1>0
  <2>2. Shift[k] = 4 * Shift[k - 1] /\ Shift[k - 1] \in Nat \ {0}
    BY <2>1, ShiftFacts
  <2>3. ASSUME NEW j \in 0..k - 1 PROVE Divides(k, j)
    <3>0. j \in 0..MOTION_MAX
      BY <1>0
    <3>1. Shift[j] \in Nat \ {0}
      BY <3>0, ShiftFacts
    <3>2. CASE j = k - 1
      <4>1. 1 \in Nat \ {0} /\ Shift[k] = (4 * Shift[j]) * 1
        BY <2>2, <3>1, <3>2
      <4>. QED
        BY <4>1
    <3>3. CASE j # k - 1
      <4>1. j \in 0..(k - 1) - 1
        BY <1>0, <3>3
      <4>2. PICK c \in Nat \ {0} : Shift[k - 1] = (4 * Shift[j]) * c
        BY <1>2, <4>1
      <4>. DEFINE s == Shift[j]
      <4>3. s \in Nat
        BY <3>1
      <4>4. Shift[k] = 4 * ((4 * s) * c)
        BY <2>2, <4>2
      <4>. HIDE DEF s
      <4>5. 4 * ((4 * s) * c) = (4 * s) * (4 * c) /\ 4 * c \in Nat \ {0}
        BY <4>3
      <4>6. Shift[k] = (4 * s) * (4 * c)
        BY <4>4, <4>5
      <4>. QED
        BY <4>5, <4>6 DEF s
    <3>. QED
      BY <3>2, <3>3
  <2>. HIDE DEF Divides
  <2>. QED
    BY <2>1, <2>3
<1>. HIDE DEF P
<1>3. 0..MOTION_MAX \subseteq P
  BY <1>0, <1>1, <1>2, UpTo
<1>. QED
  BY <1>3 DEF P

LEMMA ShiftGrows ==
    ASSUME NEW n \in 0..MOTION_MAX, NEW i \in 0..n
    PROVE  Shift[i] <= Shift[n]
<1>0. MOTION_MAX \in Nat
  BY Width
<1>1. Shift[i] \in Nat \ {0} /\ Shift[n] \in Nat
  BY <1>0, ShiftFacts
<1>2. CASE i = n
  BY <1>1, <1>2
<1>3. CASE i # n
  <2>1. i \in 0..n - 1
    BY <1>0, <1>3
  <2>2. PICK c \in Nat \ {0} : Shift[n] = (4 * Shift[i]) * c
    BY <2>1, ShiftDivides
  <2>. DEFINE s == Shift[i]
  <2>3. s \in Nat /\ Shift[n] = (4 * s) * c
    BY <1>1, <2>2
  <2>. HIDE DEF s
  <2>4. (4 * s) * c >= s
    BY <2>3
  <2>. QED
    BY <2>3, <2>4 DEF s
<1>. QED
  BY <1>2, <1>3

-----------------------------------------------------------------------------
(* Motions in a word.                                                      *)

\* The motion at place k of a word, the newest at place 1.
MotionAt(w, k) == (w \div Shift[k - 1]) % 4

LEMMA MotionPutIn ==
    ASSUME NEW w \in Nat, NEW a \in 0..3, NEW k \in 1..MOTION_MAX
    PROVE  MotionAt((w * 4 + (a % 4)) % Shift[MOTION_MAX], k)
               = IF k = 1 THEN a ELSE MotionAt(w, k - 1)
<1>. DEFINE x == w * 4 + a
            p == Shift[k - 1]
<1>0. MOTION_MAX \in Nat /\ MOTION_MAX \in 0..MOTION_MAX /\ k - 1 \in 0..MOTION_MAX - 1
      /\ k - 1 \in 0..MOTION_MAX
  BY Width
<1>1. a % 4 = a /\ x \in Nat
  OBVIOUS
<1>2. p \in Nat \ {0}
  BY <1>0, ShiftFacts
<1>3. PICK c \in Nat \ {0} : Shift[MOTION_MAX] = (4 * p) * c
  BY <1>0, ShiftDivides
<1>4. MotionAt(x % Shift[MOTION_MAX], k) = (x \div p) % 4
  <2>. HIDE DEF x, p
  <2>1. ((x % ((4 * p) * c)) \div p) % 4 = (x \div p) % 4
    BY <1>1, <1>2, CutLeavesLow
  <2>. QED
    BY <1>3, <2>1 DEF MotionAt, p
<1>5. CASE k = 1
  <2>1. p = 1
    BY <1>5, ShiftFacts
  <2>2. (x \div p) % 4 = a
    BY <2>1
  <2>. QED
    BY <1>1, <1>4, <1>5, <2>2
<1>6. CASE k # 1
  <2>. DEFINE q == Shift[k - 2]
  <2>1. k - 1 \in 1..MOTION_MAX /\ k - 2 \in 0..MOTION_MAX /\ (k - 1) - 1 = k - 2
    BY <1>0, <1>6
  <2>2. q \in Nat \ {0} /\ p = 4 * q
    BY <2>1, ShiftFacts
  <2>. HIDE DEF p, q
  <2>3. x \div p = w \div q
    BY <2>2, MovedUp
  <2>4. MotionAt(w, k - 1) = (w \div q) % 4
    BY <2>1 DEF MotionAt, q
  <2>. QED
    BY <1>1, <1>4, <1>6, <2>3, <2>4
<1>. QED
  BY <1>5, <1>6

\* The word grows with the number of motions in it.
LEMMA WordGrows ==
    ASSUME NEW n \in 0..MOTION_MAX, NEW w \in Nat, w < Shift[n], NEW a \in 0..3
    PROVE  LET v == (w * 4 + (a % 4)) % Shift[MOTION_MAX]
           IN  v \in Nat /\ v < Shift[Counted(n)]
<1>. DEFINE x == w * 4 + a
            top == Shift[MOTION_MAX]
            v == x % top
<1>0. MOTION_MAX \in Nat /\ MOTION_MAX \in 0..MOTION_MAX
  BY Width
<1>1. a % 4 = a /\ x \in Nat
  OBVIOUS
<1>2. top \in Nat \ {0} /\ Shift[n] \in Nat \ {0}
  BY <1>0, ShiftFacts
<1>3. v \in 0..top - 1
  <2>. HIDE DEF x, top
  <2>. QED
    BY <1>1, <1>2, Division, Zenon
<1>4. v <= x
  <2>. DEFINE q == x \div top
  <2>. HIDE DEF x, top
  <2>1. q \in Nat /\ x = top * q + v
    BY <1>1, <1>2, Division, Zenon
  <2>. HIDE DEF q, v
  <2>2. top * q >= 0
    BY <1>2, <2>1
  <2>. QED
    BY <1>1, <1>2, <1>3, <2>1, <2>2
<1>5. CASE n = MOTION_MAX
  <2>1. Counted(n) = MOTION_MAX
    BY <1>0, <1>5 DEF Counted
  <2>. QED
    BY <1>1, <1>2, <1>3, <2>1
<1>6. CASE n # MOTION_MAX
  <2>1. Counted(n) = n + 1 /\ n + 1 \in 1..MOTION_MAX /\ (n + 1) - 1 = n
    BY <1>0, <1>6 DEF Counted
  <2>2. Shift[n + 1] = 4 * Shift[n]
    BY <2>1, ShiftFacts
  <2>3. x < 4 * Shift[n]
    BY <1>2
  <2>. HIDE DEF x, top
  <2>4. v \in Nat
    BY <1>2, <1>3
  <2>. HIDE DEF v
  <2>5. v < Shift[Counted(n)]
    BY <1>1, <1>2, <1>4, <2>1, <2>2, <2>3, <2>4
  <2>. QED
    BY <1>1, <2>4, <2>5 DEF v, x, top
<1>. QED
  BY <1>5, <1>6

-----------------------------------------------------------------------------
(* Sequences.                                                              *)

\* old with new in front of it, and no longer than limit.
Grown(S, new, old, limit) ==
    {r \in Seq(S) : /\ Len(r) = IF Len(old) < limit THEN Len(old) + 1 ELSE limit
                    /\ \A k \in 1..Len(r) : r[k] = IF k = 1 THEN new ELSE old[k - 1]}

LEMMA Remembered ==
    ASSUME NEW S, NEW new \in S, NEW old \in Seq(S), NEW limit \in Nat,
           Len(old) <= limit
    PROVE  Remember(new, old, limit) \in Grown(S, new, old, limit)
<1>. DEFINE all == <<new>> \o old
            n == IF Len(old) < limit THEN Len(old) + 1 ELSE limit
            r == SubSeq(all, 1, n)
<1>1. Len(old) \in Nat
  BY LenProperties
<1>2. <<new>> \in Seq(S) /\ Len(<<new>>) = 1 /\ <<new>>[1] = new
  OBVIOUS
<1>3. /\ all \in Seq(S) /\ Len(all) = 1 + Len(old)
      /\ \A k \in 1..1 + Len(old) : all[k] = IF k <= 1 THEN <<new>>[k] ELSE old[k - 1]
  <2>. DEFINE one == <<new>>
  <2>. HIDE DEF one
  <2>1. one \in Seq(S) /\ Len(one) = 1
    BY <1>2 DEF one
  <2>2. /\ one \o old \in Seq(S) /\ Len(one \o old) = 1 + Len(old)
        /\ \A k \in 1..1 + Len(old) : (one \o old)[k] = IF k <= 1 THEN one[k] ELSE old[k - 1]
    <3>1. /\ one \o old \in Seq(S) /\ Len(one \o old) = Len(one) + Len(old)
          /\ \A k \in 1..Len(one) + Len(old) :
                (one \o old)[k] = IF k <= Len(one) THEN one[k] ELSE old[k - Len(one)]
      BY <2>1, ConcatProperties, Zenon
    <3>. QED
      BY <2>1, <3>1
  <2>. QED
    BY <2>2 DEF one
<1>. HIDE DEF all
<1>4. n \in Nat /\ n <= 1 + Len(old)
  BY <1>1
<1>. HIDE DEF n
<1>5. \A k \in 1..n : all[k] \in S
  BY <1>1, <1>3, <1>4, ElementOfSeq
<1>6. /\ r \in Seq(S) /\ Len(r) = n
      /\ \A k \in 1..n : r[k] = all[k]
  BY <1>4, <1>5, SubSeqProperties, Z3
<1>. HIDE DEF r
<1>7. \A k \in 1..n : r[k] = IF k = 1 THEN new ELSE old[k - 1]
  <2>. SUFFICES ASSUME NEW k \in 1..n
                PROVE  r[k] = IF k = 1 THEN new ELSE old[k - 1]
    OBVIOUS
  <2>1. k \in 1..1 + Len(old) /\ k \in Int /\ k >= 1
    BY <1>1, <1>4
  <2>2. r[k] = IF k <= 1 THEN <<new>>[k] ELSE old[k - 1]
    BY <1>3, <1>6, <2>1
  <2>. QED
    BY <1>2, <2>1, <2>2
<1>8. Remember(new, old, limit) = r
  BY DEF Remember, r, n, all
<1>. QED
  BY <1>6, <1>7, <1>8 DEF n, Grown

\* A sequence without repetitions has as many elements as places.
LEMMA DistinctCount ==
    ASSUME NEW S, NEW s \in Seq(S), \A j, k \in 1..Len(s) : s[j] = s[k] => j = k
    PROVE  Cardinality(ToSet(s)) = Len(s)
<1>. DEFINE n == Len(s)
<1>1. n \in Nat /\ DOMAIN s = 1..n /\ s \in [1..n -> S]
  BY LenProperties
<1>2. IsFiniteSet(1..n) /\ Cardinality(1..n) = n
  <2>. HIDE DEF n
  <2>. DEFINE low == 1
  <2>. HIDE DEF low
  <2>1. low \in Int /\ n \in Int /\ low = 1
    BY <1>1 DEF low
  <2>2. /\ IsFiniteSet(low..n)
        /\ Cardinality(low..n) = IF low > n THEN 0 ELSE n - low + 1
    BY <2>1, FS_Interval
  <2>3. Cardinality(low..n) = n
    BY <1>1, <2>1, <2>2
  <2>. QED
    BY <2>1, <2>2, <2>3
<1>3. ExistsBijection(1..n, ToSet(s))
  <2>1. s \in [1..n -> ToSet(s)]
    BY <1>1 DEF ToSet
  <2>2. \A y \in ToSet(s) : \E k \in 1..n : s[k] = y
    BY <1>1 DEF ToSet
  <2>3. s \in Bijection(1..n, ToSet(s))
    BY <1>1, <2>1, <2>2 DEF Bijection, Injection, Surjection, IsInjective
  <2>. QED
    BY <2>3 DEF ExistsBijection
<1>. QED
  BY <1>2, <1>3, FS_Bijection

-----------------------------------------------------------------------------
(* Ids.  The next id is computed from a whole byte, and so the ids go       *)
(* through a cycle of nine.                                                 *)

IdCycle == <<9, 41, 43, 51, 20, 22, 30, 62, 1>>

\* The place of the id that was given k - 1 messages before the one at p.
Before(p, k) == ((p + 8 * k) % 9) + 1

LEMMA CycleValues ==
    /\ IdCycle[1] = 9 /\ IdCycle[2] = 41 /\ IdCycle[3] = 43
    /\ IdCycle[4] = 51 /\ IdCycle[5] = 20 /\ IdCycle[6] = 22
    /\ IdCycle[7] = 30 /\ IdCycle[8] = 62 /\ IdCycle[9] = 1
BY DEF IdCycle

LEMMA CycleFacts ==
    /\ \A p \in 1..9 : IdCycle[p] \in 1..62
    /\ \A p, q \in 1..9 : IdCycle[p] = IdCycle[q] => p = q
<1>1. \A p \in 1..9 : p \in {1, 2, 3, 4, 5, 6, 7, 8, 9}
  OBVIOUS
<1>2. \A p \in 1..9 : IdCycle[p] \in 1..62
  BY <1>1, CycleValues
<1>3. \A p, q \in 1..9 : IdCycle[p] = IdCycle[q] => p = q
  BY <1>1, CycleValues
<1>. QED
  BY <1>2, <1>3

LEMMA BeforeFacts ==
    ASSUME NEW p \in 1..9
    PROVE  /\ Before(p, 1) = p
           /\ \A k \in Nat : Before(p, k) \in 1..9
           /\ \A k \in Nat : Before((p % 9) + 1, k + 1) = Before(p, k)
           /\ \A k \in Nat : \A j \in 1..k :
                 Before(p, j) = Before(p, k) <=> (k - j) % 9 = 0
<1>1. Before(p, 1) = p
  BY DEF Before
<1>2. \A k \in Nat : Before(p, k) \in 1..9
  BY DEF Before
<1>3. \A k \in Nat : Before((p % 9) + 1, k + 1) = Before(p, k)
  BY DEF Before
<1>4. ASSUME NEW k \in Nat, NEW j \in 1..k
      PROVE  Before(p, j) = Before(p, k) <=> (k - j) % 9 = 0
  <2>. DEFINE d == k - j
  <2>1. d \in Nat /\ p + 8 * k = (p + 8 * j) + 8 * d
    OBVIOUS
  <2>2. p + 8 * j \in Nat
    OBVIOUS
  <2>3. \A a, e \in Nat : a % 9 = (a + 8 * e) % 9 <=> e % 9 = 0
    OBVIOUS
  <2>. HIDE DEF d
  <2>4. (p + 8 * j) % 9 = (p + 8 * k) % 9 <=> d % 9 = 0
    BY <2>1, <2>2, <2>3
  <2>5. Before(p, j) = Before(p, k) <=> (p + 8 * j) % 9 = (p + 8 * k) % 9
    BY DEF Before
  <2>. QED
    BY <2>4, <2>5 DEF d
<1>. QED
  BY <1>1, <1>2, <1>3, <1>4

Records(I, T, B, C, W, N) ==
    [id : I, mote_id : {node_id}, temp : T, battery : B, motionCount : C,
     motions : W, neighbours : N]

LEMMA RecordUpdated ==
    ASSUME NEW I, NEW T, NEW B, NEW C, NEW W, NEW N, NEW r \in Records(I, T, B, C, W, N)
    PROVE  /\ \A i \in I : [r EXCEPT !.id = i] \in Records(I, T, B, C, W, N)
           /\ \A t \in T, b \in B :
                 [r EXCEPT !.temp = t, !.battery = b] \in Records(I, T, B, C, W, N)
           /\ \A c \in C, w \in W :
                 [r EXCEPT !.motionCount = c, !.motions = w] \in Records(I, T, B, C, W, N)
           /\ \A n \in N : [r EXCEPT !.neighbours = n] \in Records(I, T, B, C, W, N)
BY DEF Records

Degrees == -128..127

MessageType ==
    Records(0..255, Degrees, 0..100, 0..MOTION_MAX, Nat, Seq(Neighbour))

Fields(r) ==
    /\ r.id \in 0..255 /\ r.mote_id = node_id /\ r.temp \in Degrees
    /\ r.battery \in 0..100 /\ r.motionCount \in 0..MOTION_MAX
    /\ r.motions \in Nat /\ r.neighbours \in Seq(Neighbour)

LEMMA MessageFields ==
    ASSUME NEW r \in MessageType
    PROVE  Fields(r)
BY DEF MessageType, Records, Fields

LEMMA FieldsAreNumbers ==
    ASSUME NEW r \in MessageType
    PROVE  r.id \in Int /\ r.mote_id \in Int /\ r.battery \in Int /\ r.motionCount \in Int
<1>1. Fields(r)
  BY MessageFields, Zenon
<1>2. node_id \in Int /\ MOTION_MAX \in Int
  BY TelemetryAssumption, Width
<1>. QED
  <2>1. r.id \in Int
    <3>1. r.id \in 0..255
      BY <1>1, Zenon DEF Fields
    <3>. QED
      BY <3>1
  <2>2. r.mote_id \in Int
    BY <1>1, <1>2 DEF Fields
  <2>3. r.battery \in Int
    <3>1. r.battery \in 0..100
      BY <1>1, Zenon DEF Fields
    <3>. QED
      BY <3>1
  <2>4. r.motionCount \in Int
    BY <1>1, <1>2 DEF Fields
  <2>. QED
    BY <2>1, <2>2, <2>3, <2>4

LEMMA MessageUpdated ==
    ASSUME NEW r \in MessageType
    PROVE  /\ \A i \in 0..255 : [r EXCEPT !.id = i] \in MessageType
           /\ \A t \in Degrees, b \in 0..100 :
                 [r EXCEPT !.temp = t, !.battery = b] \in MessageType
           /\ \A c \in 0..MOTION_MAX, w \in Nat :
                 [r EXCEPT !.motionCount = c, !.motions = w] \in MessageType
           /\ \A n \in Seq(Neighbour) : [r EXCEPT !.neighbours = n] \in MessageType
<1>. DEFINE A == 0..255
            B == 0..100
            C == 0..MOTION_MAX
            N == Seq(Neighbour)
<1>. HIDE DEF A, B, C, N
<1>1. MessageType = Records(A, Degrees, B, C, Nat, N)
  BY DEF MessageType, A, B, C, N
<1>2. r \in Records(A, Degrees, B, C, Nat, N)
  BY <1>1
<1>3. \A i \in A : [r EXCEPT !.id = i] \in MessageType
  BY <1>1, <1>2, RecordUpdated, Zenon
<1>4. \A t \in Degrees, b \in B : [r EXCEPT !.temp = t, !.battery = b] \in MessageType
  BY <1>1, <1>2, RecordUpdated, Zenon
<1>5. \A c \in C, w \in Nat :
         [r EXCEPT !.motionCount = c, !.motions = w] \in MessageType
  BY <1>1, <1>2, RecordUpdated, Zenon
<1>6. \A n \in N : [r EXCEPT !.neighbours = n] \in MessageType
  BY <1>1, <1>2, RecordUpdated, Zenon
<1>. QED
  BY <1>3, <1>4, <1>5, <1>6 DEF A, B, C, N

\* The byte that makes the next id the one after place p.
IdAt(p) == 4 * (IdCycle[p] + 1)

LEMMA NumberedId ==
    ASSUME m \in MessageType, NEW p \in 1..9, m.id = IdAt(p)
    PROVE  /\ Numbered \in MessageType
           /\ GetMsgId(Numbered) = IdCycle[(p % 9) + 1]
           /\ Numbered = [m EXCEPT !.id = Numbered.id]
<1>. DEFINE n == m.id + 1
            given == IF n > 63 THEN n % 63 ELSE n
<1>1. given = IdCycle[(p % 9) + 1]
  <2>1. p \in {1, 2, 3, 4, 5, 6, 7, 8, 9}
    OBVIOUS
  <2>2. n = 4 * IdCycle[p] + 5
    <3>1. IdCycle[p] \in 1..62
      BY CycleFacts
    <3>. QED
      BY <3>1 DEF IdAt
  <2>. HIDE DEF n
  <2>3. CASE p = 1
    BY <2>2, <2>3, CycleValues
  <2>4. CASE p = 2
    BY <2>2, <2>4, CycleValues
  <2>5. CASE p = 3
    BY <2>2, <2>5, CycleValues
  <2>6. CASE p = 4
    BY <2>2, <2>6, CycleValues
  <2>7. CASE p = 5
    BY <2>2, <2>7, CycleValues
  <2>8. CASE p = 6
    BY <2>2, <2>8, CycleValues
  <2>9. CASE p = 7
    BY <2>2, <2>9, CycleValues
  <2>10. CASE p = 8
    BY <2>2, <2>10, CycleValues
  <2>11. CASE p = 9
    BY <2>2, <2>11, CycleValues
  <2>. QED
    BY <2>1, <2>3, <2>4, <2>5, <2>6, <2>7, <2>8, <2>9, <2>10, <2>11
<1>2. given \in 1..62
  <2>1. (p % 9) + 1 \in 1..9
    OBVIOUS
  <2>. QED
    BY <1>1, <2>1, CycleFacts
<1>3. Numbered = [m EXCEPT !.id = 4 * given]
  <2>1. Numbered = [m EXCEPT !.id = 4 * given + 0]
    BY DEF Numbered, SetMsgId, IdLimit, MSG_MESSAGE
  <2>. HIDE DEF given
  <2>2. 4 * given + 0 = 4 * given
    BY <1>2
  <2>. QED
    BY <2>1, <2>2
<1>. HIDE DEF given
<1>4. 4 * given \in 0..255 /\ (4 * given) \div 4 = given
  BY <1>2
<1>5. Numbered \in MessageType
  <2>1. \A v \in 0..255 : [m EXCEPT !.id = v] \in MessageType
    BY MessageUpdated, Zenon
  <2>. QED
    BY <1>3, <1>4, <2>1, Zenon
<1>6. Numbered.id = 4 * given
  BY <1>3 DEF MessageType, Records
<1>. QED
  BY <1>1, <1>3, <1>4, <1>5, <1>6 DEF GetMsgId

\* An empty record with its id.
Fresh(id) == [Zero(node_id) EXCEPT !.id = id]

LEMMA ResetResult ==
    ASSUME NEW r, r.mote_id = node_id, GetMsgId(r) \in 0..62
    PROVE  ResetMessage(r) = Fresh(4 * (GetMsgId(r) + 1))
<1>. DEFINE g == GetMsgId(r)
<1>1. 4 * (IF g + 1 > IdLimit THEN (g + 1) % IdLimit ELSE g + 1) + MSG_MESSAGE
          = 4 * (g + 1)
  BY DEF IdLimit, MSG_MESSAGE
<1>. HIDE DEF g
<1>2. Cleared(r) = [Zero(node_id) EXCEPT !.id = r.id]
  BY DEF Cleared
<1>3. ResetMessage(r) = [Cleared(r) EXCEPT !.id = 4 * (g + 1)]
  BY <1>1 DEF ResetMessage, SetMsgId, g
<1>. QED
  BY <1>2, <1>3 DEF Fresh, Zero, g

-----------------------------------------------------------------------------
(* The invariant of the measurements.                                      *)

MotionsHeld ==
    /\ motionsRead \in Seq(Motion) /\ Len(motionsRead) = m.motionCount
    /\ \A k \in 1..m.motionCount : motionsRead[k] = MotionAt(m.motions, k)

NeighboursHeld ==
    /\ Len(m.neighbours) <= MAX_NEIGHBOURS
    /\ \A j, k \in 1..Len(m.neighbours) :
          m.neighbours[j] = m.neighbours[k] => j = k

IdsHeld ==
    /\ idsSent \in Seq(0..IdLimit) /\ Len(idsSent) <= IDS_KEPT
    /\ \E p \in 1..9 : /\ m.id = IdAt(p)
                       /\ \A k \in 1..Len(idsSent) :
                             idsSent[k] = IdCycle[Before(p, k)]

MeasInv ==
    /\ m \in MessageType /\ m.motions < Shift[m.motionCount]
    /\ listening \in BOOLEAN
    /\ MotionsHeld /\ NeighboursHeld /\ IdsHeld

LEMMA EmptyFits ==
    ASSUME NEW id \in 0..255
    PROVE  /\ Fresh(id) \in MessageType /\ Fresh(id).id = id
           /\ Fresh(id).motionCount = 0 /\ Fresh(id).motions = 0
           /\ Fresh(id).neighbours = <<>> /\ Fresh(id).motions < Shift[0]
<1>1. 0 \in 0..MOTION_MAX /\ 0 \in 0..100 /\ 0 \in Nat
  BY Width
<1>2. 0 \in Degrees
  BY DEF Degrees
<1>3. <<>> \in Seq(Neighbour)
  OBVIOUS
<1>4. Zero(node_id) \in Records({0}, Degrees, 0..100, 0..MOTION_MAX, Nat, Seq(Neighbour))
  BY <1>1, <1>2, <1>3 DEF Zero, Records
<1>5. Fresh(id) = [id |-> id, mote_id |-> node_id, temp |-> 0, battery |-> 0,
                   motionCount |-> 0, motions |-> 0, neighbours |-> <<>>]
  BY DEF Fresh, Zero
<1>6. Fresh(id) \in MessageType
  <2>. DEFINE B == 0..255
              C == 0..100
              D == 0..MOTION_MAX
              E == Seq(Neighbour)
  <2>. HIDE DEF B, C, D, E
  <2>1. id \in B /\ 0 \in Degrees /\ 0 \in C /\ 0 \in D /\ <<>> \in E
    BY <1>1, <1>2, <1>3 DEF B, C, D, E
  <2>2. Fresh(id) \in Records(B, Degrees, C, D, Nat, E)
    BY <1>5, <2>1 DEF Records
  <2>. QED
    BY <2>2 DEF B, C, D, E, MessageType
<1>7. 0 < Shift[0]
  BY ShiftFacts
<1>. QED
  BY <1>5, <1>6, <1>7

\* A message sent or a record reset has nothing in it but its id.
LEMMA EmptyHeld ==
    ASSUME NEW id \in 0..255, m' = Fresh(id), motionsRead' = <<>>
    PROVE  /\ (m \in MessageType)' /\ (m.motions < Shift[m.motionCount])'
           /\ MotionsHeld' /\ NeighboursHeld'
<1>1. /\ m' \in MessageType /\ m'.motionCount = 0 /\ m'.motions = 0
      /\ m'.neighbours = <<>> /\ m'.motions < Shift[0]
  BY EmptyFits, Zenon
<1>2. MotionsHeld'
  BY <1>1 DEF MotionsHeld
<1>3. NeighboursHeld'
  BY <1>1, Width DEF NeighboursHeld
<1>. QED
  BY <1>1, <1>2, <1>3

LEMMA MeasInit == TelemetryInit => MeasInv
<1>. SUFFICES ASSUME TelemetryInit PROVE MeasInv
  OBVIOUS
<1>1. m = Fresh(8)
  <2>1. ResetMessage(Zero(node_id)) = Fresh(4)
    <3>1. Zero(node_id).mote_id = node_id /\ GetMsgId(Zero(node_id)) = 0
      BY DEF Zero, GetMsgId
    <3>2. ResetMessage(Zero(node_id)) = Fresh(4 * (0 + 1))
      BY <3>1, ResetResult
    <3>. QED
      BY <3>2
  <2>2. Fresh(4).mote_id = node_id /\ GetMsgId(Fresh(4)) = 1
    BY DEF Fresh, Zero, GetMsgId
  <2>3. ResetMessage(Fresh(4)) = Fresh(4 * (1 + 1))
    BY <2>2, ResetResult
  <2>. QED
    BY <2>1, <2>3 DEF TelemetryInit
<1>2. /\ m \in MessageType /\ m.id = 8 /\ m.motionCount = 0 /\ m.motions = 0
      /\ m.neighbours = <<>> /\ m.motions < Shift[0]
  BY <1>1, EmptyFits
<1>3. MotionsHeld
  BY <1>2 DEF MotionsHeld, TelemetryInit
<1>4. NeighboursHeld
  BY <1>2, Width DEF NeighboursHeld
<1>5. IdsHeld
  <2>1. 9 \in 1..9 /\ m.id = IdAt(9)
    BY <1>2, CycleValues DEF IdAt
  <2>2. idsSent = <<>> /\ Len(idsSent) = 0 /\ idsSent \in Seq(0..IdLimit)
    BY DEF TelemetryInit
  <2>3. Len(idsSent) <= IDS_KEPT
    BY <2>2, TelemetryAssumption
  <2>4. \A k \in 1..Len(idsSent) : idsSent[k] = IdCycle[Before(9, k)]
    BY <2>2
  <2>. QED
    BY <2>1, <2>2, <2>3, <2>4 DEF IdsHeld
<1>. QED
  BY <1>2, <1>3, <1>4, <1>5 DEF MeasInv, TelemetryInit

LEMMA MovementReadKeeps ==
    ASSUME MeasInv, NEW motion \in Motion, MovementRead(motion)
    PROVE  MeasInv'
<1>. DEFINE w == (m.motions * 4 + (motion % 4)) % Shift[MOTION_MAX]
            c == Counted(m.motionCount)
<1>0. motion \in 0..3 /\ motion \in 0..2
  BY TelemetryAssumption
<1>. m \in MessageType
  BY DEF MeasInv
<1>1. /\ m.motionCount \in 0..MOTION_MAX /\ m.motions \in Nat
      /\ m.neighbours \in Seq(Neighbour) /\ MOTION_MAX \in Nat
  <2>1. /\ m.motionCount \in 0..MOTION_MAX /\ m.motions \in Nat
        /\ m.neighbours \in Seq(Neighbour)
    <3>1. Fields(m)
      BY MessageFields, Zenon
    <3>. QED
      BY <3>1 DEF Fields
  <2>. QED
    BY <2>1, Width
<1>2. w \in Nat /\ w < Shift[c]
  BY <1>0, <1>1, WordGrows DEF MeasInv
<1>3. c \in 0..MOTION_MAX
  BY <1>1 DEF Counted
<1>4. m' = [m EXCEPT !.motionCount = c, !.motions = w]
  BY DEF MovementRead, AddMotion
<1>5. \A k \in 1..MOTION_MAX :
         MotionAt(w, k) = IF k = 1 THEN motion ELSE MotionAt(m.motions, k - 1)
  BY <1>0, <1>1, MotionPutIn, Zenon
<1>. HIDE DEF w, c
<1>6. m' \in MessageType
  BY <1>2, <1>3, <1>4, MessageUpdated, Zenon
<1>7. /\ m'.motionCount = c /\ m'.motions = w /\ m'.neighbours = m.neighbours
      /\ m'.id = m.id
  BY <1>4 DEF MeasInv, MessageType, Records
<1>8. MotionsHeld'
  <2>. DEFINE r == Remember(motion, motionsRead, MOTION_MAX)
  <2>1. Len(motionsRead) = m.motionCount /\ motionsRead \in Seq(Motion)
    BY DEF MeasInv, MotionsHeld
  <2>2. Len(motionsRead) <= MOTION_MAX
    BY <1>1, <2>1
  <2>3. /\ r \in Seq(Motion)
        /\ Len(r) = IF Len(motionsRead) < MOTION_MAX THEN Len(motionsRead) + 1 ELSE MOTION_MAX
        /\ \A k \in 1..Len(r) : r[k] = IF k = 1 THEN motion ELSE motionsRead[k - 1]
    <3>1. r \in Grown(Motion, motion, motionsRead, MOTION_MAX)
      BY <1>1, <2>1, <2>2, Remembered, Zenon
    <3>. HIDE DEF r
    <3>. QED
      BY <3>1 DEF Grown
  <2>4. motionsRead' = r
    BY DEF MovementRead
  <2>. HIDE DEF r
  <2>5. Len(r) = c
    BY <1>1, <2>1, <2>3 DEF c, Counted
  <2>6. ASSUME NEW k \in 1..c PROVE r[k] = MotionAt(w, k)
    <3>1. k \in 1..MOTION_MAX
      BY <1>1, <1>3
    <3>2. CASE k = 1
      BY <1>5, <2>3, <2>5, <3>1, <3>2
    <3>3. CASE k # 1
      <4>1. k - 1 \in 1..m.motionCount
        BY <1>1, <3>3 DEF c, Counted
      <4>2. motionsRead[k - 1] = MotionAt(m.motions, k - 1)
        BY <4>1 DEF MeasInv, MotionsHeld
      <4>. QED
        BY <1>5, <2>3, <2>5, <3>1, <3>3, <4>2
    <3>. QED
      BY <3>2, <3>3
  <2>. QED
    BY <1>7, <2>3, <2>4, <2>5, <2>6 DEF MotionsHeld
<1>9. NeighboursHeld'
  BY <1>7 DEF MeasInv, NeighboursHeld
<1>10. IdsHeld'
  BY <1>7 DEF MeasInv, IdsHeld, MovementRead
<1>. QED
  BY <1>2, <1>6, <1>7, <1>8, <1>9, <1>10 DEF MeasInv, MovementRead

LEMMA TemperatureReadKeeps ==
    ASSUME MeasInv, NEW t \in Temperature, TemperatureRead(t)
    PROVE  MeasInv'
<1>. m \in MessageType
  BY DEF MeasInv
<1>0. Temperature \subseteq Degrees \X (0..100)
  BY TelemetryAssumption, Zenon DEF Degrees
<1>1. t[1] \in Degrees /\ t[2] \in 0..100
  BY <1>0
<1>2. m' \in MessageType
  BY <1>1, MessageUpdated, Zenon DEF TemperatureRead
<1>3. /\ m'.motionCount = m.motionCount /\ m'.motions = m.motions
      /\ m'.neighbours = m.neighbours /\ m'.id = m.id
  BY DEF MeasInv, MessageType, Records, TemperatureRead
<1>4. MotionsHeld' /\ NeighboursHeld' /\ IdsHeld'
  BY <1>3 DEF MeasInv, MotionsHeld, NeighboursHeld, IdsHeld, TemperatureRead
<1>. QED
  BY <1>2, <1>3, <1>4 DEF MeasInv, TemperatureRead

\* What another list of neighbours leaves as it was.
LEMMA NeighboursSet ==
    ASSUME MeasInv, NEW n \in Seq(Neighbour), m' = [m EXCEPT !.neighbours = n],
           UNCHANGED <<motionsRead, idsSent>>
    PROVE  /\ (m \in MessageType)' /\ (m.motions < Shift[m.motionCount])'
           /\ MotionsHeld' /\ IdsHeld' /\ m'.neighbours = n
<1>. m \in MessageType
  BY DEF MeasInv
<1>1. m' \in MessageType
  BY MessageUpdated, Zenon
<1>2. /\ m'.motionCount = m.motionCount /\ m'.motions = m.motions
      /\ m'.neighbours = n /\ m'.id = m.id
  BY DEF MeasInv, MessageType, Records
<1>3. MotionsHeld' /\ IdsHeld'
  BY <1>2 DEF MeasInv, MotionsHeld, IdsHeld
<1>. QED
  BY <1>1, <1>2, <1>3 DEF MeasInv

LEMMA NeighbourHeardKeeps ==
    ASSUME MeasInv, NEW from \in Neighbour, NeighbourHeard(from)
    PROVE  MeasInv'
<1>. DEFINE old == m.neighbours
            fits == Len(old) < MAX_NEIGHBOURS /\ \A k \in DOMAIN old : old[k] # from
            n == IF fits THEN Append(old, from) ELSE old
<1>. m \in MessageType
  BY DEF MeasInv
<1>1. /\ old \in Seq(Neighbour) /\ Len(old) <= MAX_NEIGHBOURS
      /\ \A j, k \in 1..Len(old) : old[j] = old[k] => j = k
  <2>1. Fields(m)
    BY MessageFields, Zenon
  <2>. QED
    BY <2>1 DEF Fields, MeasInv, NeighboursHeld
<1>2. m' = [m EXCEPT !.neighbours = n]
  BY DEF NeighbourHeard, AddNeighbour
<1>. HIDE DEF old
<1>3. DOMAIN old = 1..Len(old) /\ Len(old) \in Nat
  BY <1>1, LenProperties
<1>4. /\ n \in Seq(Neighbour) /\ Len(n) <= MAX_NEIGHBOURS
      /\ \A j, k \in 1..Len(n) : n[j] = n[k] => j = k
  <2>1. CASE fits
    <3>1. /\ n \in Seq(Neighbour) /\ Len(n) = Len(old) + 1
          /\ \A k \in 1..Len(old) : n[k] = old[k]
          /\ n[Len(old) + 1] = from
      BY <1>1, <2>1, AppendProperties
    <3>. HIDE DEF n
    <3>2. Len(n) <= MAX_NEIGHBOURS
      BY <1>3, <2>1, <3>1, Width
    <3>3. \A k \in 1..Len(old) : n[k] # from
      BY <1>3, <2>1, <3>1
    <3>4. \A j, k \in 1..Len(n) : n[j] = n[k] => j = k
      <4>1. \A j \in 1..Len(n) : j \in 1..Len(old) \/ j = Len(old) + 1
        BY <1>3, <3>1
      <4>. QED
        BY <1>1, <3>1, <3>3, <4>1
    <3>. QED
      BY <3>1, <3>2, <3>4
  <2>2. CASE ~ fits
    BY <1>1, <2>2
  <2>. QED
    BY <2>1, <2>2
<1>. HIDE DEF n
<1>5. /\ (m \in MessageType)' /\ (m.motions < Shift[m.motionCount])'
      /\ MotionsHeld' /\ IdsHeld' /\ m'.neighbours = n
  <2>1. UNCHANGED <<motionsRead, idsSent>>
    BY DEF NeighbourHeard
  <2>. QED
    BY <1>2, <1>4, <2>1, NeighboursSet, Zenon
<1>6. NeighboursHeld'
  BY <1>4, <1>5 DEF NeighboursHeld
<1>. QED
  BY <1>5, <1>6 DEF MeasInv, NeighbourHeard

LEMMA FlushNeighboursKeeps ==
    ASSUME MeasInv, FlushNeighbours
    PROVE  MeasInv'
<1>1. <<>> \in Seq(Neighbour)
  OBVIOUS
<1>2. m' = [m EXCEPT !.neighbours = <<>>] /\ UNCHANGED <<listening, motionsRead, idsSent>>
  BY DEF FlushNeighbours
<1>3. /\ (m \in MessageType)' /\ (m.motions < Shift[m.motionCount])'
      /\ MotionsHeld' /\ IdsHeld' /\ m'.neighbours = <<>>
  BY <1>1, <1>2, NeighboursSet
<1>4. NeighboursHeld'
  BY <1>3, Width DEF NeighboursHeld
<1>. QED
  BY <1>2, <1>3, <1>4 DEF MeasInv

LEMMA MessageSentKeeps ==
    ASSUME MeasInv, MessageSent
    PROVE  MeasInv'
<1>1. PICK p \in 1..9 : /\ m.id = IdAt(p)
                        /\ \A k \in 1..Len(idsSent) :
                              idsSent[k] = IdCycle[Before(p, k)]
  BY DEF MeasInv, IdsHeld
<1>. DEFINE q == (p % 9) + 1
            g == IdCycle[q]
<1>2. q \in 1..9
  OBVIOUS
<1>3. g \in 1..62
  BY <1>2, CycleFacts
<1>4. Numbered \in MessageType /\ GetMsgId(Numbered) = g
  BY <1>1, NumberedId DEF MeasInv
<1>. HIDE DEF g
<1>5. m' = Fresh(IdAt(q))
  <2>1. Numbered.mote_id = node_id
    <3>1. Fields(Numbered)
      BY <1>4, MessageFields, Zenon
    <3>. QED
      BY <3>1 DEF Fields
  <2>2. ResetMessage(Numbered) = Fresh(4 * (g + 1))
    BY <1>3, <1>4, <2>1, ResetResult
  <2>. QED
    BY <2>2 DEF MessageSent, IdAt, g
<1>6. IdAt(q) \in 0..255
  BY <1>3 DEF IdAt, g
<1>7. /\ (m \in MessageType)' /\ (m.motions < Shift[m.motionCount])'
      /\ MotionsHeld' /\ NeighboursHeld'
  <2>1. motionsRead' = <<>>
    BY DEF MessageSent
  <2>. HIDE DEF q
  <2>. QED
    BY <1>5, <1>6, <2>1, EmptyHeld, Zenon
<1>8. IdsHeld'
  <2>. DEFINE r == Remember(g, idsSent, IDS_KEPT)
  <2>1. idsSent \in Seq(0..IdLimit) /\ Len(idsSent) <= IDS_KEPT /\ IDS_KEPT \in Nat
    BY TelemetryAssumption DEF MeasInv, IdsHeld
  <2>2. g \in 0..IdLimit
    BY <1>3 DEF IdLimit
  <2>3. /\ r \in Seq(0..IdLimit)
        /\ Len(r) = IF Len(idsSent) < IDS_KEPT THEN Len(idsSent) + 1 ELSE IDS_KEPT
        /\ \A k \in 1..Len(r) : r[k] = IF k = 1 THEN g ELSE idsSent[k - 1]
    <3>1. r \in Grown(0..IdLimit, g, idsSent, IDS_KEPT)
      BY <2>1, <2>2, Remembered, Zenon
    <3>. HIDE DEF r
    <3>. QED
      BY <3>1 DEF Grown
  <2>4. idsSent' = r
    BY <1>4 DEF MessageSent
  <2>. HIDE DEF r
  <2>5. Len(idsSent) \in Nat
    BY <2>1, LenProperties
  <2>6. Len(r) <= IDS_KEPT
    BY <2>1, <2>3, <2>5
  <2>7. ASSUME NEW k \in 1..Len(r) PROVE r[k] = IdCycle[Before(q, k)]
    <3>1. CASE k = 1
      <4>1. Before(q, 1) = q
        BY <1>2, BeforeFacts
      <4>. QED
        BY <2>3, <3>1, <4>1 DEF g
    <3>2. CASE k # 1
      <4>1. k - 1 \in 1..Len(idsSent) /\ k - 1 \in Nat /\ (k - 1) + 1 = k
        <5>. DEFINE n == Len(r)
        <5>1. n \in Nat /\ n <= Len(idsSent) + 1 /\ k \in 1..n
          BY <2>1, <2>3, <2>5
        <5>. HIDE DEF n
        <5>. QED
          BY <2>5, <3>2, <5>1
      <4>2. Before(q, k) = Before(p, k - 1)
        <5>1. Before(q, (k - 1) + 1) = Before(p, k - 1)
          BY <4>1, BeforeFacts, Zenon
        <5>. QED
          BY <4>1, <5>1
      <4>. QED
        BY <1>1, <2>3, <3>2, <4>1, <4>2
    <3>. QED
      BY <3>1, <3>2
  <2>8. m'.id = IdAt(q)
    <3>. HIDE DEF q
    <3>. QED
      BY <1>5, <1>6, EmptyFits
  <2>. HIDE DEF q
  <2>. QED
    BY <1>2, <2>3, <2>4, <2>6, <2>7, <2>8 DEF IdsHeld
<1>. QED
  BY <1>7, <1>8 DEF MeasInv, MessageSent

LEMMA MeasStep == MeasInv /\ [TelemetryNext]_telemetryVars => MeasInv'
<1>. SUFFICES ASSUME MeasInv, [TelemetryNext]_telemetryVars PROVE MeasInv'
  OBVIOUS
<1>1. ASSUME NEW motion \in Motion, MovementRead(motion) PROVE MeasInv'
  BY <1>1, MovementReadKeeps
<1>2. ASSUME NEW t \in Temperature, TemperatureRead(t) PROVE MeasInv'
  BY <1>2, TemperatureReadKeeps
<1>3. ASSUME NEW from \in Neighbour, NeighbourHeard(from) PROVE MeasInv'
  BY <1>3, NeighbourHeardKeeps
<1>4. CASE Sense \/ Advertise
  <2>1. listening' \in BOOLEAN /\ UNCHANGED <<m, motionsRead, idsSent>>
    BY <1>4 DEF Sense, Advertise
  <2>. QED
    BY <2>1 DEF MeasInv, MotionsHeld, NeighboursHeld, IdsHeld
<1>5. CASE FlushNeighbours
  BY <1>5, FlushNeighboursKeeps
<1>6. CASE MessageSent
  BY <1>6, MessageSentKeeps
<1>7. CASE UNCHANGED telemetryVars
  BY <1>7 DEF telemetryVars, MeasInv, MotionsHeld, NeighboursHeld, IdsHeld
<1>. QED
  BY <1>1, <1>2, <1>3, <1>4, <1>5, <1>6, <1>7 DEF TelemetryNext

\* The measurements fit the record, in every reachable state of every mote
\* (krava.c:60-116, 394-418).
THEOREM TelemetryInvariance == TelemetrySpec => []MeasInv
<1>. QED
  BY MeasInit, MeasStep, PTL DEF TelemetrySpec

\* The record, the open channel and the history have their types
\* (libmessage.h, krava.c).
THEOREM TelemetryTypeCorrect == TelemetrySpec => []TelemetryTypeOK
<1>1. MeasInv => TelemetryTypeOK
  <2>. SUFFICES ASSUME MeasInv PROVE TelemetryTypeOK
    OBVIOUS
  <2>. m \in MessageType
    BY DEF MeasInv
  <2>1. /\ m.id \in 0..255 /\ m.mote_id = node_id
        /\ m.motionCount \in 0..MOTION_MAX /\ m.motions \in Nat
        /\ m.neighbours \in Seq(Neighbour)
    <3>1. Fields(m)
      BY MessageFields, Zenon
    <3>. QED
      BY <3>1 DEF Fields
  <2>2. m.motions \in 0..Shift[MOTION_MAX] - 1
    <3>1. MOTION_MAX \in 0..MOTION_MAX
      BY Width
    <3>2. Shift[m.motionCount] <= Shift[MOTION_MAX]
      BY <2>1, <3>1, ShiftGrows, Zenon
    <3>3. Shift[m.motionCount] \in Nat /\ Shift[MOTION_MAX] \in Nat
      BY <2>1, <3>1, ShiftFacts
    <3>. QED
      BY <2>1, <3>2, <3>3 DEF MeasInv
  <2>3. 0..255 = 0..BYTE - 1
    BY DEF BYTE
  <2>. QED
    BY <2>1, <2>2, <2>3 DEF MeasInv, MotionsHeld, NeighboursHeld, IdsHeld, TelemetryTypeOK
<1>. QED
  BY <1>1, TelemetryInvariance, PTL

\* The motions of a message are those read since the last one, the newest first
\* (gateway.c:257 takes the first), however many were read.
THEOREM NewestMotionsHolds == TelemetrySpec => []NewestMotions
<1>1. MeasInv => NewestMotions
  <2>. SUFFICES ASSUME MeasInv PROVE NewestMotions
    OBVIOUS
  <2>. DEFINE n == m.motionCount
              here == [k \in 1..n |-> MotionAt(m.motions, k)]
  <2>1. MotionArray(m) = here
    BY DEF MotionArray, MotionAt
  <2>2. /\ motionsRead \in Seq(Motion) /\ Len(motionsRead) = n
        /\ \A k \in 1..n : motionsRead[k] = MotionAt(m.motions, k)
    BY DEF MeasInv, MotionsHeld
  <2>3. motionsRead = [k \in 1..n |-> motionsRead[k]]
    BY <2>2, LenProperties
  <2>. QED
    BY <2>1, <2>2, <2>3 DEF NewestMotions
<1>. QED
  BY <1>1, TelemetryInvariance, PTL

\* A neighbour is named once, though it says "Hello" again and again; the score
\* of a head and the members of a cluster count on it (gateway.c:332, 388).
THEOREM NeighboursDistinctHolds == TelemetrySpec => []NeighboursDistinct
<1>1. MeasInv => NeighboursDistinct
  <2>. SUFFICES ASSUME MeasInv PROVE NeighboursDistinct
    OBVIOUS
  <2>. m \in MessageType
    BY DEF MeasInv
  <2>1. m.neighbours \in Seq(Neighbour)
    <3>1. Fields(m)
      BY MessageFields, Zenon
    <3>. QED
      BY <3>1 DEF Fields
  <2>. QED
    BY <2>1, DistinctCount DEF MeasInv, NeighboursHeld, NeighboursDistinct
<1>. QED
  BY <1>1, TelemetryInvariance, PTL

\* However many messages are kept, the ids of two are the same exactly if the
\* number of messages between them is a multiple of nine (krava.c:387,
\* libmessage.c:23-33): no more than nine that wait can be told apart.
THEOREM IdsRecurHolds == TelemetrySpec => []IdsRecur
<1>1. MeasInv => IdsRecur
  <2>. SUFFICES ASSUME MeasInv PROVE IdsRecur
    OBVIOUS
  <2>1. PICK p \in 1..9 : \A k \in 1..Len(idsSent) :
                             idsSent[k] = IdCycle[Before(p, k)]
    BY DEF MeasInv, IdsHeld
  <2>2. idsSent \in Seq(0..IdLimit)
    BY DEF MeasInv, IdsHeld
  <2>3. Len(idsSent) \in Nat /\ DOMAIN idsSent = 1..Len(idsSent)
    BY <2>2, LenProperties
  <2>4. ASSUME NEW k \in DOMAIN idsSent, NEW j \in 1..k
        PROVE  idsSent[j] = idsSent[k] <=> (k - j) % 9 = 0
    <3>1. k \in 1..Len(idsSent) /\ j \in 1..Len(idsSent) /\ k \in Nat /\ j \in Nat
      BY <2>3
    <3>2. idsSent[j] = IdCycle[Before(p, j)] /\ idsSent[k] = IdCycle[Before(p, k)]
      BY <2>1, <3>1
    <3>3. Before(p, j) \in 1..9 /\ Before(p, k) \in 1..9
      BY <3>1, BeforeFacts
    <3>4. idsSent[j] = idsSent[k] <=> Before(p, j) = Before(p, k)
      BY <3>2, <3>3, CycleFacts
    <3>. QED
      BY <3>1, <3>4, BeforeFacts
  <2>. QED
    BY <2>4 DEF IdsRecur
<1>. QED
  BY <1>1, TelemetryInvariance, PTL

-----------------------------------------------------------------------------
(* The packet.                                                             *)

\* Two sequences one behind the other.
Joined(S, a, b) ==
    {w \in Seq(S) : /\ Len(w) = Len(a) + Len(b)
                    /\ \A k \in 1..Len(a) : w[k] = a[k]
                    /\ \A k \in 1..Len(b) : w[Len(a) + k] = b[k]}

LEMMA JoinedFacts ==
    ASSUME NEW S, NEW a \in Seq(S), NEW b \in Seq(S)
    PROVE  a \o b \in Joined(S, a, b)
<1>1. Len(a) \in Nat /\ Len(b) \in Nat
  BY LenProperties
<1>2. /\ a \o b \in Seq(S) /\ Len(a \o b) = Len(a) + Len(b)
      /\ \A i \in 1..Len(a) + Len(b) :
            (a \o b)[i] = IF i <= Len(a) THEN a[i] ELSE b[i - Len(a)]
  BY ConcatProperties, Zenon
<1>. DEFINE w == a \o b
<1>. HIDE DEF w
<1>3. \A k \in 1..Len(a) : w[k] = a[k]
  BY <1>1, <1>2 DEF w
<1>4. ASSUME NEW k \in 1..Len(b) PROVE w[Len(a) + k] = b[k]
  <2>1. Len(a) + k \in 1..Len(a) + Len(b) /\ ~(Len(a) + k <= Len(a))
        /\ (Len(a) + k) - Len(a) = k
    BY <1>1
  <2>. QED
    BY <1>2, <2>1 DEF w
<1>. QED
  BY <1>2, <1>3, <1>4 DEF Joined, w

LEMMA MotionBytesFit ==
    ASSUME NEW n \in 0..MOTION_MAX
    PROVE  /\ MotionBytes(n) \in 1..MOTION_MAX \div 4
           /\ n <= 4 * MotionBytes(n) /\ 4 * MotionBytes(n) <= MOTION_MAX
<1>1. PICK j \in 1..8 : MOTION_MAX = 4 * j
  BY Width
<1>. QED
  BY <1>1 DEF MotionBytes

\* A degree is a byte with a sign.
LEMMA DegreesFacts ==
    ASSUME NEW d \in Degrees
    PROVE  /\ d \in Int /\ d % 256 \in 0..255
           /\ d = IF d % 256 < 128 THEN d % 256 ELSE (d % 256) - 256
<1>1. d \in Int /\ -128 <= d /\ d <= 127
  BY DEF Degrees
<1>2. d % 256 \in 0..255
  BY <1>1
<1>3. CASE d >= 0
  <2>1. d % 256 = d
    BY <1>1, <1>3
  <2>. QED
    BY <1>1, <1>3, <2>1
<1>4. CASE d < 0
  <2>1. d % 256 = d + 256
    BY <1>1, <1>4
  <2>. QED
    BY <1>1, <1>4, <2>1
<1>. QED
  BY <1>1, <1>2, <1>3, <1>4

\* Where everything is in the packet of a record.
LEMMA Packet ==
    ASSUME NEW r \in MessageType
    PROVE  LET w == Encode(r)
               b == MotionBytes(r.motionCount)
               n == Len(r.neighbours)
           IN  /\ w \in Seq(Int) /\ Len(w) = 6 + b + n
               /\ w[1] = r.id /\ w[2] = r.mote_id /\ w[3] = r.temp % 256
               /\ w[4] = r.battery /\ w[5] = r.motionCount
               /\ \A k \in 1..b : w[5 + k] = WordByte(r.motions, k)
               /\ w[6 + b] = n
               /\ \A k \in 1..n : w[6 + b + k] = r.neighbours[k]
<1>1. /\ r.id \in 0..255 /\ r.mote_id = node_id /\ r.temp \in Degrees
      /\ r.battery \in 0..100 /\ r.motionCount \in 0..MOTION_MAX
      /\ r.motions \in Nat /\ r.neighbours \in Seq(Neighbour)
  <2>1. Fields(r)
    BY MessageFields, Zenon
  <2>. QED
    BY <2>1 DEF Fields
<1>. DEFINE b == MotionBytes(r.motionCount)
            n == Len(r.neighbours)
            head == <<r.id, r.mote_id, r.temp % BYTE, r.battery, r.motionCount>>
            bytes == [k \in 1..b |-> WordByte(r.motions, k)]
            count == <<n>>
            u == head \o bytes
            v == u \o count
            w == v \o r.neighbours
<1>2. b \in 1..MOTION_MAX \div 4 /\ 4 * b <= MOTION_MAX
  BY <1>1, MotionBytesFit, Zenon
<1>3. b \in Nat
  BY <1>2, Width
<1>. HIDE DEF b
<1>4. head \in Seq(Int) /\ Len(head) = 5
  <2>0. r.temp % BYTE \in 0..255
    BY <1>1, DegreesFacts, Zenon DEF BYTE
  <2>1. r.temp % BYTE \in Int /\ node_id \in Int
    BY <2>0, TelemetryAssumption
  <2>2. r.id \in Int /\ r.mote_id \in Int /\ r.battery \in Int /\ r.motionCount \in Int
    BY FieldsAreNumbers, Zenon
  <2>. QED
    BY <2>1, <2>2
<1>5. bytes \in Seq(Int) /\ Len(bytes) = b
  <2>1. \A k \in 1..b : WordByte(r.motions, k) \in Int
    <3>. SUFFICES ASSUME NEW k \in 1..b PROVE WordByte(r.motions, k) \in Int
      OBVIOUS
    <3>1. 4 * (k - 1) \in 0..MOTION_MAX
      BY <1>2, <1>3, Width
    <3>. DEFINE p == Shift[4 * (k - 1)]
    <3>2. p \in Nat \ {0}
      BY <3>1, ShiftFacts, Zenon
    <3>. HIDE DEF p
    <3>3. r.motions \div p \in Nat
      BY <1>1, <3>2, Division
    <3>. QED
      BY <3>3 DEF WordByte, BYTE, p
  <2>2. bytes \in [1..b -> Int]
    BY <2>1
  <2>. HIDE DEF bytes
  <2>. QED
    BY <1>3, <2>2
<1>6. n \in Nat /\ r.neighbours \in Seq(Int)
  <2>1. n \in Nat /\ r.neighbours \in [1..n -> Neighbour]
    BY <1>1, LenProperties
  <2>2. Neighbour \subseteq Int
    BY TelemetryAssumption
  <2>3. r.neighbours \in [1..n -> Int]
    BY <2>1, <2>2
  <2>. HIDE DEF n
  <2>. QED
    BY <2>1, <2>3
<1>7. count \in Seq(Int) /\ Len(count) = 1 /\ count[1] = n
  BY <1>6
<1>. HIDE DEF n
<1>8. /\ head[1] = r.id /\ head[2] = r.mote_id /\ head[3] = r.temp % 256
      /\ head[4] = r.battery /\ head[5] = r.motionCount
  BY DEF BYTE
<1>9. \A k \in 1..b : bytes[k] = WordByte(r.motions, k)
  OBVIOUS
<1>. HIDE DEF head, bytes, count
<1>10. u \in Joined(Int, head, bytes)
  BY <1>4, <1>5, JoinedFacts, Zenon
<1>11. v \in Joined(Int, u, count)
  <2>. HIDE DEF u
  <2>1. u \in Seq(Int)
    BY <1>10 DEF Joined
  <2>. QED
    BY <1>7, <2>1, JoinedFacts, Zenon
<1>12. w \in Joined(Int, v, r.neighbours)
  <2>. HIDE DEF v
  <2>1. v \in Seq(Int)
    BY <1>11 DEF Joined
  <2>. QED
    BY <1>6, <2>1, JoinedFacts, Zenon
<1>13. Encode(r) = w
  BY DEF Encode, w, v, u, head, bytes, count, n, b
<1>. HIDE DEF w, v, u
<1>14. /\ Len(u) = 5 + b /\ \A k \in 1..5 : u[k] = head[k]
       /\ \A k \in 1..b : u[5 + k] = WordByte(r.motions, k)
  BY <1>4, <1>5, <1>9, <1>10 DEF Joined
<1>15. /\ Len(v) = 6 + b /\ v[6 + b] = n
       /\ \A k \in 1..5 + b : v[k] = u[k]
  <2>1. /\ Len(v) = (5 + b) + 1 /\ v[(5 + b) + 1] = n
        /\ \A k \in 1..5 + b : v[k] = u[k]
    BY <1>3, <1>7, <1>11, <1>14 DEF Joined
  <2>. QED
    BY <1>3, <2>1
<1>16. /\ w \in Seq(Int) /\ Len(w) = 6 + b + n
       /\ \A k \in 1..6 + b : w[k] = v[k]
       /\ \A k \in 1..n : w[6 + b + k] = r.neighbours[k]
  BY <1>12, <1>15 DEF Joined, n
<1>17. \A k \in 1..5 : w[k] = head[k]
  BY <1>3, <1>14, <1>15, <1>16
<1>18. \A k \in 1..b : w[5 + k] = WordByte(r.motions, k)
  <2>. SUFFICES ASSUME NEW k \in 1..b PROVE w[5 + k] = WordByte(r.motions, k)
    OBVIOUS
  <2>1. 5 + k \in 1..5 + b /\ 5 + k \in 1..6 + b
    BY <1>3
  <2>. QED
    BY <1>14, <1>15, <1>16, <2>1
<1>19. w[6 + b] = n
  BY <1>3, <1>15, <1>16
<1>20. w[1] = r.id /\ w[2] = r.mote_id /\ w[3] = r.temp % 256
       /\ w[4] = r.battery /\ w[5] = r.motionCount
  BY <1>8, <1>17
<1>. QED
  BY <1>13, <1>16, <1>18, <1>19, <1>20 DEF n, b

\* The buffer has room for every motion and every neighbour a record can hold:
\* 34 of 35 bytes in the code (libmessage.h).
BufferSuffices == 6 + MOTION_MAX \div 4 + MAX_NEIGHBOURS <= MESSAGE_BYTE_SIZE_MAX

LEMMA NumberedFits ==
    ASSUME MeasInv
    PROVE  /\ Numbered \in MessageType
           /\ Numbered.motionCount = m.motionCount /\ Numbered.motions = m.motions
           /\ Numbered.neighbours = m.neighbours
<1>1. PICK p \in 1..9 : m.id = IdAt(p)
  BY DEF MeasInv, IdsHeld
<1>2. Numbered \in MessageType /\ Numbered = [m EXCEPT !.id = Numbered.id]
  BY <1>1, NumberedId DEF MeasInv
<1>. DEFINE i == Numbered.id
<1>3. Numbered = [m EXCEPT !.id = i]
  BY <1>2
<1>. HIDE DEF i
<1>4. /\ [m EXCEPT !.id = i].motionCount = m.motionCount
      /\ [m EXCEPT !.id = i].motions = m.motions
      /\ [m EXCEPT !.id = i].neighbours = m.neighbours
  BY DEF MeasInv, MessageType, Records
<1>. QED
  BY <1>2, <1>3, <1>4

\* The packet fits into send_buffer (krava.c:395), which nothing checks, as long
\* as the buffer has room for the largest record.
THEOREM PacketFitsHolds == BufferSuffices => (TelemetrySpec => []PacketFits)
<1>. SUFFICES ASSUME BufferSuffices PROVE TelemetrySpec => []PacketFits
  OBVIOUS
<1>1. MeasInv => PacketFits
  <2>. SUFFICES ASSUME MeasInv PROVE PacketFits
    OBVIOUS
  <2>. DEFINE r == Numbered
              b == MotionBytes(r.motionCount)
              n == Len(r.neighbours)
  <2>1. r \in MessageType /\ n <= MAX_NEIGHBOURS
    BY NumberedFits DEF MeasInv, NeighboursHeld
  <2>. HIDE DEF r
  <2>2. Len(Encode(r)) = 6 + b + n
    BY <2>1, Packet
  <2>3. r.motionCount \in 0..MOTION_MAX /\ r.neighbours \in Seq(Neighbour)
    <3>1. Fields(r)
      BY <2>1, MessageFields, Zenon
    <3>. QED
      BY <3>1 DEF Fields
  <2>4. b \in 1..MOTION_MAX \div 4
    BY <2>3, MotionBytesFit, Zenon
  <2>5. n \in Nat
    BY <2>3, LenProperties
  <2>. HIDE DEF b, n
  <2>6. 6 + b + n <= MESSAGE_BYTE_SIZE_MAX
    BY <2>1, <2>4, <2>5, Width, TelemetryAssumption DEF BufferSuffices
  <2>. QED
    BY <2>2, <2>6 DEF PacketFits, r
<1>. QED
  BY <1>1, TelemetryInvariance, PTL

-----------------------------------------------------------------------------
(* What the gateway decodes.                                               *)

\* v adds up the first n bytes of the word in the buffer.
AddsUp(buffer, n, v) ==
    v = [k \in 0..n |-> IF k = 0 THEN 0
                        ELSE v[k - 1] + buffer[5 + k] * Shift[4 * (k - 1)]]

LEMMA DecodeShape ==
    ASSUME NEW buffer, NEW n, n = MotionBytes(buffer[5]),
           NEW v, v = CHOOSE g : AddsUp(buffer, n, g)
    PROVE  Decode(buffer) =
              [id |-> buffer[1], mote_id |-> buffer[2],
               temp |-> IF buffer[3] < 128 THEN buffer[3] ELSE buffer[3] - BYTE,
               battery |-> buffer[4], motionCount |-> buffer[5],
               motions |-> v[n],
               neighbours |-> SubSeq(buffer, 7 + n, 6 + n + buffer[6 + n])]
BY Zenon DEF Decode, AddsUp

\* The bytes of a word add up to the part of the word they were cut from.
LEMMA WordRead ==
    ASSUME NEW w \in Nat, NEW b \in Nat, 4 * b <= MOTION_MAX,
           NEW buffer, \A k \in 1..b : buffer[5 + k] = WordByte(w, k),
           NEW v, v = CHOOSE g : AddsUp(buffer, b, g)
    PROVE  v[b] = w % Shift[4 * b]
<1>. DEFINE part(k) == buffer[5 + k] * Shift[4 * (k - 1)]
            step == [k \in 1..b |-> [x \in Nat |-> x + part(k)]]
<1>0. MOTION_MAX \in Nat
  BY Width
<1>1. ASSUME NEW k \in 1..b
      PROVE  /\ Shift[4 * (k - 1)] \in Nat \ {0}
             /\ Shift[4 * k] = 256 * Shift[4 * (k - 1)]
             /\ buffer[5 + k] = (w \div Shift[4 * (k - 1)]) % 256
             /\ part(k) \in Nat
  <2>. DEFINE i == 4 * (k - 1)
              p == Shift[i]
  <2>1. /\ i \in 0..MOTION_MAX /\ i + 1 \in 1..MOTION_MAX /\ i + 2 \in 1..MOTION_MAX
        /\ i + 3 \in 1..MOTION_MAX /\ i + 4 \in 1..MOTION_MAX /\ i + 4 = 4 * k
    BY <1>0
  <2>. HIDE DEF i
  <2>2. p \in Nat \ {0}
    BY <2>1, ShiftFacts
  <2>3. Shift[i + 1] = 4 * p
    BY <2>1, ShiftFacts
  <2>4. Shift[i + 2] = 4 * Shift[i + 1]
    BY <2>1, ShiftFacts
  <2>5. Shift[i + 3] = 4 * Shift[i + 2]
    BY <2>1, ShiftFacts
  <2>6. Shift[i + 4] = 4 * Shift[i + 3]
    BY <2>1, ShiftFacts
  <2>. HIDE DEF p
  <2>7. Shift[4 * k] = 256 * p
    BY <2>1, <2>2, <2>3, <2>4, <2>5, <2>6
  <2>8. buffer[5 + k] = (w \div p) % 256
    BY DEF WordByte, BYTE, p, i
  <2>9. w \div p \in Nat
    BY <2>2, Division, Zenon
  <2>10. (w \div p) % 256 \in Nat
    BY <2>9
  <2>11. buffer[5 + k] * p \in Nat
    BY <2>2, <2>8, <2>10
  <2>. QED
    BY <2>2, <2>7, <2>8, <2>11 DEF p, i
<1>2. \E g \in [0..b -> Nat] : Recurs(g, b, 0, step)
  <2>1. \A k \in 1..b : \A x \in Nat : x + part(k) \in Nat
    <3>. HIDE DEF part
    <3>. QED
      BY <1>1
  <2>2. step \in [1..b -> [Nat -> Nat]]
    <3>. HIDE DEF part
    <3>. QED
      BY <2>1
  <2>. HIDE DEF step
  <2>. QED
    BY <2>2, RecursionExists
<1>. HIDE DEF part
<1>3. PICK g \in [0..b -> Nat] : g[0] = 0 /\ \A k \in 1..b : g[k] = step[k][g[k - 1]]
  BY <1>2 DEF Recurs
<1>4. \A k \in 1..b : k - 1 \in 0..b /\ g[k - 1] \in Nat
  OBVIOUS
<1>5. \A k \in 1..b : g[k] = g[k - 1] + part(k)
  BY <1>3, <1>4
<1>6. AddsUp(buffer, b, g)
  <2>1. \A k \in 0..b : k # 0 => k \in 1..b
    OBVIOUS
  <2>2. \A k \in 0..b : g[k] = IF k = 0 THEN 0 ELSE g[k - 1] + part(k)
    BY <1>3, <1>5, <2>1
  <2>3. g = [k \in 0..b |-> IF k = 0 THEN 0 ELSE g[k - 1] + part(k)]
    BY <2>2
  <2>. QED
    BY <2>3 DEF AddsUp, part
<1>7. AddsUp(buffer, b, v)
  BY <1>6, Zenon
<1>8. v[0] = 0 /\ \A k \in 1..b : v[k] = v[k - 1] + part(k)
  <2>1. v = [k \in 0..b |-> IF k = 0 THEN 0 ELSE v[k - 1] + part(k)]
    BY <1>7 DEF AddsUp, part
  <2>2. 0 \in 0..b /\ \A k \in 1..b : k \in 0..b /\ k # 0
    OBVIOUS
  <2>. QED
    BY <2>1, <2>2
<1>. DEFINE P == {k \in 0..b : v[k] = w % Shift[4 * k]}
<1>9. 0 \in P
  BY <1>8, ShiftFacts
<1>10. ASSUME NEW k \in 1..b, k - 1 \in P PROVE k \in P
  <2>. DEFINE p == Shift[4 * (k - 1)]
  <2>1. /\ p \in Nat \ {0} /\ Shift[4 * k] = 256 * p
        /\ buffer[5 + k] = (w \div p) % 256
    <3>1. p \in Nat \ {0}
      BY <1>1, Zenon
    <3>2. Shift[4 * k] = 256 * p
      BY <1>1, Zenon
    <3>3. buffer[5 + k] = (w \div p) % 256
      BY <1>1, Zenon
    <3>. QED
      BY <3>1, <3>2, <3>3, Zenon
  <2>2. v[k - 1] = w % p
    BY <1>10
  <2>3. v[k] = v[k - 1] + buffer[5 + k] * p
    BY <1>8 DEF part
  <2>. HIDE DEF p
  <2>4. w % (256 * p) = (w % p) + ((w \div p) % 256) * p
    <3>1. p \in Nat \ {0}
      BY <2>1, Zenon
    <3>2. OneMoreByte(w, p)
      BY <3>1, ByteAdded, Zenon
    <3>. QED
      BY <3>2, Zenon DEF OneMoreByte
  <2>5. v[k] = w % Shift[4 * k]
    <3>1. v[k] = (w % p) + ((w \div p) % 256) * p
      <4>1. buffer[5 + k] = (w \div p) % 256
        BY <2>1, Zenon
      <4>. QED
        BY <2>2, <2>3, <4>1, Zenon
    <3>2. Shift[4 * k] = 256 * p
      BY <2>1, Zenon
    <3>. QED
      BY <2>4, <3>1, <3>2, Zenon
  <2>. QED
    BY <2>5
<1>. HIDE DEF P
<1>11. 0..b \subseteq P
  BY <1>9, <1>10, UpTo
<1>12. b \in P
  BY <1>11
<1>. QED
  BY <1>12 DEF P

\* A record comes back from its packet, if its word has no more in it than the
\* motions it counts.
LEMMA RoundTrip ==
    ASSUME NEW r \in MessageType, r.motions < Shift[r.motionCount]
    PROVE  Decode(Encode(r)) = r
<1>. DEFINE e == Encode(r)
            b == MotionBytes(r.motionCount)
            n == Len(r.neighbours)
            v == CHOOSE g : AddsUp(e, b, g)
<1>1. r.motionCount \in 0..MOTION_MAX /\ r.motions \in Nat
  <2>1. Fields(r)
    BY MessageFields, Zenon
  <2>. QED
    BY <2>1 DEF Fields
<1>2. r.temp \in Degrees /\ r.neighbours \in Seq(Neighbour)
  <2>1. Fields(r)
    BY MessageFields, Zenon
  <2>. QED
    BY <2>1 DEF Fields
<1>3. /\ e \in Seq(Int) /\ Len(e) = 6 + b + n
      /\ e[1] = r.id /\ e[2] = r.mote_id /\ e[3] = r.temp % 256
      /\ e[4] = r.battery /\ e[5] = r.motionCount
      /\ \A k \in 1..b : e[5 + k] = WordByte(r.motions, k)
      /\ e[6 + b] = n
      /\ \A k \in 1..n : e[6 + b + k] = r.neighbours[k]
  BY Packet
<1>. HIDE DEF e
<1>4. b \in 1..MOTION_MAX \div 4 /\ r.motionCount <= 4 * b /\ 4 * b <= MOTION_MAX
  BY <1>1, MotionBytesFit, Zenon
<1>5. b \in Nat /\ n \in Nat /\ DOMAIN r.neighbours = 1..n
  BY <1>2, <1>4, Width, LenProperties
<1>6. b = MotionBytes(e[5])
  BY <1>3
<1>. HIDE DEF b, n
<1>7. v[b] = r.motions
  <2>1. v[b] = r.motions % Shift[4 * b]
    <3>. DEFINE w == r.motions
                u == v
    <3>1. w \in Nat /\ \A k \in 1..b : e[5 + k] = WordByte(w, k)
      BY <1>1, <1>3
    <3>2. u = CHOOSE g : AddsUp(e, b, g)
      OBVIOUS
    <3>. HIDE DEF w, u
    <3>3. u[b] = w % Shift[4 * b]
      BY <1>4, <1>5, <3>1, <3>2, WordRead
    <3>. QED
      BY <3>3 DEF w, u
  <2>2. 4 * b \in 0..MOTION_MAX /\ r.motionCount \in 0..4 * b
    BY <1>1, <1>4, <1>5, Width
  <2>3. Shift[r.motionCount] <= Shift[4 * b]
    BY <2>2, ShiftGrows
  <2>4. Shift[r.motionCount] \in Nat /\ Shift[4 * b] \in Nat \ {0}
    BY <1>1, <2>2, ShiftFacts
  <2>. HIDE DEF v
  <2>5. r.motions < Shift[4 * b]
    BY <1>1, <2>3, <2>4
  <2>6. r.motions % Shift[4 * b] = r.motions
    <3>. DEFINE w == r.motions
                p == Shift[4 * b]
    <3>1. w \in 0..p - 1 /\ p \in Nat \ {0} /\ w = p * 0 + w
      BY <1>1, <2>4, <2>5
    <3>. HIDE DEF w, p
    <3>2. w % p = w
      BY <3>1
    <3>. QED
      BY <3>2 DEF w, p
  <2>. QED
    BY <2>1, <2>6
<1>8. SubSeq(e, 7 + b, 6 + b + e[6 + b]) = r.neighbours
  <2>. DEFINE s == SubSeq(e, 7 + b, 6 + b + n)
              lo == 7 + b
              hi == 6 + b + n
  <2>1. lo \in Int /\ hi \in Int /\ (hi - lo) + 1 = n
    BY <1>5
  <2>2. \A k \in lo..hi : e[k] \in Int
    BY <1>3, <1>5, ElementOfSeq
  <2>3. s = SubSeq(e, lo, hi)
    OBVIOUS
  <2>. HIDE DEF s, lo, hi
  <2>4. /\ s \in Seq(Int) /\ Len(s) = IF lo <= hi THEN (hi - lo) + 1 ELSE 0
        /\ \A k \in 1..(hi - lo) + 1 : s[k] = e[lo + k - 1]
    BY <2>1, <2>2, <2>3, SubSeqProperties
  <2>5. Len(s) = n
    BY <1>5, <2>1, <2>4
  <2>6. ASSUME NEW k \in 1..n PROVE s[k] = r.neighbours[k]
    <3>1. s[k] = e[lo + k - 1]
      BY <2>1, <2>4
    <3>2. lo + k - 1 = 6 + b + k
      BY <1>5 DEF lo
    <3>. QED
      BY <1>3, <3>1, <3>2
  <2>7. s = r.neighbours
    <3>1. s = [k \in 1..n |-> s[k]]
      BY <2>4, <2>5, LenProperties
    <3>2. r.neighbours = [k \in 1..n |-> r.neighbours[k]]
      BY <1>2, <1>5
    <3>. QED
      BY <2>6, <3>1, <3>2
  <2>. QED
    BY <1>3, <2>7 DEF s
<1>9. (IF e[3] < 128 THEN e[3] ELSE e[3] - BYTE) = r.temp
  <2>1. r.temp = IF r.temp % 256 < 128 THEN r.temp % 256 ELSE (r.temp % 256) - 256
    BY <1>2, DegreesFacts, Zenon
  <2>2. e[3] = r.temp % 256
    BY <1>3, Zenon
  <2>. QED
    BY <2>1, <2>2 DEF BYTE
<1>10. Decode(e) =
          [id |-> r.id, mote_id |-> r.mote_id, temp |-> r.temp, battery |-> r.battery,
           motionCount |-> r.motionCount, motions |-> r.motions,
           neighbours |-> r.neighbours]
  <2>1. Decode(e) =
          [id |-> e[1], mote_id |-> e[2],
           temp |-> IF e[3] < 128 THEN e[3] ELSE e[3] - BYTE,
           battery |-> e[4], motionCount |-> e[5],
           motions |-> v[b],
           neighbours |-> SubSeq(e, 7 + b, 6 + b + e[6 + b])]
    BY <1>6, DecodeShape, Zenon
  <2>. HIDE DEF v
  <2>. QED
    BY <1>3, <1>7, <1>8, <1>9, <2>1, Zenon
<1>11. r = [id |-> r.id, mote_id |-> r.mote_id, temp |-> r.temp, battery |-> r.battery,
            motionCount |-> r.motionCount, motions |-> r.motions,
            neighbours |-> r.neighbours]
  BY DEF MessageType, Records
<1>. QED
  BY <1>10, <1>11, Zenon DEF e

\* What the gateway decodes (gateway.c:162) is the record as the mote sent it,
\* for every word of motions, every neighbourhood and every temperature.
THEOREM WireRoundTripHolds == TelemetrySpec => []WireRoundTrip
<1>1. MeasInv => WireRoundTrip
  <2>. SUFFICES ASSUME MeasInv PROVE WireRoundTrip
    OBVIOUS
  <2>. DEFINE r == Numbered
  <2>1. r \in MessageType /\ r.motions < Shift[r.motionCount]
    BY NumberedFits DEF MeasInv
  <2>. HIDE DEF r
  <2>2. Decode(Encode(r)) = r
    BY <2>1, RoundTrip
  <2>. QED
    BY <2>2 DEF WireRoundTrip, r
<1>. QED
  BY <1>1, TelemetryInvariance, PTL
=============================================================================
