----------------------------- MODULE Herd_proofs -----------------------------
(***************************************************************************)
(* Proofs about Herd for every number of cows, every window and every      *)
(* range of the counters: the alarm the motes see is the one the gateway   *)
(* keeps, and a cow that was heard of is not taken to be missing.          *)
(***************************************************************************)
EXTENDS Herd, TLAPS

-----------------------------------------------------------------------------
(* The inductive invariant.  The window has begun to run exactly while an  *)
(* alarm is on; and what was heard of since the last refresh is in the     *)
(* bitmap and in the counters, from which the next bitmap is made.         *)

WindowRuns == alarm <=> cows_seen_alarm_window < COWS_SEEN_ALARM_WINDOW

HeardIsKept ==
    /\ heardNow \subseteq cows_seen_counter_status
    /\ \A c \in heardNow \cap Cow : cows_seen_counter[c] > 0
    /\ heardBefore \cap Cow \subseteq cows_seen_counter_status

HInv == TypeOK /\ AlarmMatchesStatus /\ WindowRuns /\ HeardIsKept

LEMMA FindCowWithIdRange ==
    ASSUME NEW id
    PROVE  FindCowWithId(id) \in 0..NUMBER_OF_COWS
<1>1. CASE \E c \in Cow : register_cows[c] = id
  <2>1. FindCowWithId(id) \in Cow
    BY <1>1 DEF FindCowWithId
  <2>. QED
    BY <2>1, CowsAssumption DEF Cow
<1>2. CASE ~(\E c \in Cow : register_cows[c] = id)
  BY <1>2, CowsAssumption DEF FindCowWithId
<1>. QED
  BY <1>1, <1>2

LEMMA InitHInv == Init => HInv
<1>. SUFFICES ASSUME Init PROVE HInv
  OBVIOUS
<1>1. TypeOK
  <2>1. /\ cows_seen_counter \in [Cow -> 0..(COUNTER_RANGE - 1)]
        /\ cows_seen_alarm_window \in 1..COWS_SEEN_ALARM_WINDOW
    BY RangeAssumption, WindowAssumption DEF Init
  <2>2. alarm \in BOOLEAN
    BY DEF Init
  <2>3. queued \subseteq {CMD_EMERGENCY_ONE, CMD_CANCEL_EMERGENCY_ONE} \X Nat
    BY DEF Init
  <2>. QED
    BY <2>1, <2>2, <2>3 DEF Init, TypeOK
<1>2. AlarmMatchesStatus /\ WindowRuns /\ HeardIsKept
  BY WindowAssumption DEF Init, AlarmMatchesStatus, WindowRuns, HeardIsKept
<1>. QED
  BY <1>1, <1>2 DEF HInv

-----------------------------------------------------------------------------
(* One lemma per action.                                                   *)

LEMMA RecvPreserves == HInv /\ RecvSome => HInv'
<1>. SUFFICES ASSUME HInv, RecvSome PROVE HInv'
  OBVIOUS
<1>1. PICK id : /\ FindCowWithId(id) \in Cow =>
                       cows_seen_counter[FindCowWithId(id)] < COUNTER_RANGE - 1
                /\ Recv(id)
  BY DEF RecvSome
<1>. DEFINE c == FindCowWithId(id)
<1>2. c \in 0..NUMBER_OF_COWS
  BY FindCowWithIdRange
<1>. HIDE DEF c
<1>3. /\ cows_seen_counter' = [d \in Cow |->
             IF d = c THEN (cows_seen_counter[d] + 1) % COUNTER_RANGE
             ELSE cows_seen_counter[d]]
      /\ cows_seen_counter_status' = cows_seen_counter_status \cup {c}
      /\ heardNow' = heardNow \cup {c}
      /\ queued' = {}
      /\ UNCHANGED <<cows_missing, emergency_missing, cows_seen_alarm_window,
                     alarm, heardBefore>>
  BY <1>1 DEF Recv, c
<1>4. c \in Cow => cows_seen_counter[c] < COUNTER_RANGE - 1
  BY <1>1 DEF c
<1>5. \A d \in Cow : /\ cows_seen_counter[d] \in 0..(COUNTER_RANGE - 1)
                     /\ d = c => (cows_seen_counter[d] + 1) % COUNTER_RANGE
                                     = cows_seen_counter[d] + 1
  BY <1>4, RangeAssumption DEF HInv, TypeOK
<1>6. /\ cows_seen_counter' \in [Cow -> 0..(COUNTER_RANGE - 1)]
      /\ \A d \in Cow : cows_seen_counter'[d] =
             IF d = c THEN cows_seen_counter[d] + 1 ELSE cows_seen_counter[d]
  BY <1>3, <1>4, <1>5, RangeAssumption
<1>7. TypeOK'
  BY <1>2, <1>3, <1>6 DEF HInv, TypeOK
<1>8. AlarmMatchesStatus' /\ WindowRuns'
  BY <1>3 DEF HInv, AlarmMatchesStatus, WindowRuns
<1>9. HeardIsKept'
  BY <1>3, <1>5, <1>6 DEF HInv, HeardIsKept
<1>. QED
  BY <1>7, <1>8, <1>9 DEF HInv

LEMMA RefreshPreserves == HInv /\ HandleCowsSeenRefresh => HInv'
<1>. SUFFICES ASSUME HInv, HandleCowsSeenRefresh PROVE HInv'
  OBVIOUS
<1>1. Seen \subseteq Cow /\ Cow \subseteq 0..NUMBER_OF_COWS
  BY CowsAssumption DEF Seen, Cow
<1>2. TypeOK'
  BY <1>1, RangeAssumption DEF HInv, TypeOK, HandleCowsSeenRefresh, Cleared
<1>3. AlarmMatchesStatus' /\ WindowRuns'
  BY DEF HInv, AlarmMatchesStatus, WindowRuns, HandleCowsSeenRefresh
<1>4. HeardIsKept'
  BY DEF HInv, HeardIsKept, HandleCowsSeenRefresh, Seen
<1>. QED
  BY <1>2, <1>3, <1>4 DEF HInv

\* What handle_missing_cows does to the alarm, for any set of missing cows:
\* also that it only cancels what is on.
LEMMA CheckResult ==
    ASSUME HInv, HandleMissingCows
    PROVE  /\ HInv'
           /\ \A q \in queued' : q[1] = CMD_CANCEL_EMERGENCY_ONE => alarm
<1>. DEFINE missing == (cows_seen_counter_status \ cows_registered)
                           \cup (cows_registered \ cows_seen_counter_status)
            target == FindCowIdFromBitmap(missing)
            emergency == IF missing = {} THEN {} ELSE emergency_missing \cup missing
            window == IF missing = {} THEN COWS_SEEN_ALARM_WINDOW
                      ELSE cows_seen_alarm_window - 1
            over == missing # {} /\ window <= 0
            off == over \/ (missing = {} /\ emergency_missing # {})
            on == ~over /\ emergency # {}
<1>1. /\ cows_missing' = missing
      /\ emergency_missing' = IF over THEN {} ELSE emergency
      /\ cows_seen_alarm_window' = IF over THEN COWS_SEEN_ALARM_WINDOW ELSE window
      /\ queued' = (IF on THEN {<<CMD_EMERGENCY_ONE, target>>} ELSE {})
              \cup (IF off THEN {<<CMD_CANCEL_EMERGENCY_ONE, target>>} ELSE {})
      /\ alarm' = (on \/ (alarm /\ ~off))
      /\ UNCHANGED <<cows_seen_counter, cows_seen_counter_status, heardNow,
                     heardBefore>>
  BY DEF HandleMissingCows, Remaining, Expired, AllFound
<1>2. missing \subseteq 0..NUMBER_OF_COWS
  BY CowsAssumption DEF HInv, TypeOK, cows_registered, Cow
<1>3. target \in Nat
  BY FindCowWithIdRange, CowsAssumption DEF FindCowIdFromBitmap
<1>. HIDE DEF missing, target
<1>4. /\ alarm \in BOOLEAN
      /\ cows_seen_alarm_window \in 1..COWS_SEEN_ALARM_WINDOW
      /\ alarm <=> emergency_missing # {}
      /\ alarm <=> cows_seen_alarm_window < COWS_SEEN_ALARM_WINDOW
      /\ COWS_SEEN_ALARM_WINDOW \in Nat \ {0, 1}
  BY WindowAssumption DEF HInv, TypeOK, AlarmMatchesStatus, WindowRuns
\* A window of two or more does not run out on the check that raises the alarm.
<1>5. over => alarm
  BY <1>4
<1>6. off => alarm
  BY <1>4, <1>5
<1>7. on <=> emergency_missing' # {}
  BY <1>1
<1>8. alarm' <=> on
  <2>1. ~on => (alarm => off)
    BY <1>4
  <2>2. off => ~on
    OBVIOUS
  <2>. QED
    BY <1>1, <2>1, <2>2
<1>9. AlarmMatchesStatus' /\ WindowRuns'
  <2>1. on <=> cows_seen_alarm_window' < COWS_SEEN_ALARM_WINDOW
    <3>1. CASE missing = {}
      BY <1>1, <1>4, <3>1
    <3>2. CASE missing # {} /\ over
      BY <1>1, <1>4, <3>2
    <3>3. CASE missing # {} /\ ~over
      BY <1>1, <1>4, <3>3
    <3>. QED
      BY <3>1, <3>2, <3>3
  <2>. QED
    BY <1>7, <1>8, <2>1 DEF AlarmMatchesStatus, WindowRuns
<1>10. HeardIsKept'
  BY <1>1 DEF HInv, HeardIsKept
<1>11. TypeOK'
  <2>1. /\ cows_missing' \subseteq 0..NUMBER_OF_COWS
        /\ emergency_missing' \subseteq 0..NUMBER_OF_COWS
    BY <1>1, <1>2 DEF HInv, TypeOK
  <2>2. cows_seen_alarm_window' \in 1..COWS_SEEN_ALARM_WINDOW
    BY <1>1, <1>4
  <2>3. queued' \subseteq {CMD_EMERGENCY_ONE, CMD_CANCEL_EMERGENCY_ONE} \X Nat
    BY <1>1, <1>3
  <2>4. alarm' \in BOOLEAN
    BY <1>1, <1>4
  <2>. QED
    BY <1>1, <2>1, <2>2, <2>3, <2>4 DEF HInv, TypeOK
<1>12. \A q \in queued' : q[1] = CMD_CANCEL_EMERGENCY_ONE => off
  BY <1>1 DEF CMD_EMERGENCY_ONE, CMD_CANCEL_EMERGENCY_ONE
<1>. QED
  BY <1>6, <1>9, <1>10, <1>11, <1>12 DEF HInv

LEMMA NextPreserves == HInv /\ [Next]_vars => HInv'
<1>. SUFFICES ASSUME HInv, [Next]_vars PROVE HInv'
  OBVIOUS
<1>1. CASE RecvSome
  BY <1>1, RecvPreserves
<1>2. CASE HandleMissingCows
  BY <1>2, CheckResult
<1>3. CASE HandleCowsSeenRefresh
  BY <1>3, RefreshPreserves
<1>4. CASE UNCHANGED vars
  BY <1>4 DEF HInv, TypeOK, AlarmMatchesStatus, WindowRuns, HeardIsKept, vars,
              history
<1>. QED
  BY <1>1, <1>2, <1>3, <1>4 DEF Next

-----------------------------------------------------------------------------
(* The theorems.                                                           *)

\* The inductive invariant holds, for every herd, window and counter range.
THEOREM HerdInvariance == Spec => []HInv
BY InitHInv, NextPreserves, PTL DEF Spec

\* Every counter stays within its byte, every bit and index within the tables.
THEOREM HerdTypeCorrect == Spec => []TypeOK
<1>1. HInv => TypeOK
  BY DEF HInv
<1>. QED
  BY <1>1, HerdInvariance, PTL

\* For the motes an alarm is on exactly while emergency_missing names a cow
\* (gateway.c:442-474).
THEOREM AlarmMatchesStatusHolds == Spec => []AlarmMatchesStatus
<1>1. HInv => AlarmMatchesStatus
  BY DEF HInv
<1>. QED
  BY <1>1, HerdInvariance, PTL

\* No cow that was heard of since the refresh before last is missing, wherever
\* packets fall between the refreshes (gateway.c:477-489).
THEOREM SeenIsNotMissingHolds == Spec => []SeenIsNotMissing
<1>1. HInv => SeenIsNotMissing
  BY DEF HInv, HeardIsKept, SeenIsNotMissing
<1>. QED
  BY <1>1, HerdInvariance, PTL

\* A cancellation only goes out while an alarm is on (gateway.c:450), whether
\* the window or the return of all cows ends it.
THEOREM CancelFollowsAlarmHolds == Spec => CancelFollowsAlarm
<1>1. HInv /\ [Next]_vars =>
          [\A q \in queued' : q[1] = CMD_CANCEL_EMERGENCY_ONE => alarm]_vars
  <2>. SUFFICES ASSUME HInv, Next
                PROVE \A q \in queued' : q[1] = CMD_CANCEL_EMERGENCY_ONE => alarm
    OBVIOUS
  <2>1. CASE RecvSome
    BY <2>1 DEF RecvSome, Recv
  <2>2. CASE HandleMissingCows
    BY <2>2, CheckResult
  <2>3. CASE HandleCowsSeenRefresh
    BY <2>3 DEF HandleCowsSeenRefresh
  <2>. QED
    BY <2>1, <2>2, <2>3 DEF Next
<1>. QED
  BY <1>1, HerdInvariance, PTL DEF Spec, CancelFollowsAlarm
=============================================================================
