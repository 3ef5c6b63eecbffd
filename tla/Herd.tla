-------------------------------- MODULE Herd --------------------------------
(***************************************************************************)
(* How the gateway notices that a cow is missing: every packet of a cow    *)
(* counts, cows_seen_counter is folded into a bitmap once a minute, and    *)
(* every ten seconds handle_missing_cows raises the alarm, keeps it for a  *)
(* window and cancels it.  Bitmaps are sets of cow indices.                *)
(*                                                                         *)
(* queued is what the step put into the command buffer; alarm and the two  *)
(* heard sets are history.                                                 *)
(***************************************************************************)
EXTENDS Integers, FiniteSets, FiniteSetsExt

CONSTANTS
    NUMBER_OF_COWS,          \* 5
    register_cows,           \* address of the cow with each index
    Unregistered,            \* addresses of motes nobody registered
    COWS_SEEN_ALARM_WINDOW,  \* 2
    COUNTER_RANGE            \* 256: cows_seen_counter is an array of uint8_t

Cow == 0..(NUMBER_OF_COWS - 1)

ASSUME CowsAssumption ==
    /\ NUMBER_OF_COWS \in Nat \ {0}
    /\ register_cows \in [Cow -> Nat \ {0}]
    /\ \A c, d \in Cow : register_cows[c] = register_cows[d] => c = d
    /\ Unregistered \subseteq Nat \ {register_cows[c] : c \in Cow}

\* With a window of one the alarm would be cancelled before it is raised.
ASSUME WindowAssumption == COWS_SEEN_ALARM_WINDOW \in Nat \ {0, 1}
ASSUME RangeAssumption == COUNTER_RANGE \in Nat \ {0, 1}

VARIABLES
    cows_seen_counter,
    cows_seen_counter_status,
    cows_missing,
    emergency_missing,
    cows_seen_alarm_window,
    queued,       \* the command put in by this step, as a set of at most one
    alarm,        \* the last command put in was an alarm
    heardNow,     \* cows heard of since the last refresh
    heardBefore   \* cows heard of between the last two refreshes

history == <<alarm, heardNow, heardBefore>>
vars == <<cows_seen_counter, cows_seen_counter_status, cows_missing,
          emergency_missing, cows_seen_alarm_window, queued, history>>

CMD_EMERGENCY_ONE == 2
CMD_CANCEL_EMERGENCY_ONE == 4

\* cows_registration: a bit for every index.
cows_registered == Cow

\* find_cow_with_id: NUMBER_OF_COWS when there is no such cow.
FindCowWithId(id) ==
    IF \E c \in Cow : register_cows[c] = id
    THEN CHOOSE c \in Cow : register_cows[c] = id
    ELSE NUMBER_OF_COWS

\* find_cow_id_from_bitmap: the first bit that is set, 32 when none is, given
\* to find_cow_with_id as if it were an address.
FindCowIdFromBitmap(bitmap) ==
    FindCowWithId(IF bitmap = {} THEN 32 ELSE Min(bitmap))

Init ==
    /\ cows_seen_counter = [c \in Cow |-> 0]
    /\ cows_seen_counter_status = {}
    /\ cows_missing = {}
    /\ emergency_missing = {}
    /\ cows_seen_alarm_window = COWS_SEEN_ALARM_WINDOW
    /\ queued = {}
    /\ alarm = FALSE
    /\ heardNow = {} /\ heardBefore = {}

-----------------------------------------------------------------------------
(* Operators whose names end in Wrong are what a plausible mistake would    *)
(* make of the definition that follows them; no specification uses them.   *)

\* recv, all of its branches: the cow the packet names was seen.  For a mote
\* nobody registered the counter past the end of the array is written, which
\* is taken to be padding here; its bit is set all the same.
Recv(id) ==
    LET c == FindCowWithId(id) IN
    /\ cows_seen_counter' = [d \in Cow |->
            IF d = c THEN (cows_seen_counter[d] + 1) % COUNTER_RANGE
            ELSE cows_seen_counter[d]]
    /\ cows_seen_counter_status' = cows_seen_counter_status \cup {c}
    /\ heardNow' = heardNow \cup {c}
    /\ queued' = {}
    /\ UNCHANGED <<cows_missing, emergency_missing, cows_seen_alarm_window,
                   alarm, heardBefore>>

ExpiredWrong(window) == window < 0

\* The alarm has been on for its window.
Expired(window) == window <= 0

RemainingWrong(emergency, over) == emergency

\* status.emergency_missing once the window has been looked at.
Remaining(emergency, over) == IF over THEN {} ELSE emergency

AllFoundWrong(missing) == missing = {}

\* Compares with the status after it was cleared.
AllFoundLate(missing) == missing = {} /\ emergency_missing' # {}

\* Nobody is missing any more, and the previous command was an alarm.
AllFound(missing) == missing = {} /\ emergency_missing # {}

\* handle_missing_cows, every COW_MISSING_INTERVAL.
HandleMissingCows ==
    LET missing == (cows_seen_counter_status \ cows_registered)
                       \cup (cows_registered \ cows_seen_counter_status)
        target == FindCowIdFromBitmap(missing)
        emergency == IF missing = {} THEN {} ELSE emergency_missing \cup missing
        window == IF missing = {} THEN COWS_SEEN_ALARM_WINDOW
                  ELSE cows_seen_alarm_window - 1
        over == missing # {} /\ Expired(window)
        off == over \/ AllFound(missing)
        on == Remaining(emergency, over) # {}
    IN  /\ cows_missing' = missing
        /\ emergency_missing' = Remaining(emergency, over)
        /\ cows_seen_alarm_window' =
               IF over THEN COWS_SEEN_ALARM_WINDOW ELSE window
        /\ queued' = (IF on THEN {<<CMD_EMERGENCY_ONE, target>>} ELSE {})
                \cup (IF off THEN {<<CMD_CANCEL_EMERGENCY_ONE, target>>} ELSE {})
        /\ alarm' = (on \/ (alarm /\ ~off))
        /\ UNCHANGED <<cows_seen_counter, cows_seen_counter_status, heardNow,
                       heardBefore>>

SeenWrong == {}

\* The cows with a nonzero counter, before the counters are cleared.
Seen == {c \in Cow : cows_seen_counter[c] > 0}

ClearedWrong == cows_seen_counter

Cleared == [c \in Cow |-> 0]

\* handle_cows_seen_refresh, every COWS_SEEN_COUNTER_INTERVAL.
HandleCowsSeenRefresh ==
    /\ cows_seen_counter_status' = Seen
    /\ cows_seen_counter' = Cleared
    /\ heardBefore' = heardNow
    /\ heardNow' = {}
    /\ queued' = {}
    /\ UNCHANGED <<cows_missing, emergency_missing, cows_seen_alarm_window,
                   alarm>>

\* Bound: no counter wraps, fewer than COUNTER_RANGE packets of one cow
\* arrive between two refreshes.
RecvSome ==
    \E id \in {register_cows[c] : c \in Cow} \cup Unregistered :
        /\ FindCowWithId(id) \in Cow =>
               cows_seen_counter[FindCowWithId(id)] < COUNTER_RANGE - 1
        /\ Recv(id)

Next == RecvSome \/ HandleMissingCows \/ HandleCowsSeenRefresh

\* Both timers are reset by gateway_main as soon as they have been handled
\* (gateway.c:550-563).
Spec == Init /\ [][Next]_vars
             /\ WF_vars(HandleMissingCows) /\ WF_vars(HandleCowsSeenRefresh)

-----------------------------------------------------------------------------
TypeOK ==
    /\ cows_seen_counter \in [Cow -> 0..(COUNTER_RANGE - 1)]
    /\ cows_seen_counter_status \subseteq 0..NUMBER_OF_COWS
    /\ cows_missing \subseteq 0..NUMBER_OF_COWS
    /\ emergency_missing \subseteq 0..NUMBER_OF_COWS
    /\ cows_seen_alarm_window \in 1..COWS_SEEN_ALARM_WINDOW
    /\ queued \subseteq {CMD_EMERGENCY_ONE, CMD_CANCEL_EMERGENCY_ONE} \X Nat
    /\ alarm \in BOOLEAN
    /\ heardNow \subseteq 0..NUMBER_OF_COWS
    /\ heardBefore \subseteq 0..NUMBER_OF_COWS

\* The motes, who only see commands, and the gateway agree on whether an alarm
\* is on, on whichever path it was raised, kept or cancelled (gateway.c:442-474).
AlarmMatchesStatus == alarm <=> emergency_missing # {}

\* "only send cancel if previous command was alarm" (gateway.c:450), which
\* the window at gateway.c:460-466 must respect too.
CancelFollowsAlarm ==
    [][\A q \in queued' : q[1] = CMD_CANCEL_EMERGENCY_ONE => alarm]_vars

\* A cow heard of since the refresh before last is not taken to be missing,
\* across the moment at which counters and bitmap are exchanged
\* (gateway.c:478-485).
SeenIsNotMissing == (heardNow \cup heardBefore) \cap Cow
                        \subseteq cows_seen_counter_status

\* No alarm stays on for ever: the window ends it, or the return of all cows
\* (gateway.c:449-466).
AlarmEnds == []<>~alarm

\* A cow that falls silent is alarmed about again and again.
SilentCowAlarms ==
    \A c \in Cow : <>[](c \notin heardNow) => []<>alarm
=============================================================================
