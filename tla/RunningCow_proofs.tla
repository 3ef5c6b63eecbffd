-------------------------- MODULE RunningCow_proofs --------------------------
(***************************************************************************)
(* Proofs about RunningCow, for every set of motes, every clustering and   *)
(* any number of commands under way: types, and what every emergency goes  *)
(* back to.                                                                *)
(***************************************************************************)
EXTENDS RunningCow, Modes_proofs, SequenceTheorems, FiniteSetTheorems

-----------------------------------------------------------------------------
(* What motes send.                                                        *)

Outgoing == [kind : {"command", "message", "rssi", "acc"}, cmd : Cmd,
             from : Mote, to : Mote \cup {defaultGateway}]
Silent == {p \in Outgoing : p.kind # "command"}
\* All commands are the sender's own.
From(m) == {p \in Outgoing : p.kind = "command" => p.from = m}

LEMMA SilentIsFrom == ASSUME NEW m PROVE Seq(Silent) \subseteq Seq(From(m))
BY SeqDef DEF Silent, From

\* All that a packet takes from the globals.
Addressed(s) == s.mote_id \in Mote /\ s.currentGateway \in Mote \cup {defaultGateway}

LEMMA SendingOut ==
    ASSUME NEW s, Addressed(s), NEW kind \in {"command", "message", "rssi", "acc"},
           NEW c \in Cmd
    PROVE  /\ Sending(s, kind, c).out \in Seq(From(s.mote_id))
           /\ kind # "command" => Sending(s, kind, c).out \in Seq(Silent)
<1>. DEFINE p == [kind |-> kind, cmd |-> c, from |-> s.mote_id, to |-> s.currentGateway]
<1>1. p \in From(s.mote_id) /\ (kind # "command" => p \in Silent)
  BY DEF Outgoing, From, Silent, Addressed
<1>2. Sending(s, kind, c).out = <<p>>
  BY DEF Sending
<1>. HIDE DEF p
<1>. QED
  BY <1>1, <1>2

LEMMA CommandsOf ==
    ASSUME NEW c \in 0..5
    PROVE  c \in Cmd
BY DEF Cmd, CMD_SET_LOCAL_GW, CMD_CANCEL_EMERGENCY_TWO

LEMMA FieldsOut ==
    ASSUME NEW s \in Globals
    PROVE  /\ Addressed(s)
           /\ \A v : Addressed([s EXCEPT !.command_target = v])
           /\ \A v : [s EXCEPT !.command_target = v].mote_id = s.mote_id
           /\ \A v : Addressed([s EXCEPT !.eTwoRSSI = v])
           /\ \A v : Addressed([s EXCEPT !.eTwoAcc = v])
BY DEF Addressed, Globals

LEMMA SendsOut ==
    ASSUME NEW s \in Globals, NEW c \in Cmd
    PROVE  /\ SendMessage(s).out \in Seq(Silent)
           /\ SendCommand(s, c).out \in Seq(From(s.mote_id))
           /\ SendEmergencyTwoRSSI(s).out \in Seq(Silent)
           /\ SendEmergencyTwoAcc(s).out \in Seq(Silent)
<1>1. 0 \in Cmd /\ CMD_QUERY_MOTE \in Cmd
  BY CommandsOf DEF CMD_QUERY_MOTE
<1>2. SendMessage(s).out \in Seq(Silent)
  BY <1>1, FieldsOut, SendingOut DEF SendMessage
<1>3. SendCommand(s, c).out \in Seq(From(s.mote_id))
  <2>. DEFINE w == [s EXCEPT !.command_target = s.mote_id]
  <2>1. Addressed(w) /\ w.mote_id = s.mote_id
    BY FieldsOut, Zenon
  <2>2. SendCommand(s, c) = Sending(w, "command", c)
    BY DEF SendCommand
  <2>. HIDE DEF w
  <2>. QED
    BY <2>1, <2>2, SendingOut
<1>4. SendEmergencyTwoRSSI(s).out \in Seq(Silent)
  BY <1>1, FieldsOut, SendingOut DEF SendEmergencyTwoRSSI
<1>5. SendEmergencyTwoAcc(s).out \in Seq(Silent)
  BY <1>1, FieldsOut, SendingOut DEF SendEmergencyTwoAcc
<1>. QED
  BY <1>2, <1>3, <1>4, <1>5

LEMMA QuietOut == ASSUME NEW s, NEW S PROVE Quietly(s).out \in Seq(S)
<1>1. Quietly(s).out = <<>>
  BY DEF Quietly
<1>2. <<>> \in Seq(S)
  OBVIOUS
<1>. QED
  BY <1>1, <1>2, Zenon

LEMMA HandleCommandOut ==
    ASSUME NEW s, Fits(s), NEW c \in Cmd, NEW t \in Mote
    PROVE  HandleCommand(s, c, t).out \in Seq(Silent)
<1>. DEFINE r == HandleCommand(s, c, t)
            calm == [s EXCEPT !.neighbor_sense_interval = "interval"]
            quiet == [calm EXCEPT !.emergencyTwo = 0]
<1>0. s \in Globals
  BY DEF Fits
<1>1. \/ \E q : r = Quietly(q)
      \/ r = SendMessage(s)
      \/ r = SendEmergencyTwoRSSI(quiet)
      \/ r = SendEmergencyTwoAcc(quiet)
  <2>1. c \in {0, 1, 2, 3, 4, 5}
    BY DEF Cmd, CMD_SET_LOCAL_GW, CMD_CANCEL_EMERGENCY_TWO
  <2>. USE DEF CMD_SET_LOCAL_GW, CMD_QUERY_MOTE, CMD_EMERGENCY_ONE,
               CMD_EMERGENCY_TWO, CMD_CANCEL_EMERGENCY_ONE, CMD_CANCEL_EMERGENCY_TWO
  <2>2. CASE c = 1
    BY <2>2 DEF HandleCommand
  <2>3. CASE c = 5
    <3>1. r = CancelSysEmergencyTwo(s)
      BY <2>3 DEF HandleCommand
    <3>2. \/ CancelSysEmergencyTwo(s) = SendEmergencyTwoRSSI(quiet)
          \/ CancelSysEmergencyTwo(s) = SendEmergencyTwoAcc(quiet)
          \/ CancelSysEmergencyTwo(s) = Quietly(calm)
      <4>1. CASE s.emergencyTwo = 2
        BY <4>1 DEF CancelSysEmergencyTwo
      <4>2. CASE s.emergencyTwo = 1
        BY <4>2 DEF CancelSysEmergencyTwo
      <4>3. CASE s.emergencyTwo # 1 /\ s.emergencyTwo # 2
        BY <4>3 DEF CancelSysEmergencyTwo
      <4>. QED
        BY <4>1, <4>2, <4>3
    <3>. HIDE DEF r, quiet, calm
    <3>. QED
      BY <3>1, <3>2, Zenon
  <2>4. CASE c \notin {1, 5}
    <3>1. \/ r = Quietly(SetLocalGateway(s, t))
          \/ r = Quietly(HandleEmergencyOne(s))
          \/ r = Quietly(HandleEmergencyTwo(s, t))
          \/ r = Quietly(CancelSysEmergencyOne(s))
      BY <2>1, <2>4 DEF HandleCommand
    <3>. HIDE DEF r
    <3>. QED
      BY <3>1, Zenon
  <2>. QED
    BY <2>2, <2>3, <2>4
<1>2. quiet \in Globals
  <2>1. "interval" \in SenseIntervals /\ 0 \in 0..2
    BY DEF SenseIntervals
  <2>2. calm \in Globals
    BY <1>0, <2>1, FieldTypes, Zenon
  <2>. HIDE DEF calm
  <2>. QED
    BY <2>1, <2>2, FieldTypes, Zenon DEF quiet
<1>. HIDE DEF r, quiet
<1>3. SendMessage(s).out \in Seq(Silent)
  BY <1>0, SendsOut, Zenon
<1>4. /\ SendEmergencyTwoRSSI(quiet).out \in Seq(Silent)
      /\ SendEmergencyTwoAcc(quiet).out \in Seq(Silent)
  BY <1>2, SendsOut, Zenon
<1>5. r.out \in Seq(Silent)
  BY <1>1, <1>3, <1>4, QuietOut, Zenon
<1>. QED
  BY <1>5 DEF r

LEMMA TriggerOut ==
    ASSUME NEW s \in Globals
    PROVE  TriggerEmergencyTwo(s).out \in Seq(From(s.mote_id))
<1>. DEFINE u == [s EXCEPT !.emergencyTwo = 1, !.hurried = TRUE]
<1>1. TriggerEmergencyTwo(s) \in {Quietly(s), SendCommand(u, CMD_EMERGENCY_TWO)}
  BY DEF TriggerEmergencyTwo
<1>2. u \in Globals
  <2>. DEFINE one == [s EXCEPT !.emergencyTwo = 1]
              both == [one EXCEPT !.hurried = TRUE]
  <2>1. one \in Globals
    <3>1. 1 \in 0..2
      OBVIOUS
    <3>. QED
      BY <3>1, FieldTypes, Zenon
  <2>2. u = both
    BY DEF Globals
  <2>. HIDE DEF one, u
  <2>. QED
    BY <2>1, <2>2, FieldTypes, Zenon DEF both
<1>3. CMD_EMERGENCY_TWO \in Cmd
  BY CommandsOf DEF CMD_EMERGENCY_TWO
<1>4. u.mote_id = s.mote_id
  BY DEF Globals
<1>. HIDE DEF u
<1>5. SendCommand(u, CMD_EMERGENCY_TWO).out \in Seq(From(s.mote_id))
  BY <1>2, <1>3, <1>4, SendsOut, Zenon
<1>. QED
  BY <1>1, <1>5, QuietOut, Zenon

LEMMA CancelOut ==
    ASSUME NEW s \in Globals
    PROVE  CancelEmergencyTwo(s).out \in Seq(From(s.mote_id))
<1>. DEFINE t == [s EXCEPT !.running_counter = 0]
            u == [t EXCEPT !.emergencyTwo = 0, !.hurried = FALSE]
            told == SendCommand(u, CMD_CANCEL_EMERGENCY_TWO)
            w == told.mote
            all == Then(told, SendEmergencyTwoAcc(w))
<1>1. CancelEmergencyTwo(s) \in {Quietly(t), all}
  BY DEF CancelEmergencyTwo
<1>2. u \in Globals
  <2>. DEFINE none == [t EXCEPT !.emergencyTwo = 0]
              both == [none EXCEPT !.hurried = FALSE]
  <2>1. 0 \in 0..RUNNING_CAP /\ 0 \in 0..2
    BY RunningAssumption
  <2>2. t \in Globals
    BY <2>1, FieldTypes, Zenon
  <2>. HIDE DEF t
  <2>3. none \in Globals
    BY <2>1, <2>2, FieldTypes, Zenon
  <2>4. u = both
    BY <2>2 DEF Globals
  <2>. HIDE DEF none, u
  <2>. QED
    BY <2>3, <2>4, FieldTypes, Zenon DEF both
<1>3. CMD_CANCEL_EMERGENCY_TWO \in Cmd
  BY CommandsOf DEF CMD_CANCEL_EMERGENCY_TWO
<1>0. u.mote_id = s.mote_id
  BY DEF Globals
<1>. HIDE DEF u
<1>4. w \in Globals
  <2>1. w = [u EXCEPT !.command_target = u.mote_id]
    BY Results, Zenon DEF told
  <2>2. u.mote_id \in Mote \cup {0}
    BY <1>2 DEF Globals
  <2>. HIDE DEF w
  <2>3. \A v \in Mote \cup {0} : [u EXCEPT !.command_target = v] \in Globals
    BY <1>2, FieldTypes, Zenon
  <2>. QED
    BY <2>1, <2>2, <2>3, Zenon
<1>5. told.out \in Seq(From(s.mote_id))
  BY <1>0, <1>2, <1>3, SendsOut, Zenon
<1>. HIDE DEF told, w
<1>6. SendEmergencyTwoAcc(w).out \in Seq(From(s.mote_id))
  BY <1>3, <1>4, SendsOut, SilentIsFrom, Zenon
<1>7. all.out = told.out \o SendEmergencyTwoAcc(w).out
  BY DEF Then, SendEmergencyTwoAcc, Sending
<1>8. all.out \in Seq(From(s.mote_id))
  <2>. HIDE DEF all
  <2>. QED
    BY <1>5, <1>6, <1>7, ConcatProperties, Zenon
<1>. HIDE DEF all, t
<1>. QED
  BY <1>1, <1>8, QuietOut, Zenon

LEMMA JudgeOut ==
    ASSUME NEW s \in Globals, NEW running \in BOOLEAN
    PROVE  Judge(s, running).out \in Seq(From(s.mote_id))
<1>. DEFINE n == IF s.running_counter = RUNNING_CAP THEN RUNNING_CAP
                 ELSE s.running_counter + 1
            t == [s EXCEPT !.running_counter = n]
<1>1. s.running_counter \in 0..RUNNING_CAP
  BY FieldRanges
<1>2. n \in 0..RUNNING_CAP
  BY <1>1, RunningAssumption
<1>3. Judge(s, running) \in {CancelEmergencyTwo(s), TriggerEmergencyTwo(t), Quietly(t)}
  <2>1. CASE ~running
    BY <2>1 DEF Judge
  <2>2. CASE running /\ n >= RUNNING_MAX
    BY <2>2 DEF Judge
  <2>3. CASE running /\ ~(n >= RUNNING_MAX)
    BY <2>3 DEF Judge
  <2>. QED
    BY <2>1, <2>2, <2>3
<1>. HIDE DEF n
<1>4. t \in Globals
  BY <1>2, FieldTypes, Zenon
<1>5. t.mote_id = s.mote_id
  BY DEF Globals
<1>. HIDE DEF t
<1>. QED
  BY <1>3, <1>4, <1>5, CancelOut, TriggerOut, QuietOut, Zenon

LEMMA ReadMovementOut ==
    ASSUME NEW s, Fits(s), NEW running \in BOOLEAN
    PROVE  ReadMovement(s, running).out \in Seq(From(s.mote_id))
<1>. DEFINE judged == IF s.odd THEN Quietly(s) ELSE Judge(s, running)
            j == judged.mote
            t == [j EXCEPT !.odd = ~@]
<1>0. s \in Globals
  BY DEF Fits
<1>1. judged.out \in Seq(From(s.mote_id)) /\ j \in Globals
  <2>1. CASE s.odd
    BY <1>0, <2>1, Results, QuietOut
  <2>2. CASE ~s.odd
    BY <1>0, <2>2, JudgeOut, JudgeFits DEF Follows, Fits
  <2>. QED
    BY <2>1, <2>2
<1>2. ReadMovement(s, running) = Then(judged, AddAcc(t))
  BY Zenon DEF ReadMovement
<1>. HIDE DEF judged
<1>3. t \in Globals
  <2>. HIDE DEF j
  <2>1. (~j.odd) \in BOOLEAN
    OBVIOUS
  <2>. QED
    BY <1>1, <2>1, FieldTypes, Zenon
<1>. HIDE DEF t
<1>4. AddAcc(t).out \in Seq(From(s.mote_id))
  <2>. DEFINE u == [t EXCEPT !.eTwoAcc = @ + 1]
  <2>1. \/ AddAcc(t) = Quietly(t) \/ AddAcc(t) = Quietly(u)
        \/ AddAcc(t) = SendEmergencyTwoAcc(u)
    BY DEF AddAcc
  <2>2. SendEmergencyTwoAcc(u).out \in Seq(Silent)
    <3>1. Addressed([u EXCEPT !.eTwoAcc = 0])
      BY <1>3 DEF Globals, Addressed
    <3>2. 0 \in Cmd
      BY CommandsOf
    <3>. HIDE DEF u
    <3>. QED
      BY <3>1, <3>2, SendingOut DEF SendEmergencyTwoAcc
  <2>. HIDE DEF u
  <2>. QED
    BY <2>1, <2>2, QuietOut, SilentIsFrom, Zenon
<1>5. Then(judged, AddAcc(t)).out = judged.out \o AddAcc(t).out
  BY DEF Then, AddAcc, SendEmergencyTwoAcc, Sending, Quietly
<1>. QED
  BY <1>1, <1>2, <1>4, <1>5, ConcatProperties, Zenon

\* The commands among them.
AirPacket == [cmd : 0..5, target : Mote, from : Mote \cup {defaultGateway},
              to : Mote \cup {defaultGateway}]

LEMMA CommandsInAir ==
    ASSUME NEW m, NEW out \in Seq(From(m))
    PROVE  CommandsIn(out) \subseteq {p \in AirPacket : p.target = m}
<1>. SUFFICES ASSUME NEW k \in DOMAIN out, out[k].kind = "command"
              PROVE  Packet(out[k].cmd, out[k].from, out[k].from, out[k].to)
                         \in {p \in AirPacket : p.target = m}
  BY DEF CommandsIn
<1>1. out[k] \in From(m)
  BY ElementOfSeq
<1>2. Cmd = 0..5
  BY DEF Cmd, CMD_SET_LOCAL_GW, CMD_CANCEL_EMERGENCY_TWO
<1>. QED
  BY <1>1, <1>2 DEF From, Outgoing, AirPacket, Packet

\* No handler of a command answers with one.
LEMMA SilentNoCommands == ASSUME NEW out \in Seq(Silent) PROVE CommandsIn(out) = {}
<1>1. \A k \in DOMAIN out : out[k].kind # "command"
  <2>1. \A k \in DOMAIN out : out[k] \in Silent
    BY ElementOfSeq
  <2>. QED
    BY <2>1 DEF Silent
<1>. QED
  BY <1>1 DEF CommandsIn

-----------------------------------------------------------------------------
(* What becomes of emergency two in a step of a mote.                      *)

KeepsAlarm(s, r) ==
    /\ r.mote_id = s.mote_id
    /\ r.emergencyTwo = s.emergencyTwo /\ r.emergencyTarget = s.emergencyTarget

Calmed(s, r) == r.mote_id = s.mote_id /\ r.emergencyTwo = 0

LEMMA FieldsAlarm ==
    ASSUME NEW s \in Globals, NEW v
    PROVE  /\ KeepsAlarm(s, s)
           /\ KeepsAlarm(s, [s EXCEPT !.command_target = v])
           /\ KeepsAlarm(s, [s EXCEPT !.eTwoRSSI = v])
           /\ KeepsAlarm(s, [s EXCEPT !.eTwoAcc = v])
           /\ KeepsAlarm(s, [s EXCEPT !.running_counter = v])
           /\ KeepsAlarm(s, [s EXCEPT !.odd = v])
           /\ KeepsAlarm(s, [s EXCEPT !.neighbor_sense_interval = v])
           /\ Calmed(s, [s EXCEPT !.emergencyTwo = 0])
BY DEF Globals, KeepsAlarm, Calmed

LEMMA AlarmTwice ==
    ASSUME NEW s, NEW t, NEW r, KeepsAlarm(s, t)
    PROVE  /\ KeepsAlarm(t, r) => KeepsAlarm(s, r)
           /\ Calmed(t, r) => Calmed(s, r)
BY DEF KeepsAlarm, Calmed

LEMMA CalmedTwice ==
    ASSUME NEW s, NEW t, NEW r, Calmed(s, t), KeepsAlarm(t, r)
    PROVE  Calmed(s, r)
BY DEF KeepsAlarm, Calmed

LEMMA SendsAlarm ==
    ASSUME NEW s \in Globals, NEW c
    PROVE  /\ KeepsAlarm(s, Quietly(s).mote)
           /\ KeepsAlarm(s, SendMessage(s).mote)
           /\ KeepsAlarm(s, SendCommand(s, c).mote)
           /\ KeepsAlarm(s, SendEmergencyTwoRSSI(s).mote)
           /\ KeepsAlarm(s, SendEmergencyTwoAcc(s).mote)
<1>1. /\ Quietly(s).mote = s /\ SendMessage(s).mote = s
      /\ SendCommand(s, c).mote = [s EXCEPT !.command_target = s.mote_id]
      /\ SendEmergencyTwoRSSI(s).mote = [s EXCEPT !.eTwoRSSI = 0]
      /\ SendEmergencyTwoAcc(s).mote = [s EXCEPT !.eTwoAcc = 0]
  BY Results, Zenon
<1>2. KeepsAlarm(s, Quietly(s).mote) /\ KeepsAlarm(s, SendMessage(s).mote)
  BY <1>1 DEF KeepsAlarm
<1>3. KeepsAlarm(s, SendCommand(s, c).mote)
  BY <1>1 DEF KeepsAlarm, Globals
<1>4. KeepsAlarm(s, SendEmergencyTwoRSSI(s).mote)
  BY <1>1 DEF KeepsAlarm, Globals
<1>5. KeepsAlarm(s, SendEmergencyTwoAcc(s).mote)
  BY <1>1 DEF KeepsAlarm, Globals
<1>. QED
  BY <1>2, <1>3, <1>4, <1>5

\* A role is no emergency.
LEMMA RoleKeepsEmergency ==
    ASSUME NEW s \in Globals, NEW t
    PROVE  KeepsAlarm(s, SetLocalGateway(s, t))
BY DEF SetLocalGateway, KeepsAlarm, Globals

\* A command ends the emergency, leaves it alone, or sets the mote to watch over
\* the cow that the command names.
LEMMA HandleCommandAlarm ==
    ASSUME NEW s, Fits(s), NEW c \in Cmd, NEW t \in Mote
    PROVE  \/ KeepsAlarm(s, HandleCommand(s, c, t).mote)
           \/ Calmed(s, HandleCommand(s, c, t).mote)
           \/ /\ HandleCommand(s, c, t).mote.mote_id = s.mote_id
              /\ HandleCommand(s, c, t).mote.emergencyTwo = 2
              /\ HandleCommand(s, c, t).mote.emergencyTarget = t
<1>. DEFINE r == HandleCommand(s, c, t)
            calm == [s EXCEPT !.neighbor_sense_interval = "interval"]
            quiet == [calm EXCEPT !.emergencyTwo = 0]
<1>0. s \in Globals
  BY DEF Fits
<1>1. c \in {0, 1, 2, 3, 4, 5}
  BY DEF Cmd, CMD_SET_LOCAL_GW, CMD_CANCEL_EMERGENCY_TWO
<1>. USE DEF CMD_SET_LOCAL_GW, CMD_QUERY_MOTE, CMD_EMERGENCY_ONE,
             CMD_EMERGENCY_TWO, CMD_CANCEL_EMERGENCY_ONE, CMD_CANCEL_EMERGENCY_TWO
<1>2. CASE c = 0
  <2>1. r.mote = SetLocalGateway(s, t)
    BY <1>2 DEF HandleCommand, Quietly
  <2>2. KeepsAlarm(s, SetLocalGateway(s, t))
    BY <1>0, RoleKeepsEmergency
  <2>. QED
    BY <2>1, <2>2
<1>3. CASE c = 1
  <2>1. r = SendMessage(s)
    BY <1>3 DEF HandleCommand
  <2>. QED
    BY <1>0, <2>1, SendsAlarm
<1>4. CASE c = 2
  <2>1. r.mote = HandleEmergencyOne(s)
    BY <1>4 DEF HandleCommand, Quietly
  <2>2. KeepsAlarm(s, HandleEmergencyOne(s))
    BY <1>0 DEF HandleEmergencyOne, KeepsAlarm, Globals
  <2>. QED
    BY <2>1, <2>2
<1>5. CASE c = 3
  <2>1. r.mote = HandleEmergencyTwo(s, t)
    BY <1>5 DEF HandleCommand, Quietly
  <2>2. CASE s.emergencyTwo = 1 \/ s.mote_id = t
    BY <1>0, <2>1, <2>2, FieldsAlarm DEF HandleEmergencyTwo
  <2>3. CASE ~(s.emergencyTwo = 1 \/ s.mote_id = t)
    <3>. DEFINE w == HandleEmergencyTwo(s, t)
    <3>1. w.mote_id = s.mote_id /\ w.emergencyTwo = 2 /\ w.emergencyTarget = t
      BY <1>0, <2>3 DEF HandleEmergencyTwo, Globals
    <3>. HIDE DEF w
    <3>. QED
      BY <2>1, <3>1 DEF w
  <2>. QED
    BY <2>2, <2>3
<1>6. CASE c = 4
  <2>1. r.mote = CancelSysEmergencyOne(s)
    BY <1>6 DEF HandleCommand, Quietly
  <2>2. KeepsAlarm(s, CancelSysEmergencyOne(s))
    BY <1>0 DEF CancelSysEmergencyOne, KeepsAlarm, Globals
  <2>. QED
    BY <2>1, <2>2
<1>7. CASE c = 5
  <2>1. r = CancelSysEmergencyTwo(s)
    BY <1>7 DEF HandleCommand
  <2>2. r \in {SendEmergencyTwoRSSI(quiet), SendEmergencyTwoAcc(quiet), Quietly(calm)}
    BY <2>1 DEF CancelSysEmergencyTwo
  <2>3. calm \in Globals
    <3>1. "interval" \in SenseIntervals
      BY DEF SenseIntervals
    <3>. QED
      BY <1>0, <3>1, FieldTypes, Zenon
  <2>4. KeepsAlarm(s, calm)
    BY <1>0, FieldsAlarm, Zenon
  <2>. HIDE DEF calm
  <2>5. Calmed(s, quiet)
    BY <2>3, <2>4, FieldsAlarm, AlarmTwice, Zenon
  <2>6. quiet \in Globals
    <3>1. 0 \in 0..2
      OBVIOUS
    <3>. QED
      BY <2>3, <3>1, FieldTypes, Zenon DEF quiet
  <2>. HIDE DEF quiet, r
  <2>7. KeepsAlarm(s, r.mote) \/ Calmed(s, r.mote)
    BY <2>2, <2>3, <2>4, <2>5, <2>6, SendsAlarm, AlarmTwice, CalmedTwice, Zenon
  <2>. QED
    BY <2>7 DEF r
<1>. QED
  BY <1>1, <1>2, <1>3, <1>4, <1>5, <1>6, <1>7

\* The cow either raises an alarm by running, or the emergency goes on or ends;
\* nothing is sent that has no emergency or running cow behind it.
LEMMA JudgeAlarm ==
    ASSUME NEW s \in Globals, NEW running \in BOOLEAN
    PROVE  /\ \/ KeepsAlarm(s, Judge(s, running).mote)
              \/ Calmed(s, Judge(s, running).mote)
              \/ /\ running /\ Judge(s, running).mote.mote_id = s.mote_id
                 /\ Judge(s, running).mote.emergencyTwo = 1
           /\ s.emergencyTwo = 0 /\ ~running => Judge(s, running).out = <<>>
<1>. DEFINE n == IF s.running_counter = RUNNING_CAP THEN RUNNING_CAP
                 ELSE s.running_counter + 1
            t == [s EXCEPT !.running_counter = n]
            z == [s EXCEPT !.running_counter = 0]
            u == [t EXCEPT !.emergencyTwo = 1, !.hurried = TRUE]
            e == [z EXCEPT !.emergencyTwo = 0, !.hurried = FALSE]
            told == SendCommand(e, CMD_CANCEL_EMERGENCY_TWO)
<1>1. KeepsAlarm(s, t) /\ KeepsAlarm(s, z)
  BY FieldsAlarm, Zenon
<1>2. CASE ~running
  <2>1. \/ /\ s.emergencyTwo = 0 /\ Judge(s, running) = Quietly(z)
        \/ /\ s.emergencyTwo # 0
           /\ Judge(s, running) = Then(told, SendEmergencyTwoAcc(told.mote))
    BY <1>2 DEF Judge, CancelEmergencyTwo
  <2>2. Calmed(s, e)
    BY DEF Globals, Calmed
  <2>3. KeepsAlarm(e, told.mote)
    <3>1. told.mote = [e EXCEPT !.command_target = e.mote_id]
      BY Results, Zenon
    <3>2. KeepsAlarm(e, [e EXCEPT !.command_target = e.mote_id])
      BY DEF KeepsAlarm, Globals
    <3>. QED
      BY <3>1, <3>2, Zenon
  <2>4. KeepsAlarm(told.mote, SendEmergencyTwoAcc(told.mote).mote)
    <3>1. told.mote = [e EXCEPT !.command_target = e.mote_id]
      BY Results, Zenon
    <3>2. KeepsAlarm(told.mote, [told.mote EXCEPT !.eTwoAcc = 0])
      <4>. DEFINE w == [e EXCEPT !.command_target = e.mote_id]
      <4>1. KeepsAlarm(w, [w EXCEPT !.eTwoAcc = 0])
        BY DEF KeepsAlarm, Globals
      <4>. QED
        BY <3>1, <4>1, Zenon
    <3>. QED
      BY <3>2, Results, Zenon
  <2>5. Then(told, SendEmergencyTwoAcc(told.mote)).mote
            = SendEmergencyTwoAcc(told.mote).mote
    BY DEF Then, SendEmergencyTwoAcc, Sending
  <2>. HIDE DEF told, e
  <2>6. Calmed(s, Then(told, SendEmergencyTwoAcc(told.mote)).mote)
    BY <2>2, <2>3, <2>4, <2>5, CalmedTwice, Zenon
  <2>7. Quietly(z).mote = z /\ Quietly(z).out = <<>>
    BY Results, Zenon
  <2>. HIDE DEF z
  <2>8. CASE s.emergencyTwo = 0 /\ Judge(s, running) = Quietly(z)
    BY <1>1, <2>7, <2>8, Zenon
  <2>9. CASE s.emergencyTwo # 0 /\ Judge(s, running) = Then(told, SendEmergencyTwoAcc(told.mote))
    BY <2>6, <2>9, Zenon
  <2>. QED
    BY <2>1, <2>8, <2>9
<1>3. CASE running /\ n >= RUNNING_MAX
  <2>1. Judge(s, running) = TriggerEmergencyTwo(t)
    BY <1>3 DEF Judge
  <2>2. CASE t.emergencyTwo = 1
    <3>1. TriggerEmergencyTwo(t).mote = t
      BY <2>2 DEF TriggerEmergencyTwo, Quietly
    <3>. QED
      BY <1>1, <1>3, <2>1, <3>1, Zenon
  <2>3. CASE t.emergencyTwo # 1
    <3>1. TriggerEmergencyTwo(t) = SendCommand(u, CMD_EMERGENCY_TWO)
      BY <2>3 DEF TriggerEmergencyTwo
    <3>4. TriggerEmergencyTwo(t).mote = [u EXCEPT !.command_target = u.mote_id]
      <4>. HIDE DEF u
      <4>1. SendCommand(u, CMD_EMERGENCY_TWO).mote = [u EXCEPT !.command_target = u.mote_id]
        BY Results, Zenon
      <4>. HIDE DEF t
      <4>. QED
        BY <3>1, <4>1, Zenon
    <3>2. /\ [u EXCEPT !.command_target = u.mote_id].mote_id = s.mote_id
          /\ [u EXCEPT !.command_target = u.mote_id].emergencyTwo = 1
      BY DEF Globals
    <3>. QED
      BY <1>3, <2>1, <3>4, <3>2, Zenon
  <2>. QED
    BY <2>2, <2>3
<1>4. CASE running /\ ~(n >= RUNNING_MAX)
  <2>1. Judge(s, running).mote = t
    BY <1>4 DEF Judge, Quietly
  <2>. QED
    BY <1>1, <1>4, <2>1, Zenon
<1>. QED
  BY <1>2, <1>3, <1>4

LEMMA ReadMovementAlarm ==
    ASSUME NEW s, Fits(s), NEW running \in BOOLEAN
    PROVE  /\ \/ KeepsAlarm(s, ReadMovement(s, running).mote)
              \/ Calmed(s, ReadMovement(s, running).mote)
              \/ /\ running /\ ~s.odd /\ ReadMovement(s, running).mote.mote_id = s.mote_id
                 /\ ReadMovement(s, running).mote.emergencyTwo = 1
           /\ s.emergencyTwo = 0 /\ ~(running /\ ~s.odd)
                  => ReadMovement(s, running).out = <<>>
<1>. DEFINE judged == IF s.odd THEN Quietly(s) ELSE Judge(s, running)
            j == judged.mote
            t == [j EXCEPT !.odd = ~@]
            a == AddAcc(t)
            r == ReadMovement(s, running)
<1>0. s \in Globals
  BY DEF Fits
<1>1. /\ \/ KeepsAlarm(s, j) \/ Calmed(s, j)
         \/ running /\ ~s.odd /\ j.mote_id = s.mote_id /\ j.emergencyTwo = 1
      /\ s.emergencyTwo = 0 /\ ~(running /\ ~s.odd) => judged.out = <<>>
  <2>1. CASE s.odd
    <3>1. j = s /\ judged.out = <<>>
      BY <2>1, Results
    <3>. QED
      BY <1>0, <3>1, FieldsAlarm
  <2>2. CASE ~s.odd
    <3>1. judged = Judge(s, running)
      BY <2>2
    <3>. HIDE DEF judged
    <3>. QED
      BY <1>0, <2>2, <3>1, JudgeAlarm
  <2>. QED
    BY <2>1, <2>2
<1>2. j \in Globals
  <2>1. CASE s.odd
    BY <1>0, <2>1, Results
  <2>2. CASE ~s.odd
    BY <2>2, JudgeFits DEF Follows, Fits
  <2>. QED
    BY <2>1, <2>2
<1>3. r = Then(judged, a)
  BY Zenon DEF ReadMovement
<1>. HIDE DEF judged
<1>4. KeepsAlarm(j, t)
  BY <1>2, FieldsAlarm, Zenon
<1>5. t \in Globals
  <2>. HIDE DEF j
  <2>1. (~j.odd) \in BOOLEAN
    OBVIOUS
  <2>. QED
    BY <1>2, <2>1, FieldTypes, Zenon
<1>. HIDE DEF t
<1>6. KeepsAlarm(t, a.mote) /\ (t.emergencyTwo # 1 => a.out = <<>>)
  BY <1>5 DEF AddAcc, SendEmergencyTwoAcc, Sending, Quietly, KeepsAlarm, Globals
<1>7. r.mote = a.mote /\ r.out = judged.out \o a.out
  <2>1. r.mote = a.mote
    BY <1>3 DEF Then, AddAcc, SendEmergencyTwoAcc, Sending, Quietly
  <2>2. r.out = judged.out \o a.out
    BY <1>3 DEF Then, AddAcc, SendEmergencyTwoAcc, Sending, Quietly
  <2>. QED
    BY <2>1, <2>2
<1>. HIDE DEF a, r, j
<1>8. KeepsAlarm(j, r.mote)
  BY <1>4, <1>6, <1>7, AlarmTwice, Zenon
<1>9. \/ KeepsAlarm(s, r.mote) \/ Calmed(s, r.mote)
      \/ running /\ ~s.odd /\ r.mote.mote_id = s.mote_id /\ r.mote.emergencyTwo = 1
  <2>1. CASE KeepsAlarm(s, j)
    BY <1>8, <2>1, AlarmTwice, Zenon
  <2>2. CASE Calmed(s, j)
    BY <1>8, <2>2, CalmedTwice, Zenon
  <2>3. CASE running /\ ~s.odd /\ j.mote_id = s.mote_id /\ j.emergencyTwo = 1
    BY <1>8, <2>3 DEF KeepsAlarm
  <2>. QED
    BY <1>1, <2>1, <2>2, <2>3
<1>10. ASSUME s.emergencyTwo = 0, ~(running /\ ~s.odd)
       PROVE  r.out = <<>>
  <2>1. judged.out = <<>> /\ j.emergencyTwo = 0
    BY <1>1, <1>10 DEF KeepsAlarm, Calmed
  <2>2. a.out = <<>>
    BY <1>4, <1>6, <2>1 DEF KeepsAlarm
  <2>. QED
    BY <1>7, <2>1, <2>2
<1>. QED
  BY <1>9, <1>10 DEF r

LEMMA BroadcastRecvAlarm ==
    ASSUME NEW s, Fits(s), NEW from
    PROVE  KeepsAlarm(s, BroadcastRecv(s, from).mote)
BY DEF BroadcastRecv, SendEmergencyTwoRSSI, Sending, Quietly, KeepsAlarm, Fits, Globals

-----------------------------------------------------------------------------
(* The types.                                                              *)

\* All registered cows, one after the other.
LEMMA EveryoneIsSeq == Everyone \in Seq(Mote)
<1>1. IsFiniteSet(Mote)
  <2>1. IsFiniteSet(1..255)
    <3>1. 1 \in Int /\ 255 \in Int
      OBVIOUS
    <3>. QED
      BY <3>1, FS_Interval, Zenon
  <2>2. Mote \in SUBSET (1..255)
    BY AddressAssumption, Zenon
  <2>. QED
    BY <2>1, <2>2, FS_Subset, Zenon
<1>. DEFINE n == Cardinality(Mote)
<1>2. n \in Nat /\ \E f \in [1..n -> Mote] : IsInjective(f)
  <2>1. n \in Nat /\ ExistsBijection(1..n, Mote)
    BY <1>1, FS_CardinalityType
  <2>. QED
    BY <2>1 DEF ExistsBijection, Bijection, Injection
<1>3. Everyone \in [1..n -> Mote]
  BY <1>2 DEF Everyone, SetToSeq
<1>. HIDE DEF n
<1>. QED
  <2>1. n \in Nat
    BY <1>2, Zenon
  <2>. QED
    BY <1>3, <2>1, SeqDef

-----------------------------------------------------------------------------
\* The commander has something to send only while it has a command.
TInv ==
    /\ motes \in [Mote -> Globals]
    /\ \A m \in Mote : Fits(motes[m]) /\ motes[m].mote_id = m
    /\ queue \in Seq(QueuedCommand) /\ Len(queue) <= MaxQueued
    /\ left \in Seq(Mote)
    /\ left # <<>> => cmd \in 0..5 /\ target \in Mote
    /\ air \subseteq AirPacket
    /\ ran \subseteq Mote /\ monitors \subseteq Mote

LEMMA InitTInv ==
    ASSUME HerdAssumption, Init
    PROVE  TInv
<1>1. queue = <<>> /\ left = <<>> /\ air = {} /\ ran = {} /\ monitors = {}
  BY DEF Init, Queue!Init
<1>2. PICK head \in Heads : motes = [m \in Mote |->
          IF head[m] = defaultGateway THEN Booted(m)
          ELSE SetLocalGateway(Booted(m), head[m])]
  BY DEF Init
<1>3. ASSUME NEW m \in Mote PROVE Fits(motes[m]) /\ motes[m].mote_id = m
  <2>1. Fits(Booted(m)) /\ Booted(m).mote_id = m
    BY BootedFits DEF Booted
  <2>2. CASE head[m] = defaultGateway
    BY <1>2, <2>1, <2>2, Zenon
  <2>3. CASE head[m] # defaultGateway
    <3>. DEFINE s == Booted(m)
                r == SetLocalGateway(s, head[m])
    <3>1. motes[m] = r /\ head[m] \in Mote
      BY <1>2, <2>3 DEF HerdAssumption
    <3>2. Fits(r)
      BY <2>1, <3>1, SetLocalGatewayFits DEF Follows
    <3>3. r.mote_id = s.mote_id
      <4>1. s \in Globals
        BY <2>1 DEF Fits
      <4>. HIDE DEF s
      <4>. QED
        BY <4>1 DEF SetLocalGateway, Globals
    <3>. HIDE DEF r
    <3>. QED
      BY <2>1, <3>1, <3>2, <3>3, Zenon
  <2>. QED
    BY <2>2, <2>3
<1>4. motes \in [Mote -> Globals]
  BY <1>2, <1>3 DEF Fits
<1>5. Len(queue) <= MaxQueued
  BY <1>1 DEF HerdAssumption
<1>. QED
  BY <1>1, <1>3, <1>4, <1>5 DEF TInv

\* What a mote does leaves the others as they are.
LEMMA DoesKeepsTypes ==
    ASSUME TInv, NEW m \in Mote, NEW r, Fits(r.mote), r.mote.mote_id = m, Does(m, r),
           UNCHANGED queueVars, air' \subseteq AirPacket, ran' \subseteq Mote
    PROVE  TInv'
<1>1. r.mote \in Globals
  BY DEF Fits
<1>2. motes' = [motes EXCEPT ![m] = r.mote]
  BY DEF Does
<1>3. /\ motes' \in [Mote -> Globals]
      /\ \A k \in Mote : Fits(motes'[k]) /\ motes'[k].mote_id = k
  BY <1>1, <1>2 DEF TInv
<1>4. monitors' \subseteq Mote
  BY DEF Does, TInv
<1>. QED
  BY <1>3, <1>4 DEF TInv, queueVars

\* The steps of a mote, and what they send.
LEMMA MovementResult ==
    ASSUME TInv, NEW m \in Mote, NEW running \in BOOLEAN, MovementRead(m, running),
           NEW r, r = ReadMovement(motes[m], running)
    PROVE  /\ Fits(r.mote) /\ r.mote.mote_id = m /\ Does(m, r)
           /\ CommandsIn(r.out) \subseteq {p \in AirPacket : p.target = m}
           /\ air' = air \cup CommandsIn(r.out) /\ UNCHANGED queueVars
<1>1. Fits(motes[m]) /\ motes[m].mote_id = m
  BY DEF TInv
<1>2. Fits(r.mote) /\ r.out \in Seq(From(motes[m].mote_id))
  BY <1>1, ReadMovementFits, ReadMovementOut DEF Follows
<1>3. r.mote.mote_id = motes[m].mote_id
  BY <1>1, ReadMovementAlarm DEF KeepsAlarm, Calmed
<1>4. Does(m, r) /\ UNCHANGED queueVars /\ air' = air \cup CommandsIn(r.out)
  BY Zenon DEF MovementRead
<1>5. CommandsIn(r.out) \subseteq {p \in AirPacket : p.target = m}
  BY <1>1, <1>2, CommandsInAir, Zenon
<1>. QED
  BY <1>1, <1>2, <1>3, <1>4, <1>5

LEMMA HearResult ==
    ASSUME TInv, NEW m \in Mote, NEW from \in Mote, HearNeighbour(m, from),
           NEW r, r = BroadcastRecv(motes[m], from)
    PROVE  Fits(r.mote) /\ KeepsAlarm(motes[m], r.mote) /\ Does(m, r)
<1>1. Fits(motes[m])
  BY DEF TInv
<1>2. Fits(r.mote) /\ KeepsAlarm(motes[m], r.mote)
  BY <1>1, BroadcastRecvFits, BroadcastRecvAlarm DEF Follows
<1>3. Does(m, r)
  BY Zenon DEF HearNeighbour
<1>. QED
  BY <1>2, <1>3

LEMMA ReceiveResult ==
    ASSUME TInv, NEW p \in air, MoteReceives(p),
           NEW r, r = HandleCommand(motes[p.to], p.cmd, p.target)
    PROVE  /\ p.to \in Mote /\ Fits(r.mote) /\ r.mote.mote_id = p.to
           /\ Does(p.to, r)
           /\ air' \in {air, air \ {p}} /\ UNCHANGED <<queueVars, ran>>
           /\ \/ KeepsAlarm(motes[p.to], r.mote) \/ Calmed(motes[p.to], r.mote)
              \/ r.mote.emergencyTwo = 2 /\ r.mote.emergencyTarget = p.target
<1>1. p.to \in Mote /\ p.cmd \in Cmd /\ p.target \in Mote
  BY CommandsOf DEF MoteReceives, TInv, AirPacket
<1>2. Fits(motes[p.to]) /\ motes[p.to].mote_id = p.to
  BY <1>1 DEF TInv
<1>3. Fits(r.mote) /\ r.out \in Seq(Silent)
  BY <1>1, <1>2, HandleCommandFits, HandleCommandOut DEF Follows
<1>4. /\ \/ KeepsAlarm(motes[p.to], r.mote) \/ Calmed(motes[p.to], r.mote)
         \/ r.mote.emergencyTwo = 2 /\ r.mote.emergencyTarget = p.target
      /\ r.mote.mote_id = motes[p.to].mote_id
  BY <1>1, <1>2, HandleCommandAlarm DEF KeepsAlarm, Calmed
<1>5. /\ Does(p.to, r) /\ UNCHANGED <<queueVars, ran>>
      /\ \E rest \in {air, air \ {p}} : air' = rest \cup CommandsIn(r.out)
  BY Zenon DEF MoteReceives
<1>6. CommandsIn(r.out) = {}
  BY <1>3, SilentNoCommands, Zenon
<1>7. air' \in {air, air \ {p}}
  BY <1>5, <1>6
<1>. QED
  BY <1>1, <1>2, <1>3, <1>4, <1>5, <1>7

LEMMA MotesKeepTInv ==
    ASSUME TInv
    PROVE  /\ \A m \in Mote, running \in BOOLEAN : MovementRead(m, running) => TInv'
           /\ \A m, from \in Mote : HearNeighbour(m, from) => TInv'
           /\ \A p \in air : MoteReceives(p) => TInv'
<1>0. air \subseteq AirPacket /\ ran \subseteq Mote
  BY DEF TInv
<1>1. ASSUME NEW m \in Mote, NEW running \in BOOLEAN, MovementRead(m, running)
      PROVE  TInv'
  <2>. DEFINE r == ReadMovement(motes[m], running)
  <2>1. ran' \subseteq Mote
    BY <1>0, <1>1 DEF MovementRead
  <2>. HIDE DEF r
  <2>2. /\ Fits(r.mote) /\ r.mote.mote_id = m /\ Does(m, r) /\ UNCHANGED queueVars
        /\ CommandsIn(r.out) \subseteq {p \in AirPacket : p.target = m}
        /\ air' = air \cup CommandsIn(r.out)
    BY <1>1, MovementResult, ZenonT(60) DEF r
  <2>3. air' \subseteq AirPacket
    BY <1>0, <2>2
  <2>. QED
    BY <2>1, <2>2, <2>3, DoesKeepsTypes, Zenon
<1>2. ASSUME NEW m \in Mote, NEW from \in Mote, HearNeighbour(m, from)
      PROVE  TInv'
  <2>. DEFINE r == BroadcastRecv(motes[m], from)
  <2>1. UNCHANGED queueVars /\ air' \subseteq AirPacket /\ ran' \subseteq Mote
    BY <1>0, <1>2 DEF HearNeighbour
  <2>. HIDE DEF r
  <2>2. Fits(r.mote) /\ KeepsAlarm(motes[m], r.mote) /\ Does(m, r)
    BY <1>2, HearResult, Zenon DEF r
  <2>3. r.mote.mote_id = m
    BY <2>2 DEF KeepsAlarm, TInv
  <2>. QED
    BY <2>1, <2>2, <2>3, DoesKeepsTypes, Zenon
<1>3. ASSUME NEW p \in air, MoteReceives(p)
      PROVE  TInv'
  <2>. DEFINE r == HandleCommand(motes[p.to], p.cmd, p.target)
  <2>. HIDE DEF r
  <2>1. /\ p.to \in Mote /\ Fits(r.mote) /\ r.mote.mote_id = p.to /\ Does(p.to, r)
        /\ air' \in {air, air \ {p}} /\ UNCHANGED <<queueVars, ran>>
    BY <1>3, ReceiveResult, Zenon DEF r
  <2>2. UNCHANGED queueVars /\ air' \subseteq AirPacket /\ ran' \subseteq Mote
    BY <1>0, <2>1
  <2>. QED
    BY <2>1, <2>2, DoesKeepsTypes, Zenon
<1>. QED
  BY <1>1, <1>2, <1>3

LEMMA GatewayKeepsTInv ==
    ASSUME HerdAssumption, TInv, NEW p \in air, GatewayReceives(p)
    PROVE  TInv'
<1>1. UNCHANGED <<motes, ran, monitors>> /\ air' \subseteq AirPacket
  BY DEF GatewayReceives, TInv, history
<1>2. CASE UNCHANGED queueVars
  BY <1>1, <1>2 DEF TInv, queueVars
<1>3. CASE Len(queue) < MaxQueued /\ queue' = Append(queue, Queued(p)) /\ Queue!Accept
  <2>1. Queued(p) \in QueuedCommand
    BY DEF Queued, QueuedCommand, TInv, AirPacket
  <2>2. queue \in Seq(QueuedCommand)
    BY DEF TInv
  <2>3. queue' \in Seq(QueuedCommand) /\ Len(queue') = Len(queue) + 1
    BY <1>3, <2>1, <2>2, AppendProperties
  <2>4. Len(queue') <= MaxQueued
    BY <1>3, <2>2, <2>3 DEF HerdAssumption
  <2>5. UNCHANGED <<cmd, target, left>>
    BY <1>3 DEF Queue!Accept
  <2>. QED
    BY <1>1, <2>3, <2>4, <2>5 DEF TInv
<1>. QED
  BY <1>2, <1>3 DEF GatewayReceives

LEMMA CommanderKeepsTInv ==
    ASSUME HerdAssumption, TInv, Commander
    PROVE  TInv'
<1>1. UNCHANGED <<motes, ran, monitors>>
  BY DEF Commander, history
<1>2. CASE Queue!Take /\ left' = Everyone /\ UNCHANGED air
  <2>1. /\ queue \in Seq(QueuedCommand) /\ queue # <<>> /\ queue' = Tail(queue)
        /\ cmd' = Head(queue).cmd /\ target' = Head(queue).target
    BY <1>2 DEF Queue!Take, TInv
  <2>2. Head(queue) \in QueuedCommand
    BY <2>1, HeadTailProperties
  <2>3. cmd' \in 0..5 /\ target' \in Mote
    BY <2>1, <2>2 DEF QueuedCommand, CMD_EMERGENCY_TWO
  <2>4. queue' \in Seq(QueuedCommand) /\ Len(queue') = Len(queue) - 1
    BY <2>1, HeadTailProperties
  <2>5. Len(queue') <= MaxQueued
    BY <2>1, <2>4 DEF TInv, HerdAssumption
  <2>6. left' \in Seq(Mote)
    BY <1>2, EveryoneIsSeq
  <2>. QED
    BY <1>1, <1>2, <2>3, <2>4, <2>5, <2>6 DEF TInv
<1>3. CASE Queue!SendOne /\ air' = air \cup {Packet(cmd, target, defaultGateway, sent'.to)}
  <2>1. /\ left # <<>> /\ left' = Tail(left) /\ left \in Seq(Mote)
        /\ sent'.to = Head(left)
        /\ UNCHANGED <<queue, cmd, target>>
    BY <1>3 DEF Queue!SendOne, Queue!Packet, TInv
  <2>2. Head(left) \in Mote /\ left' \in Seq(Mote)
    BY <2>1, HeadTailProperties
  <2>3. cmd \in 0..5 /\ target \in Mote
    BY <2>1 DEF TInv
  <2>4. Packet(cmd, target, defaultGateway, sent'.to) \in AirPacket
    BY <2>1, <2>2, <2>3 DEF Packet, AirPacket
  <2>5. air' \subseteq AirPacket
    BY <1>3, <2>4 DEF TInv
  <2>. QED
    BY <1>1, <2>1, <2>2, <2>3, <2>5 DEF TInv
<1>. QED
  BY <1>2, <1>3 DEF Commander

LEMMA StepKeepsTInv ==
    ASSUME HerdAssumption, TInv, [Next]_vars
    PROVE  TInv'
<1>1. ASSUME NEW p \in air, Lose(p) PROVE TInv'
  BY <1>1 DEF Lose, TInv, queueVars, history
<1>2. CASE UNCHANGED vars
  BY <1>2 DEF TInv, vars, queueVars, history
<1>. QED
  BY <1>1, <1>2, MotesKeepTInv, GatewayKeepsTInv, CommanderKeepsTInv DEF Next

LEMMA TInvHolds == HerdAssumption => (Spec => []TInv)
<1>. SUFFICES ASSUME HerdAssumption PROVE Spec => []TInv
  OBVIOUS
<1>1. Init => TInv
  BY InitTInv
<1>2. TInv /\ [Next]_vars => TInv'
  BY StepKeepsTInv
<1>. QED
  BY <1>1, <1>2, PTL DEF Spec

\* Whatever is lost, repeated or overtaken on the way, every command in the air
\* has a sender, a recipient and a cow it is about (krava.c:124-176,
\* gateway.c:606-667), and the queue keeps to its length.
THEOREM RunningCowTypeCorrect == HerdAssumption => (Spec => []TypeOK)
<1>1. TInv => TypeOK
  BY DEF TInv, TypeOK, AirPacket
<1>. QED
  BY <1>1, TInvHolds, PTL

-----------------------------------------------------------------------------
(* The causes.                                                             *)

\* Every mote that watches is recorded as having done so.
WatchersKnown == \A m \in Mote : motes[m].emergencyTwo = 2 => m \in monitors

EInv == EmergencyHasCause /\ WatchersKnown

LEMMA InitEInv ==
    ASSUME Init, TInv
    PROVE  EInv
<1>1. queue = <<>> /\ left = <<>> /\ air = {} /\ monitors = {}
  BY DEF Init, Queue!Init
<1>2. PICK head \in Heads : motes = [m \in Mote |->
          IF head[m] = defaultGateway THEN Booted(m)
          ELSE SetLocalGateway(Booted(m), head[m])]
  BY DEF Init
<1>3. ASSUME NEW m \in Mote PROVE motes[m].emergencyTwo = 0
  <2>. DEFINE s == Booted(m)
  <2>1. s \in Globals /\ s.emergencyTwo = 0
    BY BootedFits DEF Fits, Booted
  <2>2. motes[m] = s \/ motes[m] = SetLocalGateway(s, head[m])
    <3>1. motes[m] = IF head[m] = defaultGateway THEN Booted(m)
                     ELSE SetLocalGateway(Booted(m), head[m])
      BY <1>2, ZenonT(30)
    <3>2. CASE head[m] = defaultGateway
      BY <3>1, <3>2
    <3>3. CASE head[m] # defaultGateway
      BY <3>1, <3>3
    <3>. QED
      BY <3>2, <3>3
  <2>. HIDE DEF s
  <2>. QED
    BY <2>1, <2>2, RoleKeepsEmergency DEF KeepsAlarm
<1>. QED
  BY <1>1, <1>3 DEF EInv, EmergencyHasCause, WatchersKnown

\* A mote makes a step that leaves its emergency alone, ends it, finds its own
\* cow running, or is told of a cow that is accounted for.
LEMMA MoteKeepsEInv ==
    ASSUME TInv, EInv, NEW m \in Mote, NEW r, Does(m, r),
           \/ KeepsAlarm(motes[m], r.mote) \/ Calmed(motes[m], r.mote)
           \/ r.mote.emergencyTwo = 1 /\ m \in ran'
           \/ /\ r.mote.emergencyTwo = 2
              /\ r.mote.emergencyTarget \in ran \cup monitors,
           ran \subseteq ran', UNCHANGED queueVars,
           \A p \in air' : p.target \in ran' \cup monitors'
    PROVE  EInv'
<1>. DEFINE s == motes[m]
            caused == ran \cup monitors
<1>1. motes' = [motes EXCEPT ![m] = r.mote] /\ motes \in [Mote -> Globals]
  BY DEF Does, TInv
<1>2. motes'[m] = r.mote /\ \A k \in Mote \ {m} : motes'[k] = motes[k]
  BY <1>1
<1>3. monitors \subseteq monitors' /\ (r.mote.emergencyTwo = 2 => m \in monitors')
  BY DEF Does
<1>4. /\ s.emergencyTwo = 1 => m \in ran
      /\ s.emergencyTwo = 2 => s.emergencyTarget \in caused /\ m \in monitors
  BY DEF EInv, EmergencyHasCause, WatchersKnown
<1>5. r.mote.emergencyTwo = 1 => m \in ran'
  BY <1>4 DEF KeepsAlarm, Calmed
<1>6. r.mote.emergencyTwo = 2 => r.mote.emergencyTarget \in caused
  BY <1>4 DEF KeepsAlarm, Calmed
<1>7. ASSUME NEW k \in Mote
      PROVE  /\ motes'[k].emergencyTwo = 1 => k \in ran'
             /\ motes'[k].emergencyTwo = 2 => motes'[k].emergencyTarget \in caused
             /\ motes'[k].emergencyTwo = 2 => k \in monitors'
  <2>1. CASE k = m
    BY <1>2, <1>3, <1>5, <1>6, <2>1
  <2>2. CASE k # m
    BY <1>2, <1>3, <2>2 DEF EInv, EmergencyHasCause, WatchersKnown
  <2>. QED
    BY <2>1, <2>2
<1>8. caused \subseteq ran' \cup monitors'
  BY <1>3
<1>9. monitors' # {} => ran' # {}
  <2>1. CASE r.mote.emergencyTwo = 2
    <3>1. caused # {}
      BY <1>6, <2>1
    <3>. QED
      BY <3>1 DEF EInv, EmergencyHasCause
  <2>2. CASE r.mote.emergencyTwo # 2
    BY <2>2 DEF Does, EInv, EmergencyHasCause
  <2>. QED
    BY <2>1, <2>2
<1>10. UNCHANGED <<queue, left, target>>
  BY DEF queueVars
<1>. QED
  BY <1>7, <1>8, <1>9, <1>10 DEF EInv, EmergencyHasCause, WatchersKnown

LEMMA MotesKeepEInv ==
    ASSUME TInv, EInv
    PROVE  /\ \A m \in Mote, running \in BOOLEAN : MovementRead(m, running) => EInv'
           /\ \A m, from \in Mote : HearNeighbour(m, from) => EInv'
           /\ \A p \in air : MoteReceives(p) => EInv'
<1>. DEFINE caused == ran \cup monitors
<1>0. \A p \in air : p.target \in caused
  BY DEF EInv, EmergencyHasCause
<1>1. ASSUME NEW m \in Mote, NEW running \in BOOLEAN, MovementRead(m, running)
      PROVE  EInv'
  <2>. DEFINE s == motes[m]
              r == ReadMovement(s, running)
              found == running /\ ~s.odd
  <2>1. ran' = IF found THEN ran \cup {m} ELSE ran
    BY <1>1 DEF MovementRead
  <2>2. Fits(s)
    BY DEF TInv
  <2>3. /\ \/ KeepsAlarm(s, r.mote) \/ Calmed(s, r.mote)
           \/ found /\ r.mote.emergencyTwo = 1
        /\ s.emergencyTwo = 0 /\ ~found => r.out = <<>>
    BY <2>2, ReadMovementAlarm
  <2>. HIDE DEF r
  <2>4. /\ Does(m, r) /\ UNCHANGED queueVars
        /\ CommandsIn(r.out) \subseteq {p \in AirPacket : p.target = m}
        /\ air' = air \cup CommandsIn(r.out)
    BY <1>1, MovementResult, ZenonT(60) DEF r
  <2>5. ran \subseteq ran' /\ monitors \subseteq monitors'
    BY <2>1, <2>4 DEF Does
  <2>6. CommandsIn(r.out) # {} => m \in ran' \cup monitors'
    <3>1. CASE found
      BY <2>1, <3>1
    <3>2. CASE s.emergencyTwo # 0
      <4>1. s.emergencyTwo \in 0..2
        BY <2>2, FieldRanges DEF Fits
      <4>2. m \in caused
        BY <3>2, <4>1 DEF EInv, EmergencyHasCause, WatchersKnown
      <4>. QED
        BY <2>5, <4>2
    <3>3. CASE s.emergencyTwo = 0 /\ ~found
      <4>1. CommandsIn(r.out) = {}
        BY <2>3, <3>3 DEF CommandsIn
      <4>. QED
        BY <4>1
    <3>. QED
      BY <3>1, <3>2, <3>3
  <2>7. \A p \in air' : p.target \in ran' \cup monitors'
    BY <1>0, <2>4, <2>5, <2>6
  <2>8. \/ KeepsAlarm(motes[m], r.mote) \/ Calmed(motes[m], r.mote)
        \/ r.mote.emergencyTwo = 1 /\ m \in ran'
    BY <2>1, <2>3
  <2>. QED
    BY <2>4, <2>5, <2>7, <2>8, MoteKeepsEInv
<1>2. ASSUME NEW m \in Mote, NEW from \in Mote, HearNeighbour(m, from)
      PROVE  EInv'
  <2>. DEFINE r == BroadcastRecv(motes[m], from)
  <2>1. UNCHANGED <<queueVars, air, ran>>
    BY <1>2 DEF HearNeighbour
  <2>. HIDE DEF r
  <2>2. KeepsAlarm(motes[m], r.mote) /\ Does(m, r)
    BY <1>2, HearResult, Zenon DEF r
  <2>3. monitors \subseteq monitors'
    BY <2>2 DEF Does
  <2>4. \A p \in air' : p.target \in ran' \cup monitors'
    BY <1>0, <2>1, <2>3
  <2>. QED
    BY <2>1, <2>2, <2>4, MoteKeepsEInv
<1>3. ASSUME NEW p \in air, MoteReceives(p)
      PROVE  EInv'
  <2>. DEFINE r == HandleCommand(motes[p.to], p.cmd, p.target)
  <2>. HIDE DEF r
  <2>1. /\ p.to \in Mote /\ Does(p.to, r)
        /\ air' \in {air, air \ {p}} /\ UNCHANGED <<queueVars, ran>>
        /\ \/ KeepsAlarm(motes[p.to], r.mote) \/ Calmed(motes[p.to], r.mote)
           \/ r.mote.emergencyTwo = 2 /\ r.mote.emergencyTarget = p.target
    BY <1>3, ReceiveResult, Zenon DEF r
  <2>2. monitors \subseteq monitors'
    BY <2>1 DEF Does
  <2>3. \A q \in air' : q.target \in ran' \cup monitors'
    BY <1>0, <2>1, <2>2
  <2>4. p.target \in ran \cup monitors
    BY <1>0
  <2>5. ran \subseteq ran' /\ UNCHANGED queueVars
    BY <2>1
  <2>. QED
    BY <2>1, <2>3, <2>4, <2>5, MoteKeepsEInv
<1>. QED
  BY <1>1, <1>2, <1>3

\* A command keeps its cow on the way through the gateway.
LEMMA GatewayKeepsEInv ==
    ASSUME TInv, EInv, NEW p \in air, GatewayReceives(p)
    PROVE  EInv'
<1>1. UNCHANGED <<motes, ran, monitors>> /\ air' \subseteq air
  BY DEF GatewayReceives, history
<1>2. CASE UNCHANGED queueVars
  BY <1>1, <1>2 DEF EInv, EmergencyHasCause, WatchersKnown, queueVars
<1>3. CASE queue' = Append(queue, Queued(p)) /\ Queue!Accept
  <2>1. queue \in Seq(QueuedCommand) /\ p.target \in ran \cup monitors
    BY DEF TInv, EInv, EmergencyHasCause
  <2>2. \A k \in DOMAIN queue' : queue'[k].target \in ran \cup monitors
    <3>1. SUFFICES ASSUME NEW k \in DOMAIN queue'
                   PROVE  queue'[k].target \in ran \cup monitors
      OBVIOUS
    <3>2. k \in 1..(Len(queue) + 1)
      BY <1>3, <2>1
    <3>3. CASE k \in 1..Len(queue)
      BY <1>3, <2>1, <3>3 DEF EInv, EmergencyHasCause
    <3>4. CASE k = Len(queue) + 1
      BY <1>3, <2>1, <3>4 DEF Queued
    <3>. QED
      BY <2>1, <3>2, <3>3, <3>4
  <2>3. UNCHANGED <<left, target>>
    BY <1>3 DEF Queue!Accept
  <2>. QED
    BY <1>1, <2>2, <2>3 DEF EInv, EmergencyHasCause, WatchersKnown
<1>. QED
  BY <1>2, <1>3 DEF GatewayReceives

LEMMA CommanderKeepsEInv ==
    ASSUME TInv, EInv, Commander
    PROVE  EInv'
<1>1. UNCHANGED <<motes, ran, monitors>>
  BY DEF Commander, history
<1>2. CASE Queue!Take /\ UNCHANGED air
  <2>1. /\ queue \in Seq(QueuedCommand) /\ queue # <<>> /\ queue' = Tail(queue)
        /\ target' = Head(queue).target
    BY <1>2 DEF Queue!Take, TInv
  <2>2. target' \in ran \cup monitors
    BY <2>1 DEF EInv, EmergencyHasCause
  <2>3. \A k \in DOMAIN queue' : queue'[k].target \in ran \cup monitors
    BY <2>1 DEF EInv, EmergencyHasCause
  <2>. QED
    BY <1>1, <1>2, <2>2, <2>3 DEF EInv, EmergencyHasCause, WatchersKnown
<1>3. CASE Queue!SendOne /\ air' = air \cup {Packet(cmd, target, defaultGateway, sent'.to)}
  <2>1. left # <<>> /\ UNCHANGED <<queue, target>>
    BY <1>3 DEF Queue!SendOne
  <2>2. target \in ran \cup monitors
    BY <2>1 DEF EInv, EmergencyHasCause
  <2>3. \A p \in air' : p.target \in ran \cup monitors
    BY <1>3, <2>2 DEF Packet, EInv, EmergencyHasCause
  <2>. QED
    BY <1>1, <2>1, <2>2, <2>3 DEF EInv, EmergencyHasCause, WatchersKnown
<1>. QED
  BY <1>2, <1>3 DEF Commander

LEMMA StepKeepsEInv ==
    ASSUME TInv, EInv, [Next]_vars
    PROVE  EInv'
<1>1. ASSUME NEW p \in air, Lose(p) PROVE EInv'
  BY <1>1 DEF Lose, EInv, EmergencyHasCause, WatchersKnown, queueVars, history
<1>2. CASE UNCHANGED vars
  BY <1>2 DEF EInv, EmergencyHasCause, WatchersKnown, vars, queueVars, history
<1>. QED
  BY <1>1, <1>2, MotesKeepEInv, GatewayKeepsEInv, CommanderKeepsEInv DEF Next

\* However commands are lost, repeated and overtaken, an emergency names a cow
\* that was found running or a mote that watched over one, and nobody watches
\* before a cow ran: the alarms that go round between motes and gateway
\* (gateway.c:95, krava.c:209-224, 303-321) can name a wrong cow, as
\* WatchesRunningCow says, but none that had nothing to do with a running one.
THEOREM EmergencyHasCauseHolds == HerdAssumption => (Spec => []EmergencyHasCause)
<1>1. Init /\ TInv => EInv
  BY InitEInv
<1>2. TInv /\ EInv /\ [Next]_vars => EInv'
  BY StepKeepsEInv
<1>3. EInv => EmergencyHasCause
  BY DEF EInv
<1>. QED
  BY <1>1, <1>2, <1>3, TInvHolds, PTL DEF Spec
=============================================================================
