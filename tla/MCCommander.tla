---------------------------- MODULE MCCommander ----------------------------
(***************************************************************************)
(* Three motes, two of them registered, and a buffer of seven bytes, where *)
(* a cluster of two members or one of one member and a pair fit, or of     *)
(* eight, which has the odd capacity of the real one.  Reads the bytes of  *)
(* the buffer back into whole commands to show that the commander          *)
(* implements CommandQueue until a command is torn.                        *)
(***************************************************************************)
EXTENDS Commander

MCMote == {1, 2, 3}
MCTarget == {2}
MCCows == <<1, 2>>

MCMembers == UNION {SetToSeqs(s) : s \in SUBSET Mote}
MCCommand == [cmd : 0..4, target : Mote \cup Target, members : MCMembers]

MCRecipients(c) ==
    CASE c.cmd = CMD_QUERY_MOTE -> <<c.target>>
      [] c.cmd = CMD_SET_LOCAL_GW -> <<c.target>> \o c.members
      [] OTHER -> register_cows

RECURSIVE Commands(_)
Commands(bytes) ==
    IF bytes = <<>> THEN <<>>
    ELSE LET cmd == bytes[1].val
             count == IF cmd = CMD_SET_LOCAL_GW THEN bytes[3].val ELSE 0
             size == IF cmd = CMD_SET_LOCAL_GW THEN 3 + count ELSE 2
             members == [m \in 1..count |-> bytes[3 + m].val]
         IN  <<[cmd |-> cmd, target |-> bytes[2].val, members |-> members]>>
             \o Commands(SubSeq(bytes, size + 1, Len(bytes)))

\* What the first event throws away (gateway.c:620-621) was never accepted.
\* In a cluster command the addresses still to be sent to head the buffer.
\* Once a command is torn the bytes are commands no more.
MCQueue ==
    CASE torn \/ phase = "boot" -> <<>>
      [] phase = "members" -> Commands(Taken(members_count - i))
      [] OTHER -> Commands(commanderBuff)

MCLeft ==
    CASE torn -> <<>>
      [] phase = "members" -> [m \in 1..(members_count - i) |-> Nth(m).val]
      [] phase = "cows" -> SubSeq(register_cows, i + 1, NUMBER_OF_COWS)
      [] OTHER -> <<>>

Queue == INSTANCE CommandQueueUntilTorn WITH
    Command <- MCCommand, Recipients <- MCRecipients, queue <- MCQueue,
    cmd <- currentCommand, target <- currentTarget, left <- MCLeft

\* As long as no pair of bytes meets room for one, the bytes behave like a queue
\* of whole commands and every accepted command is sent to all of its recipients
\* (gateway.c:606-667).
ImplementsQueue == Queue!UntilTornSpec
=============================================================================
