---------------------------- MODULE CommandQueue ----------------------------
(***************************************************************************)
(* What the gateway's command queue promises: commands leave whole, in the *)
(* order in which they were accepted, and each one is sent to all of its   *)
(* recipients, in order, before the next one is looked at.                 *)
(***************************************************************************)
EXTENDS Naturals, Sequences, SequencesExt

CONSTANTS
    Command,        \* records with at least the fields cmd and target
    Recipients(_)   \* the addresses a command goes to, in order

VARIABLES
    queue,    \* accepted commands, oldest first
    cmd,      \* the command being sent, or the last one
    target,
    left,     \* the recipients it has still to be sent to
    sent      \* the last thing that was sent

vars == <<queue, cmd, target, left, sent>>

Packet(c, t, to) == [cmd |-> c, target |-> t, to |-> to]

Init ==
    /\ queue = <<>> /\ left = <<>>
    /\ cmd = 0 /\ target = 0
    /\ sent = Packet(255, 0, 0)

\* Some command is appended to the queue.
Accept ==
    /\ queue' # <<>>
    /\ queue = Front(queue')
    /\ Last(queue') \in Command
    /\ UNCHANGED <<cmd, target, left, sent>>

\* The oldest command is taken up; the first recipient may get it at once.
Take ==
    /\ left = <<>> /\ queue # <<>>
    /\ queue' = Tail(queue)
    /\ LET c == Head(queue)
           to == Recipients(c)
       IN  /\ cmd' = c.cmd /\ target' = c.target
           /\ \/ left' = to /\ UNCHANGED sent
              \/ left' = Tail(to) /\ sent' = Packet(c.cmd, c.target, Head(to))

SendOne ==
    /\ left # <<>>
    /\ left' = Tail(left)
    /\ sent' = Packet(cmd, target, Head(left))
    /\ UNCHANGED <<queue, cmd, target>>

Next == Take \/ SendOne \/ Accept

Spec == Init /\ [][Next]_vars /\ WF_vars(Take) /\ WF_vars(SendOne)
=============================================================================
