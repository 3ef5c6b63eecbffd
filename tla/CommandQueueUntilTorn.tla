----------------------- MODULE CommandQueueUntilTorn -----------------------
(***************************************************************************)
(* The promise of CommandQueue as far as the gateway's ring buffer keeps   *)
(* it: until half of a command is accepted and the other half is not.      *)
(* Nothing is promised from then on.                                       *)
(***************************************************************************)
EXTENDS CommandQueue

VARIABLE torn  \* half of a command was accepted

Whole(Action) == ~torn /\ UNCHANGED torn /\ Action

Tear == torn'

UntilTornSpec ==
    /\ Init /\ ~torn
    /\ [][Whole(Next) \/ Tear]_<<vars, torn>>
    /\ WF_vars(Whole(Take))
    /\ WF_vars(Whole(SendOne))
=============================================================================
