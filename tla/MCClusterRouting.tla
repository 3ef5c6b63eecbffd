-------------------------- MODULE MCClusterRouting --------------------------
(***************************************************************************)
(* Three registered cows and a mote that is not registered.  Seven hops    *)
(* put a cow with one neighbour exactly on the threshold, and a cow        *)
(* without motions gets its score from the uninitialised buffer.           *)
(***************************************************************************)
EXTENDS ClusterRouting

MCMotes == 1..4
MCRegister == <<1, 2, 3>>

Near(ns) == [neighbours |-> ns, motionCount |-> 1, motion |-> 2,
             battery |-> 100, hops |-> 1]
Far(ns) == [Near(ns) EXCEPT !.motion = 0, !.hops = 7]
Silent(ns) == [Near(ns) EXCEPT !.motionCount = 0]

MCReports == <<
    {Near({2}), Far({3}), Near({2, 3})},
    {Near({1}), Silent({3}), Near({3, 4})},
    {Near({1}), Near({2, 4})}>>
=============================================================================
