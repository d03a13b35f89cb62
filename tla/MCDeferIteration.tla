-------------------------- MODULE MCDeferIteration --------------------------
(***************************************************************************)
(* Instances of DeferIteration for TLC: a shard of two instances and one   *)
(* of one; and a shard of two with an empty one.                           *)
(***************************************************************************)
EXTENDS DeferIteration, TLC

CONSTANTS w1, w2

TwoWorkers == {w1, w2}
TwoLo == <<1, 3>>
TwoHi == <<2, 3>>
GapLo == <<1, 3>>
GapHi == <<2, 2>>
Always == {TRUE}
Either == {TRUE, FALSE}
NoFaults == {}
AllFaults == {"crash", "redeliver", "submit", "database", "giveUp"}
Crashes == {"crash"}
WorkerSymmetry == Permutations(Workers)
=============================================================================
