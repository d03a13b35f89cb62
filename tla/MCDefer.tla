------------------------------- MODULE MCDefer -------------------------------
(***************************************************************************)
(* Instances of Defer for TLC.                                             *)
(***************************************************************************)
EXTENDS Defer

EveryCall == CallRecords
NoFaults == {}
AllFaults == {"crash", "rejected", "error", "entity"}
=============================================================================
