-------------------------- MODULE MCLocknessMonster --------------------------
(***************************************************************************)
(* A LocknessMonster for TLC: "@lock('x')", one object that every thread   *)
(* enters.                                                                 *)
(***************************************************************************)
EXTENDS LocknessMonster

CONSTANTS i1

OneInstance == {i1}
Shared == [t \in Users |-> i1]
=============================================================================
