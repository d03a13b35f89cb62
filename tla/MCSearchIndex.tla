---------------------------- MODULE MCSearchIndex ----------------------------
(***************************************************************************)
(* Instances of SearchIndex for TLC.                                       *)
(***************************************************************************)
EXTENDS SearchIndex, TLC

CONSTANTS p1, p2, d1, cat, dog

TwoWriters == {p1, p2}
OneDoc == {d1}
TwoWords == {cat, dog}
\* An update may keep a word, add one or replace one.
ThreeTexts == {{cat}, {dog}, {cat, dog}}
=============================================================================
