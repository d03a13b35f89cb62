---------------------------- MODULE MCPagination ----------------------------
(***************************************************************************)
(* An instance of Pagination for TLC.                                      *)
(***************************************************************************)
EXTENDS Pagination

CONSTANT r1

Row(pk, suffix, first, last) ==
  [pk |-> <<pk>>, suffix |-> <<suffix>>, first |-> first, last |-> last]
\* One first name is a prefix of another, also where it is mirrored; two instances
\* differ in the suffix only when they are ordered by first name, and that of the
\* fourth is still random.
Present == {Row(1, 1, <<2>>, <<1>>), Row(2, 2, <<1>>, <<2>>),
            Row(3, 3, <<1, 1>>, <<3>>), Row(4, 1, <<1>>, <<1>>),
            Row(5, 5, <<2>>, <<2>>)}
\* The fourth as it was but with its pk, so that it moves behind the second; with
\* another first name; a new instance, with random digits.
Saved == {Row(4, 4, <<1>>, <<1>>), Row(4, 4, <<2>>, <<1>>), Row(6, 8, <<2>>, <<2>>)}
AllRows == Present \cup Saved

Up(f) == [field |-> f, neg |-> FALSE]
Down(f) == [field |-> f, neg |-> TRUE]
ThreePaginators ==
  {[ordering |-> <<Up("first")>>, perPage |-> 2, allowEmpty |-> TRUE],
   [ordering |-> <<Down("first")>>, perPage |-> 2, allowEmpty |-> FALSE],
   [ordering |-> <<Down("first"), Up("last")>>, perPage |-> 3, allowEmpty |-> TRUE]}
=============================================================================
