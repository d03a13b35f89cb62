------------------------------- MODULE Batches -------------------------------
(***************************************************************************)
(* Two readers that read a query slice by slice, by offsets, while its     *)
(* table changes: get_in_batches of utils.py, and a walk through the pages *)
(* of DatastorePaginator (core/paginator.py), which reads one row more     *)
(* than the page to know whether there is a next one.                      *)
(***************************************************************************)
EXTENDS Naturals, Sequences, FiniteSets

CONSTANTS
  RowNumbers,     \* rows, in the order of the query
  FirstRows,      \* those in the table at first
  BatchSize,      \* batch_size, and per_page
  MaxRowChanges   \* bound on the changes of the table

ASSUME BatchAssumption ==
  /\ RowNumbers \subseteq Nat /\ FirstRows \subseteq Nat /\ IsFiniteSet(FirstRows)
  /\ BatchSize \in Nat

VARIABLES
  reading,     \* "batches" or "pages"
  rows,        \* the table
  offset,      \* start, and bottom of the page
  seen,        \* rows yielded
  finished,
  steady,      \* rows that have been in the table all the time
  shifted,     \* observer: a row before the offset has come or gone
  rowChanges

batchVars == <<reading, rows, offset, seen, finished, steady, shifted, rowChanges>>

BatchInit ==
  /\ reading \in {"batches", "pages"}
  /\ rows = FirstRows /\ steady = FirstRows
  /\ offset = 0 /\ seen = <<>> /\ finished = FALSE
  /\ shifted = FALSE /\ rowChanges = 0

Before(n) == Cardinality({m \in rows : m < n})
Ordered == [i \in 1..Cardinality(rows) |-> CHOOSE n \in rows : Before(n) = i - 1]
Fetched(count) ==
  SubSeq(Ordered, offset + 1, IF offset + count < Len(Ordered) THEN offset + count ELSE Len(Ordered))

\* Mutated form of IsLast: a full batch is the last.
IsLastIfFull(batch) == Len(batch) <= BatchSize
IsLast(batch) == Len(batch) < BatchSize

\* get_in_batches: one batch.
NextBatch ==
  /\ reading = "batches" /\ ~finished
  /\ seen' = seen \o Fetched(BatchSize)
  /\ finished' = IsLast(Fetched(BatchSize))
  /\ offset' = offset + BatchSize
  /\ UNCHANGED <<reading, rows, steady, shifted, rowChanges>>

\* page(), and next_page_number() while has_next().
HasNext == Len(Fetched(BatchSize + 1)) > BatchSize
NextPage ==
  /\ reading = "pages" /\ ~finished
  /\ seen' = seen \o Fetched(BatchSize)
  /\ finished' = ~HasNext
  /\ offset' = offset + BatchSize
  /\ UNCHANGED <<reading, rows, steady, shifted, rowChanges>>

\* A row is saved or deleted.
ChangeRow(n) ==
  /\ rowChanges < MaxRowChanges
  /\ rowChanges' = rowChanges + 1
  /\ rows' = IF n \in rows THEN rows \ {n} ELSE rows \cup {n}
  /\ steady' = steady \ {n}
  /\ shifted' = (shifted \/ Before(n) < offset)
  /\ UNCHANGED <<reading, offset, seen, finished>>

BatchNext == NextBatch \/ NextPage \/ \E n \in RowNumbers : ChangeRow(n)

BatchSpec == BatchInit /\ [][BatchNext]_batchVars
-----------------------------------------------------------------------------
\* A reader yields rows in order, none twice, and has yielded in the end all
\* rows that were there all the time, as long as no row comes or goes before
\* the place it has reached (utils.py:82-95, core/paginator.py:34-46).
BatchesSeeEverything ==
  shifted
  \/ /\ \A i, j \in DOMAIN seen : i < j => seen[i] < seen[j]
     /\ finished => \A n \in steady : \E i \in DOMAIN seen : seen[i] = n
=============================================================================
