------------------------------ MODULE KeyRanges ------------------------------
(***************************************************************************)
(* How _generate_shards divides a table into the key ranges of its shards  *)
(* (tasks/deferred.py): by the two key-range functions of processing.py,   *)
(* one for dense sequential keys, one that samples keys at random, while   *)
(* rows are deleted and rows with higher keys are added.                   *)
(***************************************************************************)
EXTENDS Integers, Sequences, FiniteSets

CONSTANTS
  Ids,             \* keys; 0 and negative ones are allowed
  Wanted,          \* shard counts asked for
  NoBound,         \* None
  MaxTableChanges  \* bound on the changes of the table

ASSUME RangesAssumption ==
  /\ Ids \subseteq Int /\ IsFiniteSet(Ids)
  /\ Wanted \subseteq Nat \ {0}
  /\ NoBound \notin Int

VARIABLES
  getter,       \* "sequential" or "random"
  wanted,       \* shard_count
  table,        \* the keys of the rows
  kept,         \* those that have been there all the time
  ranging,      \* "new", "smallest" (has been read), "done" or "failed"
  smallest,
  ranges,       \* the sequence of ranges [lo, hi]
  tableChanges

rangesVars == <<getter, wanted, table, kept, ranging, smallest, ranges, tableChanges>>

RangesInit ==
  /\ getter \in {"sequential", "random"} /\ wanted \in Wanted
  /\ table \in SUBSET Ids /\ kept = table
  /\ ranging = "new" /\ smallest = 0 /\ ranges = <<>>
  /\ tableChanges = 0

Least(keys) == CHOOSE k \in keys : \A j \in keys : k <= j
Greatest(keys) == CHOOSE k \in keys : \A j \in keys : j <= k
Sorted(keys) ==
  [i \in 1..Cardinality(keys) |-> CHOOSE k \in keys : Cardinality({j \in keys : j < k}) = i - 1]
CeilDiv(a, b) == -((-a) \div b)
Between(lo, hi) == [lo |-> lo, hi |-> hi]
Unbounded == <<Between(NoBound, NoBound)>>

\* qs.first(), and later, in a query of its own, qs.last(); either is None when
\* the table is empty, which "biggest - smallest" cannot take.
ReadSmallest ==
  /\ getter = "sequential" /\ ranging = "new"
  /\ IF table = {} THEN ranging' = "failed" /\ UNCHANGED smallest
                   ELSE ranging' = "smallest" /\ smallest' = Least(table)
  /\ UNCHANGED <<getter, wanted, table, kept, ranges, tableChanges>>

Size(biggest) == IF biggest < wanted THEN 1 ELSE CeilDiv(biggest - smallest, wanted)

\* Mutated form of LastRange: the last range ends like the others.
LastRangeAsBuilt(biggest, count) ==
  Between(smallest + (count - 1) * Size(biggest), smallest + count * Size(biggest))
\* key_ranges[-1] is moved so as to end behind the biggest key.
LastRange(biggest, count) == Between(biggest - Size(biggest), biggest + 1)

\* Ranges of equal size until one reaches the biggest key.
SequentialRanges(biggest) ==
  LET size  == Size(biggest)
      count == IF smallest + size < biggest THEN CeilDiv(biggest - smallest, size) ELSE 1
  IN [i \in 1..count |->
        IF i < count THEN Between(smallest + (i - 1) * size, smallest + i * size)
                     ELSE LastRange(biggest, count)]

SequentialIntKeyRanges ==
  /\ ranging = "smallest"
  /\ IF table = {} THEN ranging' = "failed" /\ UNCHANGED ranges
                   ELSE ranging' = "done" /\ ranges' = SequentialRanges(Greatest(table))
  /\ UNCHANGED <<getter, wanted, table, kept, smallest, tableChanges>>

\* round(a / b), halves to the even neighbour.
Round(a, b) ==
  LET q == a \div b IN IF 2 * (a % b) < b \/ (2 * (a % b) = b /\ q % 2 = 0) THEN q ELSE q + 1

\* Of enough random keys, every len/shard_count-th; of too few, all.
SplitKeys(randomKeys) ==
  IF Len(randomKeys) < wanted THEN randomKeys
  ELSE [i \in 1..(wanted - 1) |-> randomKeys[1 + Round(Len(randomKeys) * i, wanted)]]

Splits(keys) ==
  [i \in 1..(Len(keys) + 1) |->
     Between(IF i = 1 THEN NoBound ELSE keys[i - 1], IF i > Len(keys) THEN NoBound ELSE keys[i])]

\* The random keys are those of any rows of the model, which may have gone.
DatastoreKeyRanges(randomKeys) ==
  /\ getter = "random" /\ ranging = "new"
  /\ ranging' = "done"
  /\ ranges' = IF wanted = 1 \/ randomKeys = {} THEN Unbounded
               ELSE Splits(SplitKeys(Sorted(randomKeys)))
  /\ UNCHANGED <<getter, wanted, table, kept, smallest, tableChanges>>

\* A row is deleted, or added with the next key.
TableChanges ==
  /\ tableChanges < MaxTableChanges /\ tableChanges' = tableChanges + 1
  /\ \/ \E k \in table : table' = table \ {k} /\ kept' = kept \ {k}
     \/ \E k \in Ids : (\A j \in table : j < k) /\ table' = table \cup {k} /\ UNCHANGED kept
  /\ UNCHANGED <<getter, wanted, ranging, smallest, ranges>>

RangesNext ==
  \/ ReadSmallest \/ SequentialIntKeyRanges \/ TableChanges
  \/ \E randomKeys \in SUBSET Ids : DatastoreKeyRanges(randomKeys)

RangesSpec == RangesInit /\ [][RangesNext]_rangesVars
-----------------------------------------------------------------------------
\* The shards that will process a key: the filters of _generate_shards leave out a
\* bound that is 0 as they do None.
ShardsOf(k) ==
  {i \in DOMAIN ranges : /\ ranges[i].lo \in {NoBound, 0} \/ ranges[i].lo <= k
                         /\ ranges[i].hi \in {NoBound, 0} \/ k < ranges[i].hi}

\* A bound between two ranges is 0.
CutAtZero ==
  \E i \in DOMAIN ranges : (i > 1 /\ ranges[i].lo = 0) \/ (i < Len(ranges) /\ ranges[i].hi = 0)

\* Every row that stays while the ranges are computed belongs to a shard, and to
\* one only; but the last two sequential ranges may share rows, because the last
\* is moved back from the biggest key, and ranges that meet at 0 are not bounded
\* there.  Random ranges also have room for rows that are added later.  There are
\* no more shards than were asked for, unless sequential keys begin below 0 and
\* end below the number asked for (processing.py:33-49, 77-88, deferred.py:490-495).
EveryRowHasItsShard ==
  ranging = "done" =>
    /\ Len(ranges) > wanted => smallest < 0 /\ ranges[Len(ranges)].hi <= wanted
    /\ \A k \in IF getter = "random" THEN Ids ELSE kept :
         /\ ShardsOf(k) # {}
         /\ \/ Cardinality(ShardsOf(k)) = 1
            \/ getter = "sequential" /\ ShardsOf(k) = {Len(ranges) - 1, Len(ranges)}
            \/ CutAtZero
=============================================================================
