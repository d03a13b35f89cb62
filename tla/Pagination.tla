----------------------------- MODULE Pagination -----------------------------
(***************************************************************************)
(* The paginator of contrib/pagination.  Instances carry a computed field  *)
(* that orders them like the requested ordering.  A page is read from      *)
(* after a marker, the field of the last instance of the page before it,   *)
(* found in the cache; a page whose marker is missing is found by going    *)
(* back to an earlier marker and skipping.  Each reading also stores the   *)
(* markers of the pages it has looked ahead to.                            *)
(*                                                                         *)
(* One reader walks through the pages one after the other; others ask for  *)
(* pages in any order; instances are inserted, saved again and deleted;    *)
(* cache entries expire.  A string is a sequence of numbers, the codes of  *)
(* its characters.                                                         *)
(***************************************************************************)
EXTENDS Integers, Sequences, FiniteSets, SequencesExt

CONSTANTS
  Rows,        \* states of instances, records with "pk", "suffix" (what the
               \* computed fields end with) and fields; values are strings
  InitialRows, \* those in the table at first
  Setups,      \* paginators: records of ordering, a sequence of [field, neg],
               \* perPage and allowEmpty
  Readahead,
  Others,      \* readers beside the walker
  MaxPage,     \* bound on the page numbers others ask for
  MaxChanges,  \* bound on the changes of the table
  MaxExpired   \* bound on the cache entries that expire

\* A table holds an instance in one state.
Tables == {rows \in SUBSET Rows : \A a, b \in rows : a.pk = b.pk => a = b}

ASSUME PageAssumption ==
  /\ IsFiniteSet(Rows) /\ InitialRows \in Tables
  /\ Readahead \in Nat /\ \A s \in Setups : s.perPage \in Nat \ {0}
  /\ MaxPage \in Nat /\ "walker" \notin Others

VARIABLES
  setup,      \* what the Paginator objects of all readers are made with
  table,      \* instances stored
  markers,    \* cached markers by page number, <<>> where there is none
  known,      \* the cached count
  req,        \* what each reader is doing in page()
  walk,       \* the walker: pages read, instances seen, and those that have
              \* been in the table ever since it started
  changes,    \* changes of the table
  expired,    \* cache entries that have expired
  shared,     \* observer: somebody beside the walker has asked for a page
  overtaken,  \* observer: a lookahead has started from a skipped page
  beyond      \* observer: a page after the last one has been read

vars == <<setup, table, markers, known, req, walk, changes, expired, shared, overtaken, beyond>>

Walker == "walker"
Readers == {Walker} \cup Others
-----------------------------------------------------------------------------
\* The computed field (decorators.py).  NullCharacter is below and Mirror's
\* centre above every character in use.
NullCharacter == 0
TopCharacter == 9
Mirror(s) == [i \in DOMAIN s |-> TopCharacter - s[i]]

\* generator: the fields' values, those of negated fields mirrored, then the pk,
\* or random digits if the instance has not got one yet.
Generator(ordering, row) ==
  LET value(f) == IF f.neg THEN Mirror(row[f.field]) ELSE row[f.field]
  IN FoldLeft(LAMBDA s, f : s \o value(f) \o <<NullCharacter>>, <<>>, ordering)
       \o row.suffix

\* A single negated ordering uses the field of the plain one, which the class has
\* declared before it, read backwards.
SingleNegated(ordering) == Len(ordering) = 1 /\ ordering[1].neg
FieldFor(ordering) ==
  IF SingleNegated(ordering) THEN <<[ordering[1] EXCEPT !.neg = FALSE]>> ELSE ordering

Less(s, t) ==
  \E i \in 1..Len(t) :
    /\ i <= Len(s) + 1
    /\ \A j \in 1..i - 1 : s[j] = t[j]
    /\ i <= Len(s) => s[i] < t[i]

\* The fields stored with the instances, for each paginator; different instances
\* have different ones, since the last part of them is the primary key, or digits
\* assumed to be nobody else's.
Fields == [s \in Setups |-> [row \in Rows |-> Generator(FieldFor(s.ordering), row)]]
ASSUME FieldAssumption ==
  \A s \in Setups : \A a, b \in Rows :
    /\ Fields[s][a] \in Seq(Nat) /\ Fields[s][a] # <<>>
    /\ Fields[s][a] = Fields[s][b] => a.pk = b.pk

Behind(ordering, value, field) ==
  IF SingleNegated(ordering) THEN Less(field, value) ELSE Less(value, field)
\* The requested order of two rows: by the fields' strings, one after the other.
\* Among several fields a negated one is ordered by its mirrored string, which
\* keeps the order except between a value and one that it begins: nothing is
\* asked of those.
InOrder(ordering, a, b) ==
  \E i \in DOMAIN ordering :
    LET f == ordering[i]
        x == a[f.field]
        y == b[f.field]
    IN /\ \A j \in 1..i - 1 : a[ordering[j].field] = b[ordering[j].field]
       /\ IF f.neg THEN /\ Less(y, x)
                        /\ SingleNegated(ordering) \/ Less(Mirror(x), Mirror(y))
                   ELSE Less(x, y)

\* The computed fields are in that order.
ASSUME FieldsKeepOrder ==
  \A s \in Setups : \A a, b \in Rows :
    InOrder(s.ordering, a, b) => Behind(s.ordering, Fields[s][a], Fields[s][b])

FieldOf(row) == Fields[setup][row]
After(value, row) == Behind(setup.ordering, value, FieldOf(row))

\* The rows in the order of the computed field.
Before(rows, row) == {a \in rows : After(FieldOf(a), row)}
Sorted(rows) ==
  [i \in 1..Cardinality(rows) |->
     CHOOSE row \in rows : Cardinality(Before(rows, row)) = i - 1]
-----------------------------------------------------------------------------
PerPage == setup.perPage
Smaller(a, b) == IF a < b THEN a ELSE b
\* Python's s[from:to] and s[from:].
Slice(s, from, to) == SubSeq(s, from + 1, Smaller(to, Len(s)))
Rest(s, from) == Slice(s, from, Len(s))

\* pc: "query", about to run the query; "ahead", storing the markers of the
\* pages after; "count" and "update", the two halves of _update_known_count;
\* "own", about to store the page's own marker and return.
Idle == [pc |-> "idle", number |-> 1, marker |-> <<>>, pages |-> 0,
         results |-> <<>>, next |-> <<>>, counter |-> 0]

Init ==
  /\ setup \in Setups
  /\ table = InitialRows
  /\ markers = [n \in 1..MaxPage + Readahead + 1 |-> <<>>]
  /\ known = 0
  /\ req = [r \in Readers |-> Idle]
  /\ walk = [page |-> 0, seen |-> <<>>, throughout |-> InitialRows, over |-> FALSE]
  /\ changes = 0 /\ expired = 0 /\ shared = FALSE /\ overtaken = FALSE /\ beyond = FALSE

\* Mutated form of NearestMarker: the pages gone back are not counted.
NearestMarkerUncounted(number) ==
  LET stored == {n \in 1..number - 1 : markers[n] # <<>>}
      last == CHOOSE n \in stored : \A m \in stored : m <= n
  IN IF stored = {} THEN [marker |-> <<>>, pages |-> number - 1]
     ELSE [marker |-> markers[last], pages |-> 0]
\* _get_marker: the nearest marker before the page, and the pages between.
NearestMarker(number) ==
  LET stored == {n \in 1..number - 1 : markers[n] # <<>>}
      last == CHOOSE n \in stored : \A m \in stored : m <= n
  IN IF stored = {} THEN [marker |-> <<>>, pages |-> number - 1]
     ELSE [marker |-> markers[last], pages |-> number - 1 - last]

\* page(number), up to the query.
Ask(r, number) ==
  /\ req[r].pc = "idle"
  /\ LET near == NearestMarker(number)
     IN req' = [req EXCEPT ![r] = [Idle EXCEPT !.pc = "query", !.number = number,
                                     !.marker = near.marker, !.pages = near.pages]]
  /\ shared' = (shared \/ r # Walker)
  /\ UNCHANGED <<setup, table, markers, known, walk, changes, expired, overtaken, beyond>>

\* The query from after the marker.  results[top:] is meant to be what follows
\* the page; results begin at bottom already.
Query(r) ==
  /\ req[r].pc = "query"
  /\ LET q       == req[r]
         bottom  == q.pages * PerPage
         top     == bottom + PerPage
         rows    == IF q.marker = <<>> THEN table
                                       ELSE {row \in table : After(q.marker, row)}
         results == Slice(Sorted(rows), bottom, top + PerPage * Readahead)
     IN /\ req' = [req EXCEPT ![r] = [q EXCEPT !.pc = "ahead", !.results = results,
                                        !.next = Rest(results, top), !.counter = q.number + 1]]
        /\ overtaken' = (overtaken \/ (q.pages > 0 /\ Len(results) > top))
        /\ beyond' = (beyond \/ (results = <<>> /\ q.number > 1))
  /\ UNCHANGED <<setup, table, markers, known, walk, changes, expired, shared>>

\* Mutated form of LastOn: the first instance of the page.
FirstOn(rows) == FieldOf(rows[1])
\* The field of the last instance of the page that rows begin with.
LastOn(rows) == FieldOf(rows[Smaller(PerPage, Len(rows))])

\* _store_marker for a page further on.
StoreAhead(r) ==
  /\ req[r].pc = "ahead" /\ req[r].next # <<>>
  /\ markers' = [markers EXCEPT ![req[r].counter] = LastOn(req[r].next)]
  /\ req' = [req EXCEPT ![r].counter = @ + 1, ![r].next = Rest(@, PerPage)]
  /\ UNCHANGED <<setup, table, known, walk, changes, expired, shared, overtaken, beyond>>

\* The end of the loop; an empty page is an error if those are not allowed.
EndAhead(r) ==
  /\ req[r].pc = "ahead" /\ req[r].next = <<>>
  /\ \/ /\ req[r].results = <<>> /\ ~setup.allowEmpty
        /\ req' = [req EXCEPT ![r] = Idle]
        /\ walk' = [walk EXCEPT !.over = @ \/ r = Walker]
     \/ /\ req[r].results # <<>> \/ setup.allowEmpty
        /\ req' = [req EXCEPT ![r].pc = "count"]
        /\ UNCHANGED walk
  /\ UNCHANGED <<setup, table, markers, known, changes, expired, shared, overtaken, beyond>>

\* Mutated form of KnownCount: the page itself is counted twice.
KnownCountTwice(q) == q.number * PerPage + Len(q.results)
KnownCount(q) == (q.number - 1) * PerPage + Len(q.results)

\* _update_known_count: the cached count is read ...
ReadCount(r) ==
  /\ req[r].pc = "count"
  /\ req' = [req EXCEPT ![r].pc = IF known > KnownCount(req[r]) THEN "own" ELSE "update"]
  /\ UNCHANGED <<setup, table, markers, known, walk, changes, expired, shared, overtaken, beyond>>

\* ... and replaced if it was not larger.
WriteCount(r) ==
  /\ req[r].pc = "update"
  /\ known' = KnownCount(req[r])
  /\ req' = [req EXCEPT ![r].pc = "own"]
  /\ UNCHANGED <<setup, table, markers, walk, changes, expired, shared, overtaken, beyond>>

\* The page's own marker, unless it is empty; the page is returned.
Return(r) ==
  /\ req[r].pc = "own"
  /\ LET q    == req[r]
         page == Slice(q.results, 0, PerPage)
     IN /\ markers' = IF page = <<>> THEN markers
                      ELSE [markers EXCEPT ![q.number] = LastOn(page)]
        /\ req' = [req EXCEPT ![r] = Idle]
        /\ walk' = IF r # Walker THEN walk
                   ELSE [walk EXCEPT !.page = q.number, !.seen = @ \o page,
                                     !.over = Len(page) < PerPage]
  /\ UNCHANGED <<setup, table, known, changes, expired, shared, overtaken, beyond>>

Step(r) == \/ Query(r) \/ StoreAhead(r) \/ EndAhead(r)
           \/ ReadCount(r) \/ WriteCount(r) \/ Return(r)

\* The walker asks for the next page until one is not full.
WalkOn ==
  /\ ~walk.over /\ walk.page < MaxPage
  /\ Ask(Walker, walk.page + 1)

\* The table changes; walk.throughout keeps what is still in it as it was.
Becomes(rows) ==
  /\ changes < MaxChanges
  /\ changes' = changes + 1
  /\ table' = rows
  /\ walk' = [walk EXCEPT !.throughout = @ \cap rows]
  /\ UNCHANGED <<setup, markers, known, req, expired, shared, overtaken, beyond>>

\* An instance is saved, by code that knows nothing of pages.  Random digits are
\* only for an insert whose key is still to be allocated: a stored instance has
\* its pk, so that saving it again moves it if it was inserted with such digits,
\* or if an ordering field has changed.
Save(row) ==
  LET old == {a \in table : a.pk = row.pk}
  IN /\ row \notin table
     /\ row.suffix = row.pk \/ old = {}
     /\ Becomes((table \ old) \cup {row})

Delete(row) ==
  /\ row \in table
  /\ Becomes(table \ {row})

\* A marker expires, or is evicted.
Expire(n) ==
  /\ markers[n] # <<>> /\ expired < MaxExpired
  /\ markers' = [markers EXCEPT ![n] = <<>>]
  /\ expired' = expired + 1
  /\ UNCHANGED <<setup, table, known, req, walk, changes, shared, overtaken, beyond>>

Next == \/ WalkOn
        \/ \E r \in Others, n \in 1..MaxPage : Ask(r, n)
        \/ \E r \in Readers : Step(r)
        \/ \E row \in Rows : Save(row) \/ Delete(row)
        \/ \E n \in DOMAIN markers : Expire(n)

Spec == Init /\ [][Next]_vars
-----------------------------------------------------------------------------
Precedes(a, b) == InOrder(setup.ordering, a, b)

\* A walk through the pages shows the instances in the requested order and misses
\* none that was there all the time as it was; it shows an instance again only in
\* another place, if it has been saved or deleted meanwhile (paginator.py:168-228,
\* decorators.py:10-38).  While the table changes this needs the walker's own
\* markers: it is claimed if nobody else reads and none has expired.  It is not
\* claimed after a lookahead from a skipped page, whose markers are wrong.
WalkSeesEverything ==
  \/ overtaken
  \/ changes > 0 /\ (expired > 0 \/ shared)
  \/ /\ \A i, j \in DOMAIN walk.seen : i < j =>
          LET a == walk.seen[i]
              b == walk.seen[j]
          IN /\ ~Precedes(b, a)
             /\ a.pk = b.pk => /\ FieldOf(a) # FieldOf(b)
                               /\ a \notin walk.throughout /\ b \notin walk.throughout
     /\ \A row \in walk.throughout :
          \/ \E i \in DOMAIN walk.seen : walk.seen[i] = row
          \/ ~walk.over /\ \A i \in DOMAIN walk.seen : ~Precedes(row, walk.seen[i])

\* While the table has not changed, the marker of a page is the field of the
\* last instance on it, whoever has stored it and in whatever order
\* (paginator.py:49-59), again except after a lookahead from a skipped page.
MarkersEndTheirPage ==
  changes = 0 /\ ~overtaken =>
    \A n \in DOMAIN markers : markers[n] # <<>> =>
      /\ (n - 1) * PerPage < Cardinality(table)
      /\ markers[n] = LastOn(Rest(Sorted(table), (n - 1) * PerPage))

\* The count that num_pages is computed from never exceeds the table, while
\* the table has not changed and nobody has read beyond its end, however the
\* two halves of _update_known_count interleave (paginator.py:31-38, 211).
CountWithinTable == changes = 0 /\ ~beyond => known <= Cardinality(table)
=============================================================================
