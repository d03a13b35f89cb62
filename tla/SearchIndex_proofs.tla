------------------------- MODULE SearchIndex_proofs -------------------------
(***************************************************************************)
(* Proofs about SearchIndex, for any number of writers, documents, texts   *)
(* and revisions: whatever races, a document at rest is found by each of   *)
(* its words, and - unless an add failed or a removal overlapped an        *)
(* update - by no other word.                                              *)
(***************************************************************************)
EXTENDS SearchIndex, TLAPS

WriterType ==
  [pc : {"idle", "queue", "write", "remove"}, doc : Docs, text : Texts \cup {{}},
   read : 0..MaxRevision, rev : 0..MaxRevision, todo : SUBSET Words]

\* What a record has, or a queued deletion names, has been committed.
CommittedInv ==
  /\ cleanup \subseteq current
  /\ \A d \in Docs : Exists(d) => <<d, record[d].rev>> \in current
  /\ \A d \in Docs, r \in Revisions : <<d, r>> \in current => r <= drawn

\* So has what a writer has read; what it is adding has not.
WriterInv(w) ==
  /\ writer[w].read # 0 => <<writer[w].doc, writer[w].read>> \in current
  /\ Adding(w) => /\ writer[w].rev <= drawn
                  /\ <<writer[w].doc, writer[w].rev>> \notin current
  /\ At(w, "idle") \/ At(w, "remove") => ~Adding(w)
  /\ At(w, "write") => Adding(w)
  /\ At(w, "queue") \/ At(w, "remove") => writer[w].read # 0

\* Revisions are drawn once.
DrawnOnce ==
  \A v, w \in Writers : Adding(v) /\ writer[v].rev = writer[w].rev => v = w

VersionsInv == CommittedInv /\ (\A w \in Writers : WriterInv(w)) /\ DrawnOnce

\* The words of the text being added are written or still to be written.
WordsWritten ==
  \A w \in Writers :
    /\ writer[w].todo \subseteq writer[w].text
    /\ Adding(w) => \A word \in writer[w].text :
         word \in writer[w].todo \/ <<word, writer[w].doc, writer[w].rev>> \in tokens

\* A writer that has queued the deletion of the version that is the record's.
Replacing(w, d) ==
  writer[w].pc \in {"write", "remove"} /\ writer[w].doc = d /\ writer[w].read = record[d].rev

\* The record's version keeps its tokens until somebody is about to replace it.
IndexedOrReplaced(d) ==
  \/ \E w \in Writers : Replacing(w, d)
  \/ /\ <<d, record[d].rev>> \notin cleanup
     /\ \A word \in record[d].text : <<word, d, record[d].rev>> \in tokens
StillIndexed == failures = 0 => \A d \in Docs : Exists(d) => IndexedOrReplaced(d)

\* The version a writer is replacing is being deleted, or has been.
OldDiscarded ==
  \A w \in Writers : writer[w].pc \in {"write", "remove"} /\ writer[w].read # 0 =>
    \/ OldVersion(w) \in cleanup
    \/ \A word \in Words : <<word, writer[w].doc, writer[w].read>> \notin tokens

\* Each token of an unspoilt document is being deleted, or the record's, or new.
TokensAccounted ==
  \A word \in Words, d \in Docs \ spoilt, r \in Revisions : <<word, d, r>> \in tokens =>
    \/ <<d, r>> \in cleanup
    \/ record[d].rev = r /\ word \in record[d].text
    \/ \E w \in Writers : At(w, "write") /\ writer[w].doc = d /\ writer[w].rev = r
                          /\ word \in writer[w].text

\* A document without a record has no text.
BlankInv == \A d \in Docs : record[d].rev = 0 => record[d].text = {}

IInv == /\ TypeOK /\ VersionsInv /\ WordsWritten /\ StillIndexed /\ OldDiscarded
        /\ TokensAccounted /\ BlankInv

USE TextsAssumption, BoundsAssumption
-----------------------------------------------------------------------------
\* A writer that does nothing.
LEMMA IdleType == /\ Idle \in WriterType
                  /\ Idle.pc = "idle" /\ Idle.rev = 0 /\ Idle.read = 0
                  /\ Idle.text = {} /\ Idle.todo = {}
<1>1. (CHOOSE d \in Docs : TRUE) \in Docs
      OBVIOUS
<1> QED
    BY <1>1 DEF Idle, WriterType

\* An empty index (index.py).
LEMMA InitIInv == Init => IInv
<1> SUFFICES ASSUME Init PROVE IInv
    OBVIOUS
<1>1. writer \in [Writers -> WriterType] /\ \A w \in Writers : writer[w] = Idle
      BY IdleType DEF Init
<1>2. /\ record \in [Docs -> [text : Texts \cup {{}}, rev : 0..MaxRevision]]
      /\ \A d \in Docs : record[d].rev = 0 /\ record[d].text = {}
      BY DEF Init, NoRecord
<1>3. tokens = {} /\ cleanup = {} /\ current = {} /\ spoilt = {} /\ drawn = 0 /\ failures = 0
      BY DEF Init
<1>4. TypeOK
      BY <1>1, <1>2, <1>3 DEF TypeOK, WriterType
<1>5. VersionsInv /\ WordsWritten
      BY <1>1, <1>2, <1>3, IdleType DEF VersionsInv, CommittedInv, WriterInv, DrawnOnce,
         WordsWritten, Exists, Adding, At
<1>6. StillIndexed /\ OldDiscarded /\ TokensAccounted /\ BlankInv
      BY <1>1, <1>2, <1>3, IdleType DEF StillIndexed, OldDiscarded, TokensAccounted, BlankInv, Exists
<1> QED
    BY <1>4, <1>5, <1>6 DEF IInv

\* What a writer is adding.
LEMMA AddingVersion ==
  ASSUME TypeOK, NEW w \in Writers, Adding(w)
  PROVE  /\ writer[w].doc \in Docs /\ writer[w].rev \in Revisions
         /\ <<writer[w].doc, writer[w].rev>> \in Versions
<1>1. writer[w] \in WriterType
      BY DEF TypeOK, WriterType
<1>2. writer[w].doc \in Docs /\ writer[w].rev \in 0..MaxRevision /\ writer[w].rev # 0
      BY <1>1 DEF WriterType, Adding
<1>3. writer[w].rev \in Revisions
      BY <1>2 DEF Revisions
<1> QED
    BY <1>2, <1>3 DEF Versions

\* Who writes is adding.
LEMMA WritingIsAdding ==
  ASSUME VersionsInv, NEW w \in Writers, At(w, "write") PROVE Adding(w)
BY DEF VersionsInv, WriterInv

\* Every step keeps the types.
LEMMA NextTypeOK == ASSUME TypeOK, VersionsInv, [Next]_vars PROVE TypeOK'
<1> USE DEF TypeOK, WriterType, Become, At
<1>1. ASSUME NEW w \in Writers, NEW d \in Docs, NEW text \in Texts, Add(w, d, text)
      PROVE  TypeOK'
  <2>1. drawn' \in 0..MaxRevision /\ text \subseteq Words
        BY <1>1 DEF Add
  <2> QED
      BY <1>1, <2>1 DEF Add
<1>2. ASSUME NEW w \in Writers, NEW d \in Docs, Remove(w, d) PROVE TypeOK'
  <2> DEFINE new == [Idle EXCEPT !.pc = "queue", !.doc = d, !.read = record[d].rev]
  <2>1. new \in WriterType
        BY IdleType
  <2>2. writer' = [writer EXCEPT ![w] = new]
        BY <1>2 DEF Remove
  <2> HIDE DEF new
  <2> QED
      BY <1>2, <2>1, <2>2 DEF Remove
<1>3. ASSUME NEW w \in Writers, QueueCleanup(w) PROVE TypeOK'
  <2>1. OldVersion(w) \in Versions
        BY <1>3 DEF QueueCleanup, VersionsInv, WriterInv, OldVersion, Versions, Revisions
  <2>2. writer' \in [Writers -> WriterType]
        BY <1>3 DEF QueueCleanup
  <2> QED
      BY <1>3, <2>1, <2>2 DEF QueueCleanup
<1>4. ASSUME NEW w \in Writers, NEW word \in Words, WriteToken(w, word) PROVE TypeOK'
  <2>1. <<word, writer[w].doc, writer[w].rev>> \in Words \X Docs \X Revisions
    <3>1. writer[w].doc \in Docs /\ writer[w].rev \in Revisions
          BY <1>4, WritingIsAdding, AddingVersion DEF WriteToken
    <3> QED
        BY <3>1
  <2>2. writer' \in [Writers -> WriterType]
    <3>1. writer[w].todo \ {word} \in SUBSET Words
          OBVIOUS
    <3>2. [writer[w] EXCEPT !.todo = @ \ {word}] \in WriterType
          BY <3>1
    <3> QED
        BY <1>4, <3>2 DEF WriteToken
  <2>3. tokens' \subseteq Words \X Docs \X Revisions
    <3>1. tokens' = tokens \cup {<<word, writer[w].doc, writer[w].rev>>}
          BY <1>4 DEF WriteToken
    <3> QED
        BY <2>1, <3>1
  <2> QED
      BY <1>4, <2>2, <2>3 DEF WriteToken
<1>5. ASSUME NEW w \in Writers, CommitAdd(w) PROVE TypeOK'
  <2>1. <<writer[w].doc, writer[w].rev>> \in Versions
        BY <1>5, WritingIsAdding, AddingVersion DEF CommitAdd
  <2>2. writer' \in [Writers -> WriterType]
        BY <1>5, IdleType DEF CommitAdd
  <2>3. record' \in [Docs -> [text : Texts \cup {{}}, rev : 0..MaxRevision]]
        BY <1>5 DEF CommitAdd
  <2>4. current' \subseteq Versions /\ spoilt' \subseteq Docs
    <3>1. /\ current' \in {current, current \cup {<<writer[w].doc, writer[w].rev>>}}
          /\ spoilt' \in {spoilt, spoilt \cup {writer[w].doc}}
          BY <1>5 DEF CommitAdd
    <3> QED
        BY <2>1, <3>1
  <2> QED
      BY <1>5, <2>2, <2>3, <2>4 DEF CommitAdd
<1>6. ASSUME NEW w \in Writers, DeleteRecord(w) \/ WriterFails(w) PROVE TypeOK'
  <2>1. writer' \in [Writers -> WriterType]
        BY <1>6, IdleType DEF DeleteRecord, WriterFails
  <2>2. NoRecord \in [text : Texts \cup {{}}, rev : 0..MaxRevision]
        BY DEF NoRecord
  <2>3. record' \in [Docs -> [text : Texts \cup {{}}, rev : 0..MaxRevision]]
        BY <1>6, <2>2 DEF DeleteRecord, WriterFails
  <2> QED
      BY <1>6, <2>1, <2>3 DEF DeleteRecord, WriterFails
<1>7. ASSUME NEW v \in Versions, Clean(v) PROVE TypeOK'
      BY <1>7 DEF Clean, DestroyToken, FinishCleanup
<1>8. CASE UNCHANGED vars
      BY <1>8 DEF vars
<1> QED
    BY <1>1, <1>2, <1>3, <1>4, <1>5, <1>6, <1>7, <1>8 DEF Next, Write

\* A step of one writer to r keeps what is known of revisions.
LEMMA WriterStep ==
  ASSUME TypeOK, VersionsInv, NEW w \in Writers, NEW r \in WriterType,
         writer' = [writer EXCEPT ![w] = r],
         drawn' \in Nat, drawn' \in {drawn, drawn + 1}, CommittedInv',
         r.read # 0 => <<r.doc, r.read>> \in current',
         r.rev # 0 => r.rev <= drawn' /\ <<r.doc, r.rev>> \notin current',
         r.pc \in {"idle", "remove"} => r.rev = 0,
         r.pc = "write" => r.rev # 0,
         r.pc \in {"queue", "remove"} => r.read # 0,
         \A v \in Writers \ {w} : writer[v].rev # 0 =>
           <<writer[v].doc, writer[v].rev>> \notin current' /\ writer[v].rev # r.rev,
         current \subseteq current'
  PROVE  VersionsInv'
<1> USE DEF Adding, At
<1>1. \A v \in Writers : writer'[v] = IF v = w THEN r ELSE writer[v]
      BY DEF TypeOK
<1>2. ASSUME NEW v \in Writers PROVE WriterInv(v)'
  <2>1. CASE v = w
        BY <1>1, <2>1 DEF WriterInv
  <2>2. CASE v # w
    <3>1. writer'[v] = writer[v] /\ WriterInv(v)
          BY <1>1, <2>2 DEF VersionsInv
    <3>2. writer[v].rev \in Nat /\ drawn \in Nat
          BY DEF TypeOK
    <3> QED
        BY <2>2, <3>1, <3>2 DEF WriterInv
  <2> QED
      BY <2>1, <2>2
<1>3. DrawnOnce'
  <2> SUFFICES ASSUME NEW u \in Writers, NEW v \in Writers, u # v,
                      writer'[u].rev # 0
               PROVE  writer'[u].rev # writer'[v].rev
      BY DEF DrawnOnce
  <2>1. CASE u # w /\ v # w
        BY <1>1, <2>1 DEF VersionsInv, DrawnOnce
  <2>2. CASE u = w \/ v = w
        BY <1>1, <2>2
  <2> QED
      BY <2>1, <2>2
<1> QED
    BY <1>2, <1>3 DEF VersionsInv

\* Every step keeps what is known of revisions.
LEMMA NextVersions == ASSUME TypeOK, TypeOK', VersionsInv, [Next]_vars PROVE VersionsInv'
<1> USE DEF Become, At, Adding, Exists
<1>0. /\ drawn \in Nat /\ drawn' \in Nat /\ \A w \in Writers : writer[w] \in WriterType
      /\ \A w \in Writers : WriterInv(w)
      BY DEF TypeOK, WriterType, VersionsInv
<1>a. \A w \in Writers :
        writer[w].rev \in Nat /\ (Adding(w) => writer[w].rev <= drawn)
  <2>1. \A w \in Writers : writer[w].rev \in Nat
        BY <1>0 DEF WriterType
  <2>2. \A w \in Writers : Adding(w) => writer[w].rev <= drawn
        BY <1>0 DEF WriterInv
  <2> QED
      BY <2>1, <2>2
<1>1. ASSUME NEW w \in Writers, NEW d \in Docs, NEW text \in Texts, Add(w, d, text)
      PROVE  VersionsInv'
  <2> DEFINE new == [pc |-> IF Exists(d) THEN "queue" ELSE "write", doc |-> d, text |-> text,
                     read |-> record[d].rev, rev |-> drawn', todo |-> text]
  <2>1. /\ writer' = [writer EXCEPT ![w] = new]
        /\ drawn' = drawn + 1 /\ drawn' \in Revisions
        /\ UNCHANGED <<record, cleanup, current>>
        BY <1>0, <1>1 DEF Add, Revisions, TypeOK
  <2>2. /\ new.doc = d /\ new.rev = drawn' /\ new.read = record[d].rev
        /\ new.pc \in {"queue", "write"} /\ (new.pc = "queue" => new.read # 0)
        OBVIOUS
  <2> HIDE DEF new
  <2>3. <<d, drawn'>> \notin current
    <3>1. ~(drawn' <= drawn)
          BY <1>0, <2>1
    <3> QED
        BY <2>1, <3>1 DEF VersionsInv, CommittedInv
  <2>4. \A v \in Writers : Adding(v) => writer[v].rev # drawn'
        BY <1>0, <1>a, <2>1
  <2>6. new.read # 0 => <<d, new.read>> \in current
        BY <2>2 DEF VersionsInv, CommittedInv
  <2>8. CommittedInv'
        BY <1>0, <2>1 DEF VersionsInv, CommittedInv, Revisions
  <2>9. \A v \in Writers \ {w} : Adding(v) =>
          <<writer[v].doc, writer[v].rev>> \notin current' /\ writer[v].rev # new.rev
        BY <1>0, <2>1, <2>2, <2>4 DEF WriterInv
  <2> QED
    <3>1. new \in WriterType
          BY <2>1 DEF TypeOK, WriterType
    <3>2. new.rev <= drawn' /\ new.rev # 0 /\ current' = current
          BY <1>0, <2>1, <2>2 DEF Revisions
    <3> QED
        BY <1>0, <2>1, <2>2, <2>3, <2>6, <2>8, <2>9, <3>1, <3>2, WriterStep
<1>2. ASSUME NEW w \in Writers, NEW d \in Docs, Remove(w, d) PROVE VersionsInv'
  <2> DEFINE new == [Idle EXCEPT !.pc = "queue", !.doc = d, !.read = record[d].rev]
  <2>1. /\ writer' = [writer EXCEPT ![w] = new]
        /\ UNCHANGED <<record, cleanup, current, drawn>> /\ record[d].rev # 0
        BY <1>2 DEF Remove
  <2>2. new.doc = d /\ new.rev = 0 /\ new.read = record[d].rev /\ new.pc = "queue"
        BY IdleType DEF WriterType
  <2> HIDE DEF new
  <2>4. <<new.doc, new.read>> \in current'
        BY <2>1, <2>2 DEF VersionsInv, CommittedInv
  <2>5. CommittedInv'
        BY <2>1 DEF VersionsInv, CommittedInv
  <2>6. \A v \in Writers \ {w} : Adding(v) =>
          <<writer[v].doc, writer[v].rev>> \notin current' /\ writer[v].rev # new.rev
        BY <1>0, <2>1, <2>2 DEF WriterInv
  <2> QED
    <3>1. new \in WriterType
          BY <2>1 DEF TypeOK, WriterType
    <3> QED
        BY <1>0, <2>1, <2>2, <2>4, <2>5, <2>6, <3>1, WriterStep
<1>3. ASSUME NEW w \in Writers, NEW r \in WriterType,
             writer' = [writer EXCEPT ![w] = r], UNCHANGED <<record, current, drawn>>,
             r.doc = writer[w].doc, r.rev = writer[w].rev, r.read = writer[w].read,
             r.pc = "write" => Adding(w), r.pc # "queue" /\ r.pc # "idle",
             r.pc = "remove" => ~Adding(w) /\ writer[w].read # 0,
             cleanup' \subseteq current
      PROVE  VersionsInv'
  <2>3. CommittedInv'
        BY <1>3 DEF VersionsInv, CommittedInv
  <2>4. \A v \in Writers \ {w} : Adding(v) =>
          <<writer[v].doc, writer[v].rev>> \notin current' /\ writer[v].rev # r.rev
        BY <1>0, <1>3 DEF WriterInv, VersionsInv, DrawnOnce
  <2> QED
    <3>1. /\ r.read # 0 => <<r.doc, r.read>> \in current'
          /\ r.rev # 0 => r.rev <= drawn' /\ <<r.doc, r.rev>> \notin current'
          BY <1>0, <1>3 DEF WriterInv
    <3> QED
        BY <1>0, <1>3, <2>3, <2>4, <3>1, WriterStep
<1>4. ASSUME NEW w \in Writers, QueueCleanup(w) PROVE VersionsInv'
  <2> DEFINE new == [writer[w] EXCEPT !.pc = IF Adding(w) THEN "write" ELSE "remove"]
  <2>1. /\ new \in WriterType /\ new.doc = writer[w].doc /\ new.rev = writer[w].rev
        /\ new.read = writer[w].read /\ new.pc = IF Adding(w) THEN "write" ELSE "remove"
        BY <1>0 DEF WriterType
  <2>2. writer[w].read # 0 /\ OldVersion(w) \in current
        BY <1>0, <1>4 DEF QueueCleanup, OldVersion, WriterInv
  <2>3. cleanup' \subseteq current
        BY <1>4, <2>2 DEF QueueCleanup, VersionsInv, CommittedInv
  <2>4. writer' = [writer EXCEPT ![w] = new] /\ UNCHANGED <<record, current, drawn>>
        BY <1>4 DEF QueueCleanup
  <2> HIDE DEF new
  <2> QED
      BY <1>3, <2>1, <2>2, <2>3, <2>4
<1>5. ASSUME NEW w \in Writers, NEW word \in Words, WriteToken(w, word) PROVE VersionsInv'
  <2> DEFINE new == [writer[w] EXCEPT !.todo = @ \ {word}]
  <2>1. /\ new \in WriterType /\ new.doc = writer[w].doc /\ new.rev = writer[w].rev
        /\ new.read = writer[w].read /\ new.pc = "write" /\ Adding(w)
        BY <1>0, <1>5 DEF WriterType, WriteToken, WriterInv
  <2>2. writer' = [writer EXCEPT ![w] = new] /\ UNCHANGED <<record, cleanup, current, drawn>>
        BY <1>5 DEF WriteToken
  <2> HIDE DEF new
  <2> QED
      BY <1>3, <2>1, <2>2 DEF VersionsInv, CommittedInv
<1>6. ASSUME NEW w \in Writers, writer' = [writer EXCEPT ![w] = Idle], current \subseteq current',
             \A v \in Writers \ {w} : Adding(v) => <<writer[v].doc, writer[v].rev>> \notin current',
             CommittedInv', UNCHANGED drawn
      PROVE  VersionsInv'
  <2>2. \A v \in Writers \ {w} : Adding(v) => writer[v].rev # Idle.rev
        BY IdleType
  <2> QED
      BY <1>0, <1>6, <2>2, IdleType, WriterStep
<1>7. ASSUME NEW w \in Writers, CommitAdd(w) PROVE VersionsInv'
  <2>1. /\ writer' = [writer EXCEPT ![w] = Idle] /\ UNCHANGED <<cleanup, drawn>>
        /\ Adding(w) /\ writer[w].rev <= drawn
        BY <1>0, <1>7 DEF CommitAdd, WriterInv
  <2>2. CASE UNCHANGED <<record, current>>
    <3>1. CommittedInv'
          BY <2>1, <2>2 DEF VersionsInv, CommittedInv
    <3> QED
        BY <1>0, <1>6, <2>1, <2>2, <3>1 DEF WriterInv
  <2>3. CASE /\ record' = [record EXCEPT ![writer[w].doc] =
                             [text |-> writer[w].text, rev |-> writer[w].rev]]
             /\ current' = current \cup {<<writer[w].doc, writer[w].rev>>}
    <3>1. \A v \in Writers \ {w} : Adding(v) => writer[v].rev # writer[w].rev
          BY <2>1 DEF VersionsInv, DrawnOnce
    <3>2. \A d \in Docs : record'[d] = IF d = writer[w].doc
                            THEN [text |-> writer[w].text, rev |-> writer[w].rev] ELSE record[d]
          BY <2>3 DEF TypeOK
    <3>3. CommittedInv'
          BY <2>1, <2>3, <3>2 DEF VersionsInv, CommittedInv
    <3> QED
        BY <1>0, <1>6, <2>1, <2>3, <3>1, <3>3 DEF WriterInv
  <2> QED
      BY <1>7, <2>2, <2>3 DEF CommitAdd
<1>8. ASSUME NEW w \in Writers, DeleteRecord(w) \/ WriterFails(w) PROVE VersionsInv'
  <2>1. /\ writer' = [writer EXCEPT ![w] = Idle] /\ UNCHANGED <<cleanup, current, drawn>>
        /\ record' \in {record, [record EXCEPT ![writer[w].doc] = NoRecord]}
        BY <1>8 DEF DeleteRecord, WriterFails
  <2>2. \A d \in Docs : record'[d].rev \in {0, record[d].rev}
        BY <2>1 DEF NoRecord, TypeOK
  <2>3. CommittedInv'
        BY <2>1, <2>2 DEF VersionsInv, CommittedInv
  <2> QED
      BY <1>0, <1>6, <2>1, <2>3 DEF WriterInv
<1>9. CASE (\E v \in Versions : Clean(v)) \/ UNCHANGED vars
  <2>1. UNCHANGED <<record, writer, current, drawn>> /\ cleanup' \subseteq cleanup
        BY <1>9 DEF Clean, DestroyToken, FinishCleanup, vars
  <2> QED
      BY <2>1 DEF VersionsInv, CommittedInv, WriterInv, DrawnOnce
<1> QED
    BY <1>1, <1>2, <1>4, <1>5, <1>7, <1>8, <1>9 DEF Next, Write
-----------------------------------------------------------------------------
\* What a deletion deletes: tokens of a version that has been committed.
LEMMA CleanTokens ==
  ASSUME TypeOK, VersionsInv, NEW v \in Versions, Clean(v)
  PROVE  /\ v \in cleanup /\ v \in current /\ tokens' \subseteq tokens
         /\ \A word \in Words, d \in Docs, r \in Revisions :
              <<word, d, r>> \in tokens /\ <<d, r>> # v => <<word, d, r>> \in tokens'
<1>1. v \in cleanup
      BY DEF Clean, DestroyToken, FinishCleanup
<1>2. CASE DestroyToken(v)
  <2>1. PICK t \in tokens : <<t[2], t[3]>> = v /\ tokens' = tokens \ {t}
        BY <1>2 DEF DestroyToken, Indexed
  <2>2. ASSUME NEW word \in Words, NEW d \in Docs, NEW r \in Revisions, <<d, r>> # v
        PROVE  <<word, d, r>> # t
        BY <2>1, <2>2
  <2> QED
      BY <1>1, <2>1, <2>2 DEF VersionsInv, CommittedInv
<1>3. CASE FinishCleanup(v)
      BY <1>1, <1>3 DEF FinishCleanup, VersionsInv, CommittedInv
<1> QED
    BY <1>2, <1>3 DEF Clean

\* Every step keeps the words of what is being added.
LEMMA NextWords ==
  ASSUME TypeOK, VersionsInv, WordsWritten, [Next]_vars PROVE WordsWritten'
<1> USE DEF Become, At, Adding
<1>0. \A w \in Writers : writer[w] \in WriterType
      BY DEF TypeOK, WriterType
<1>1. ASSUME NEW w \in Writers, NEW new \in WriterType, writer' = [writer EXCEPT ![w] = new],
             tokens \subseteq tokens', new.todo \subseteq new.text,
             new.rev # 0 => \A word \in new.text : word \in new.todo \/ <<word, new.doc, new.rev>> \in tokens'
      PROVE  WordsWritten'
  <2>1. \A v \in Writers : writer'[v] = IF v = w THEN new ELSE writer[v]
        BY <1>1 DEF TypeOK
  <2> QED
      BY <1>1, <2>1 DEF WordsWritten
<1>2. ASSUME NEW w \in Writers, NEW d \in Docs, NEW text \in Texts, Add(w, d, text)
      PROVE  WordsWritten'
  <2> DEFINE new == [pc |-> IF Exists(d) THEN "queue" ELSE "write", doc |-> d, text |-> text,
                     read |-> record[d].rev, rev |-> drawn', todo |-> text]
  <2>1. /\ writer' = [writer EXCEPT ![w] = new] /\ tokens' = tokens
        /\ drawn' \in 0..MaxRevision /\ text \subseteq Words
        BY <1>2 DEF Add, TypeOK
  <2>2. new \in WriterType /\ new.text = new.todo
        BY <2>1 DEF TypeOK, WriterType
  <2> HIDE DEF new
  <2> QED
      BY <1>1, <2>1, <2>2
<1>3. ASSUME NEW w \in Writers, NEW d \in Docs, Remove(w, d) PROVE WordsWritten'
  <2> DEFINE new == [Idle EXCEPT !.pc = "queue", !.doc = d, !.read = record[d].rev]
  <2>1. writer' = [writer EXCEPT ![w] = new] /\ tokens' = tokens
        BY <1>3 DEF Remove
  <2>2. new \in WriterType /\ new.rev = 0 /\ new.todo = new.text
        BY IdleType DEF TypeOK, WriterType
  <2> HIDE DEF new
  <2> QED
      BY <1>1, <2>1, <2>2
<1>4. ASSUME NEW w \in Writers, QueueCleanup(w) PROVE WordsWritten'
  <2> DEFINE new == [writer[w] EXCEPT !.pc = IF Adding(w) THEN "write" ELSE "remove"]
  <2>1. writer' = [writer EXCEPT ![w] = new] /\ tokens' = tokens
        BY <1>4 DEF QueueCleanup
  <2>2. /\ new \in WriterType /\ new.rev = writer[w].rev /\ new.doc = writer[w].doc
        /\ new.text = writer[w].text /\ new.todo = writer[w].todo
        BY <1>0 DEF WriterType
  <2> HIDE DEF new
  <2> QED
      BY <1>1, <2>1, <2>2 DEF WordsWritten
<1>5. ASSUME NEW w \in Writers, NEW word \in Words, WriteToken(w, word) PROVE WordsWritten'
  <2> DEFINE new == [writer[w] EXCEPT !.todo = @ \ {word}]
  <2>1. /\ writer' = [writer EXCEPT ![w] = new]
        /\ tokens' = tokens \cup {<<word, writer[w].doc, writer[w].rev>>}
        BY <1>5 DEF WriteToken
  <2>2. /\ new \in WriterType /\ new.rev = writer[w].rev /\ new.doc = writer[w].doc
        /\ new.text = writer[w].text /\ new.todo = writer[w].todo \ {word}
        BY <1>0 DEF WriterType
  <2> HIDE DEF new
  <2>3. ASSUME new.rev # 0, NEW x \in new.text
        PROVE  x \in new.todo \/ <<x, new.doc, new.rev>> \in tokens'
        BY <2>1, <2>2, <2>3 DEF WordsWritten
  <2>4. tokens \subseteq tokens' /\ new.todo \subseteq new.text
        BY <2>1, <2>2 DEF WordsWritten
  <2> QED
      BY <1>1, <2>1, <2>2, <2>3, <2>4
<1>6. ASSUME NEW w \in Writers, CommitAdd(w) \/ DeleteRecord(w) \/ WriterFails(w)
      PROVE  WordsWritten'
  <2>1. writer' = [writer EXCEPT ![w] = Idle] /\ tokens' = tokens
        BY <1>6 DEF CommitAdd, DeleteRecord, WriterFails
  <2> QED
      BY <1>1, <2>1, IdleType
<1>7. ASSUME NEW v \in Versions, Clean(v) PROVE WordsWritten'
  <2> SUFFICES ASSUME NEW w \in Writers, Adding(w), NEW word \in writer[w].text,
                      word \notin writer[w].todo
               PROVE  <<word, writer[w].doc, writer[w].rev>> \in tokens'
      BY <1>7 DEF Clean, DestroyToken, FinishCleanup, WordsWritten
  <2>1. /\ <<word, writer[w].doc, writer[w].rev>> \in tokens
        /\ <<writer[w].doc, writer[w].rev>> \notin current
        BY DEF WordsWritten, VersionsInv, WriterInv
  <2>2. word \in Words /\ writer[w].doc \in Docs /\ writer[w].rev \in Revisions
    <3>1. word \in Words
          BY <1>0 DEF WriterType
    <3> QED
        BY <3>1, AddingVersion
  <2> QED
      BY <1>7, <2>1, <2>2, CleanTokens
<1>8. CASE UNCHANGED vars
      BY <1>8 DEF vars, WordsWritten
<1> QED
    BY <1>2, <1>3, <1>4, <1>5, <1>6, <1>7, <1>8 DEF Next, Write

\* Every step keeps the index of the record's version.
LEMMA NextIndexed ==
  ASSUME TypeOK, VersionsInv, WordsWritten, StillIndexed, [Next]_vars PROVE StillIndexed'
<1> USE DEF Become, At, IndexedOrReplaced
<1> SUFFICES ASSUME failures' = 0, NEW d \in Docs, Exists(d)'
             PROVE  IndexedOrReplaced(d)'
    BY DEF StillIndexed
<1>1. ASSUME NEW w \in Writers, NEW new \in WriterType, writer' = [writer EXCEPT ![w] = new],
             UNCHANGED <<record, failures>>, tokens \subseteq tokens',
             \/ writer[w].pc \notin {"write", "remove"}
             \/ new.pc = writer[w].pc /\ new.doc = writer[w].doc /\ new.read = writer[w].read,
             \/ cleanup' = cleanup
             \/ /\ cleanup' = cleanup \cup {<<new.doc, new.read>>}
                /\ new.pc \in {"write", "remove"}
      PROVE  IndexedOrReplaced(d)'
  <2>1. \A u \in Writers : writer'[u] = IF u = w THEN new ELSE writer[u]
        BY <1>1 DEF TypeOK
  <2>2. CASE \E u \in Writers : Replacing(u, d)
        BY <1>1, <2>1, <2>2 DEF Replacing
  <2>3. CASE /\ <<d, record[d].rev>> \notin cleanup
             /\ \A word \in record[d].text : <<word, d, record[d].rev>> \in tokens
    <3>1. CASE <<d, record[d].rev>> \in cleanup'
      <4>1. new.doc = d /\ new.read = record[d].rev /\ new.pc \in {"write", "remove"}
            BY <1>1, <2>3, <3>1
      <4> QED
          BY <1>1, <2>1, <4>1 DEF Replacing
    <3>2. CASE <<d, record[d].rev>> \notin cleanup'
          BY <1>1, <2>3, <3>2
    <3> QED
        BY <3>1, <3>2
  <2> QED
      BY <1>1, <2>2, <2>3 DEF StillIndexed, Exists
<1>0. \A w \in Writers : writer[w] \in WriterType
      BY DEF TypeOK, WriterType
<1>2. ASSUME NEW w \in Writers, NEW e \in Docs, NEW text \in Texts, Add(w, e, text)
      PROVE  IndexedOrReplaced(d)'
  <2> DEFINE new == [pc |-> IF Exists(e) THEN "queue" ELSE "write", doc |-> e, text |-> text,
                     read |-> record[e].rev, rev |-> drawn', todo |-> text]
  <2>1. /\ writer' = [writer EXCEPT ![w] = new] /\ UNCHANGED <<record, failures, tokens, cleanup>>
        /\ drawn' \in 0..MaxRevision /\ text \subseteq Words /\ writer[w].pc = "idle"
        BY <1>2 DEF Add, TypeOK
  <2>2. new \in WriterType
        BY <2>1 DEF TypeOK, WriterType
  <2> HIDE DEF new
  <2> QED
      BY <1>1, <2>1, <2>2
<1>3. ASSUME NEW w \in Writers, NEW e \in Docs, Remove(w, e)
      PROVE  IndexedOrReplaced(d)'
  <2> DEFINE new == [Idle EXCEPT !.pc = "queue", !.doc = e, !.read = record[e].rev]
  <2>1. /\ writer' = [writer EXCEPT ![w] = new] /\ UNCHANGED <<record, failures, tokens, cleanup>>
        /\ writer[w].pc = "idle"
        BY <1>3 DEF Remove
  <2>2. new \in WriterType
        BY IdleType DEF TypeOK, WriterType
  <2> HIDE DEF new
  <2> QED
      BY <1>1, <2>1, <2>2
<1>4. ASSUME NEW w \in Writers, QueueCleanup(w)
      PROVE  IndexedOrReplaced(d)'
  <2> DEFINE new == [writer[w] EXCEPT !.pc = IF Adding(w) THEN "write" ELSE "remove"]
  <2>1. /\ writer' = [writer EXCEPT ![w] = new] /\ UNCHANGED <<record, failures, tokens>>
        /\ writer[w].pc = "queue" /\ cleanup' = cleanup \cup {<<writer[w].doc, writer[w].read>>}
        BY <1>4 DEF QueueCleanup, OldVersion
  <2>2. /\ new \in WriterType /\ new.pc \in {"write", "remove"}
        /\ new.doc = writer[w].doc /\ new.read = writer[w].read
        BY <1>0 DEF WriterType
  <2> HIDE DEF new
  <2> QED
      BY <1>1, <2>1, <2>2
<1>5. ASSUME NEW w \in Writers, NEW word \in Words, WriteToken(w, word)
      PROVE  IndexedOrReplaced(d)'
  <2> DEFINE new == [writer[w] EXCEPT !.todo = @ \ {word}]
  <2>1. /\ writer' = [writer EXCEPT ![w] = new] /\ UNCHANGED <<record, failures, cleanup>>
        /\ tokens \subseteq tokens'
        BY <1>5 DEF WriteToken
  <2>2. /\ new \in WriterType /\ new.pc = writer[w].pc
        /\ new.doc = writer[w].doc /\ new.read = writer[w].read
        BY <1>0 DEF WriterType
  <2> HIDE DEF new
  <2> QED
      BY <1>1, <2>1, <2>2
<1>6. ASSUME NEW w \in Writers, CommitAdd(w) \/ DeleteRecord(w),
             record'[d] = record[d], d # writer[w].doc \/ writer[w].read # record[d].rev
      PROVE  IndexedOrReplaced(d)'
  <2>1. writer' = [writer EXCEPT ![w] = Idle] /\ UNCHANGED <<failures, cleanup, tokens>>
        BY <1>6 DEF CommitAdd, DeleteRecord
  <2>2. \A u \in Writers : Replacing(u, d) => u # w
        BY <1>6 DEF Replacing
  <2>3. \A u \in Writers : u # w => writer'[u] = writer[u]
        BY <2>1 DEF TypeOK
  <2>4. CASE \E u \in Writers : Replacing(u, d)
        BY <1>6, <2>2, <2>3, <2>4 DEF Replacing
  <2>5. CASE ~\E u \in Writers : Replacing(u, d)
        BY <1>6, <2>1, <2>5 DEF StillIndexed, Exists
  <2> QED
      BY <2>4, <2>5
<1>7. ASSUME NEW w \in Writers, CommitAdd(w)
      PROVE  IndexedOrReplaced(d)'
  <2>1. CASE record' = [record EXCEPT ![writer[w].doc] =
                          [text |-> writer[w].text, rev |-> writer[w].rev]]
    <3>1. CASE d = writer[w].doc
      <4>1. record'[d] = [text |-> writer[w].text, rev |-> writer[w].rev]
            BY <2>1, <3>1 DEF TypeOK
      <4>2. \A x \in writer[w].text : <<x, d, writer[w].rev>> \in tokens
            BY <1>7, <3>1, WritingIsAdding DEF CommitAdd, WordsWritten
      <4>3. <<d, writer[w].rev>> \notin cleanup
        <5>1. Adding(w)
              BY <1>7, WritingIsAdding DEF CommitAdd
        <5> QED
            BY <3>1, <5>1 DEF VersionsInv, CommittedInv, WriterInv
      <4> QED
          BY <1>7, <4>1, <4>2, <4>3 DEF CommitAdd
    <3>2. CASE d # writer[w].doc
          BY <1>6, <1>7, <2>1, <3>2 DEF TypeOK
    <3> QED
        BY <3>1, <3>2
  <2>2. CASE record[writer[w].doc].rev # writer[w].read /\ UNCHANGED record
        BY <1>6, <1>7, <2>2
  <2> QED
      BY <1>7, <2>1, <2>2 DEF CommitAdd
<1>8. ASSUME NEW w \in Writers, DeleteRecord(w)
      PROVE  IndexedOrReplaced(d)'
  <2>1. record' = [record EXCEPT ![writer[w].doc] = NoRecord]
        BY <1>8 DEF DeleteRecord
  <2>2. d # writer[w].doc
        BY <2>1 DEF Exists, NoRecord, TypeOK
  <2> QED
      BY <1>6, <1>8, <2>1, <2>2 DEF TypeOK
<1>9. ASSUME NEW v \in Versions, Clean(v)
      PROVE  IndexedOrReplaced(d)'
  <2>1. UNCHANGED <<record, writer, failures>> /\ cleanup' \subseteq cleanup
        BY <1>9 DEF Clean, DestroyToken, FinishCleanup
  <2>2. CASE \E u \in Writers : Replacing(u, d)
        BY <2>1, <2>2 DEF Replacing
  <2>3. CASE /\ <<d, record[d].rev>> \notin cleanup
             /\ \A x \in record[d].text : <<x, d, record[d].rev>> \in tokens
    <3>1. record[d].rev \in Revisions /\ record[d].text \subseteq Words
      <4>1. record[d] \in [text : Texts \cup {{}}, rev : 0..MaxRevision]
            BY DEF TypeOK
      <4> QED
          BY <2>1, <4>1 DEF Exists, Revisions
    <3> QED
        BY <1>9, <2>1, <2>3, <3>1, CleanTokens
  <2> QED
      BY <2>1, <2>2, <2>3 DEF StillIndexed, Exists
<1>10. ASSUME NEW w \in Writers, WriterFails(w) PROVE FALSE
      BY <1>10 DEF WriterFails, TypeOK
<1>11. CASE UNCHANGED vars
      BY <1>11 DEF vars, StillIndexed, Replacing, Exists
<1> QED
    BY <1>2, <1>3, <1>4, <1>5, <1>7, <1>8, <1>9, <1>10, <1>11 DEF Next, Write

\* Every step keeps the deletion of what is being replaced.
LEMMA NextDiscarded ==
  ASSUME TypeOK, VersionsInv, OldDiscarded, [Next]_vars PROVE OldDiscarded'
<1> USE DEF Become, At
<1>0. \A w \in Writers : writer[w] \in WriterType
      BY DEF TypeOK, WriterType
<1>1. ASSUME NEW w \in Writers, NEW new \in WriterType, writer' = [writer EXCEPT ![w] = new],
             cleanup \subseteq cleanup', UNCHANGED tokens,
             \/ new.pc \notin {"write", "remove"}
             \/ new.read = 0
             \/ <<new.doc, new.read>> \in cleanup'
      PROVE  OldDiscarded'
  <2>1. \A u \in Writers : writer'[u] = IF u = w THEN new ELSE writer[u]
        BY <1>1 DEF TypeOK
  <2> QED
      BY <1>1, <2>1 DEF OldDiscarded, OldVersion
<1>2. ASSUME NEW w \in Writers, NEW d \in Docs, NEW text \in Texts, Add(w, d, text)
      PROVE  OldDiscarded'
  <2> DEFINE new == [pc |-> IF Exists(d) THEN "queue" ELSE "write", doc |-> d, text |-> text,
                     read |-> record[d].rev, rev |-> drawn', todo |-> text]
  <2>1. /\ writer' = [writer EXCEPT ![w] = new] /\ UNCHANGED <<tokens, cleanup>>
        /\ drawn' \in 0..MaxRevision /\ text \subseteq Words
        BY <1>2 DEF Add, TypeOK
  <2>2. new \in WriterType /\ (new.pc = "queue" \/ new.read = 0)
        BY <2>1 DEF TypeOK, WriterType, Exists
  <2> HIDE DEF new
  <2> QED
      BY <1>1, <2>1, <2>2
<1>3. ASSUME NEW w \in Writers, NEW d \in Docs, Remove(w, d) PROVE OldDiscarded'
  <2> DEFINE new == [Idle EXCEPT !.pc = "queue", !.doc = d, !.read = record[d].rev]
  <2>1. writer' = [writer EXCEPT ![w] = new] /\ UNCHANGED <<tokens, cleanup>>
        BY <1>3 DEF Remove
  <2>2. new \in WriterType /\ new.pc = "queue"
        BY IdleType DEF TypeOK, WriterType
  <2> HIDE DEF new
  <2> QED
      BY <1>1, <2>1, <2>2
<1>4. ASSUME NEW w \in Writers, QueueCleanup(w) PROVE OldDiscarded'
  <2> DEFINE new == [writer[w] EXCEPT !.pc = IF Adding(w) THEN "write" ELSE "remove"]
  <2>1. /\ writer' = [writer EXCEPT ![w] = new] /\ UNCHANGED tokens
        /\ cleanup' = cleanup \cup {<<writer[w].doc, writer[w].read>>}
        BY <1>4 DEF QueueCleanup, OldVersion
  <2>2. new \in WriterType /\ new.doc = writer[w].doc /\ new.read = writer[w].read
        BY <1>0 DEF WriterType
  <2> HIDE DEF new
  <2> QED
      BY <1>1, <2>1, <2>2
<1>5. ASSUME NEW w \in Writers, NEW word \in Words, WriteToken(w, word) PROVE OldDiscarded'
  <2>1. /\ writer' = [writer EXCEPT ![w] = [writer[w] EXCEPT !.todo = @ \ {word}]]
        /\ tokens' = tokens \cup {<<word, writer[w].doc, writer[w].rev>>} /\ cleanup' = cleanup
        BY <1>5 DEF WriteToken
  <2>2. <<writer[w].doc, writer[w].rev>> \notin current
    <3>1. Adding(w)
          BY <1>5, WritingIsAdding DEF WriteToken
    <3> QED
        BY <3>1 DEF VersionsInv, WriterInv
  <2>3. \A u \in Writers : /\ writer'[u].pc = writer[u].pc /\ writer'[u].doc = writer[u].doc
                           /\ writer'[u].read = writer[u].read
        BY <1>0, <2>1 DEF TypeOK, WriterType
  <2>4. ASSUME NEW u \in Writers, writer[u].read # 0, NEW x \in Words,
               <<x, writer[u].doc, writer[u].read>> \notin tokens
        PROVE  <<x, writer[u].doc, writer[u].read>> \notin tokens'
    <3>1. <<writer[u].doc, writer[u].read>> \in current
          BY <2>4 DEF VersionsInv, WriterInv
    <3> QED
        BY <2>1, <2>2, <2>4, <3>1
  <2> QED
      BY <2>1, <2>3, <2>4 DEF OldDiscarded, OldVersion
<1>6. ASSUME NEW w \in Writers, CommitAdd(w) \/ DeleteRecord(w) \/ WriterFails(w)
      PROVE  OldDiscarded'
  <2>1. writer' = [writer EXCEPT ![w] = Idle] /\ UNCHANGED <<tokens, cleanup>>
        BY <1>6 DEF CommitAdd, DeleteRecord, WriterFails
  <2> QED
      BY <1>1, <2>1, IdleType
<1>7. ASSUME NEW v \in Versions, Clean(v) PROVE OldDiscarded'
  <2>1. tokens' \subseteq tokens /\ UNCHANGED writer
        BY <1>7, CleanTokens DEF Clean, DestroyToken, FinishCleanup
  <2>2. CASE DestroyToken(v)
        BY <2>1, <2>2 DEF DestroyToken, OldDiscarded, OldVersion
  <2>3. CASE FinishCleanup(v)
    <3> SUFFICES ASSUME NEW u \in Writers, OldVersion(u) = v, NEW word \in Words,
                        <<word, writer[u].doc, writer[u].read>> \in tokens
                 PROVE  FALSE
        BY <2>1, <2>3 DEF FinishCleanup, OldDiscarded, OldVersion
    <3>1. <<word, writer[u].doc, writer[u].read>> \in Indexed(v)
          BY DEF Indexed, OldVersion
    <3> QED
        BY <2>3, <3>1 DEF FinishCleanup
  <2> QED
      BY <1>7, <2>2, <2>3 DEF Clean
<1>8. CASE UNCHANGED vars
      BY <1>8 DEF vars, OldDiscarded, OldVersion
<1> QED
    BY <1>2, <1>3, <1>4, <1>5, <1>6, <1>7, <1>8 DEF Next, Write

\* Every step accounts for the tokens.
LEMMA NextAccounted ==
  ASSUME TypeOK, VersionsInv, WordsWritten, OldDiscarded, TokensAccounted, [Next]_vars
  PROVE  TokensAccounted'
<1> USE DEF Become, At
<1>0. \A w \in Writers : writer[w] \in WriterType
      BY DEF TypeOK, WriterType
<1>1. ASSUME NEW w \in Writers, NEW new, writer' = [writer EXCEPT ![w] = new],
             writer[w].pc # "write", cleanup \subseteq cleanup',
             UNCHANGED <<record, tokens, spoilt>>
      PROVE  TokensAccounted'
  <2>1. \A u \in Writers : u # w => writer'[u] = writer[u]
        BY <1>1 DEF TypeOK
  <2> QED
      BY <1>1, <2>1 DEF TokensAccounted
<1>2. ASSUME NEW w \in Writers,
             \/ \E d \in Docs, text \in Texts : Add(w, d, text)
             \/ \E d \in Docs : Remove(w, d)
      PROVE  TokensAccounted'
      BY <1>1, <1>2 DEF Add, Remove
<1>3. ASSUME NEW w \in Writers, QueueCleanup(w) PROVE TokensAccounted'
      BY <1>1, <1>3 DEF QueueCleanup
<1>4. ASSUME NEW w \in Writers, NEW word \in Words, WriteToken(w, word) PROVE TokensAccounted'
  <2>1. /\ writer' = [writer EXCEPT ![w] = [writer[w] EXCEPT !.todo = @ \ {word}]]
        /\ tokens' = tokens \cup {<<word, writer[w].doc, writer[w].rev>>}
        /\ UNCHANGED <<record, cleanup, spoilt>>
        /\ writer[w].pc = "write" /\ word \in writer[w].text
        BY <1>4 DEF WriteToken, WordsWritten
  <2>2. \A u \in Writers : /\ writer'[u].pc = writer[u].pc /\ writer'[u].doc = writer[u].doc
                           /\ writer'[u].rev = writer[u].rev /\ writer'[u].text = writer[u].text
        BY <1>0, <2>1 DEF TypeOK, WriterType
  <2> QED
      BY <2>1, <2>2 DEF TokensAccounted
<1>5. ASSUME NEW w \in Writers, CommitAdd(w) \/ DeleteRecord(w) \/ WriterFails(w),
             NEW word \in Words, NEW d \in Docs \ spoilt', NEW r \in Revisions,
             <<word, d, r>> \in tokens, <<d, r>> \notin cleanup,
             d # writer[w].doc
      PROVE  \/ record'[d].rev = r /\ word \in record'[d].text
             \/ \E u \in Writers : At(u, "write")' /\ writer'[u].doc = d /\ writer'[u].rev = r
                                   /\ word \in writer'[u].text
  <2>1. record'[d] = record[d] /\ d \notin spoilt
        BY <1>5 DEF CommitAdd, DeleteRecord, WriterFails, TypeOK
  <2>2. writer' = [writer EXCEPT ![w] = Idle]
        BY <1>5 DEF CommitAdd, DeleteRecord, WriterFails
  <2>3. \A u \in Writers : u # w => writer'[u] = writer[u]
        BY <2>2 DEF TypeOK
  <2> QED
      BY <1>5, <2>1, <2>3 DEF TokensAccounted
<1>6. ASSUME NEW w \in Writers, writer[w].pc \in {"write", "remove"},
             NEW word \in Words, NEW r \in Revisions,
             r = writer[w].read, <<word, writer[w].doc, r>> \in tokens
      PROVE  <<writer[w].doc, r>> \in cleanup
      BY <1>6 DEF OldDiscarded, OldVersion, Revisions
<1>7. ASSUME NEW w \in Writers, CommitAdd(w) PROVE TokensAccounted'
  <2>1. /\ UNCHANGED <<tokens, cleanup>> /\ writer[w].pc = "write"
        /\ writer' = [writer EXCEPT ![w] = Idle] /\ writer[w].doc \in Docs
        BY <1>0, <1>7 DEF CommitAdd, WriterType
  <2>2. ASSUME NEW word \in Words, NEW r \in Revisions, writer[w].doc \notin spoilt',
               <<word, writer[w].doc, r>> \in tokens, <<writer[w].doc, r>> \notin cleanup
        PROVE  \/ record'[writer[w].doc].rev = r /\ word \in record'[writer[w].doc].text
               \/ \E u \in Writers : At(u, "write")' /\ writer'[u].doc = writer[w].doc
                                     /\ writer'[u].rev = r /\ word \in writer'[u].text
    <3>1. /\ record'[writer[w].doc] = [text |-> writer[w].text, rev |-> writer[w].rev]
          /\ record[writer[w].doc].rev = writer[w].read /\ writer[w].doc \notin spoilt
          BY <1>7, <2>1, <2>2 DEF CommitAdd, TypeOK
    <3>2. \A u \in Writers : u # w => writer'[u] = writer[u]
          BY <2>1 DEF TypeOK
    <3>3. record[writer[w].doc].rev # r
          BY <1>6, <2>1, <2>2, <3>1
    <3> QED
        BY <2>1, <2>2, <3>1, <3>2, <3>3 DEF TokensAccounted
  <2> QED
      BY <1>5, <1>7, <2>1, <2>2 DEF TokensAccounted
<1>8. ASSUME NEW w \in Writers, DeleteRecord(w) PROVE TokensAccounted'
  <2>1. /\ UNCHANGED <<tokens, cleanup>> /\ writer[w].pc = "remove"
        /\ writer' = [writer EXCEPT ![w] = Idle] /\ writer[w].doc \in Docs
        BY <1>0, <1>8 DEF DeleteRecord, WriterType
  <2>2. ASSUME NEW word \in Words, NEW r \in Revisions, writer[w].doc \notin spoilt',
               <<word, writer[w].doc, r>> \in tokens, <<writer[w].doc, r>> \notin cleanup
        PROVE  \E u \in Writers : At(u, "write")' /\ writer'[u].doc = writer[w].doc
                                  /\ writer'[u].rev = r /\ word \in writer'[u].text
    <3>1. record[writer[w].doc].rev \in {0, writer[w].read} /\ writer[w].doc \notin spoilt
          BY <1>8, <2>2 DEF DeleteRecord
    <3>2. \A u \in Writers : u # w => writer'[u] = writer[u]
          BY <2>1 DEF TypeOK
    <3>3. record[writer[w].doc].rev # r
          BY <1>6, <2>1, <2>2, <3>1 DEF Revisions
    <3> QED
        BY <2>1, <2>2, <3>1, <3>2, <3>3 DEF TokensAccounted
  <2> QED
      BY <1>5, <1>8, <2>1, <2>2 DEF TokensAccounted
<1>9. ASSUME NEW w \in Writers, WriterFails(w) PROVE TokensAccounted'
      BY <1>5, <1>9 DEF WriterFails, TokensAccounted
<1>10. ASSUME NEW v \in Versions, Clean(v) PROVE TokensAccounted'
  <2>1. tokens' \subseteq tokens /\ UNCHANGED <<record, writer, spoilt>>
        BY <1>10, CleanTokens DEF Clean, DestroyToken, FinishCleanup
  <2>2. CASE DestroyToken(v)
        BY <2>1, <2>2 DEF DestroyToken, TokensAccounted
  <2>3. CASE FinishCleanup(v)
    <3>1. ASSUME NEW word \in Words, NEW d \in Docs, NEW r \in Revisions,
                 <<word, d, r>> \in tokens
          PROVE  <<d, r>> # v
      <4>1. <<d, r>> = v => <<word, d, r>> \in Indexed(v)
            BY <3>1 DEF Indexed
      <4> QED
          BY <2>3, <4>1 DEF FinishCleanup
    <3> QED
        BY <2>1, <2>3, <3>1 DEF FinishCleanup, TokensAccounted
  <2> QED
      BY <1>10, <2>2, <2>3 DEF Clean
<1>11. CASE UNCHANGED vars
      BY <1>11 DEF vars, TokensAccounted
<1> QED
    BY <1>2, <1>3, <1>4, <1>7, <1>8, <1>9, <1>10, <1>11 DEF Next, Write

\* Every step leaves documents without a record without a text.
LEMMA NextBlank ==
  ASSUME TypeOK, VersionsInv, BlankInv, [Next]_vars PROVE BlankInv'
<1> SUFFICES ASSUME NEW d \in Docs, record'[d].rev = 0 PROVE record'[d].text = {}
    BY DEF BlankInv
<1>1. CASE record'[d] = record[d]
      BY <1>1 DEF BlankInv
<1>2. ASSUME NEW w \in Writers, CommitAdd(w), record' # record PROVE record'[d] = record[d]
  <2>1. Adding(w)
        BY <1>2, WritingIsAdding DEF CommitAdd
  <2>2. record' = [record EXCEPT ![writer[w].doc] =
                     [text |-> writer[w].text, rev |-> writer[w].rev]]
        BY <1>2 DEF CommitAdd
  <2> QED
      BY <2>1, <2>2 DEF Adding, TypeOK
<1>3. ASSUME NEW w \in Writers, DeleteRecord(w)
      PROVE  record'[d] = record[d] \/ record'[d].text = {}
      BY <1>3 DEF DeleteRecord, NoRecord, TypeOK
<1>4. CASE record' = record
      BY <1>1, <1>4
<1> QED
    BY <1>1, <1>2, <1>3, <1>4 DEF Next, Write, Add, Remove, QueueCleanup, WriteToken, WriterFails,
       Clean, DestroyToken, FinishCleanup, vars
-----------------------------------------------------------------------------
\* The parts of the invariant hold together, whatever races (index.py:25-69).
THEOREM IInvHolds == Spec => []IInv
<1>1. ASSUME IInv, [Next]_vars PROVE IInv'
  <2>1. /\ TypeOK /\ VersionsInv /\ WordsWritten /\ StillIndexed /\ OldDiscarded
        /\ TokensAccounted /\ BlankInv
        BY <1>1 DEF IInv
  <2>2. TypeOK'
        BY <1>1, <2>1, NextTypeOK
  <2>3. VersionsInv' /\ WordsWritten'
        BY <1>1, <2>1, <2>2, NextVersions, NextWords
  <2>4. StillIndexed' /\ OldDiscarded'
        BY <1>1, <2>1, NextIndexed, NextDiscarded
  <2>5. TokensAccounted' /\ BlankInv'
        BY <1>1, <2>1, NextAccounted, NextBlank
  <2> QED
      BY <2>2, <2>3, <2>4, <2>5 DEF IInv
<1> QED
    BY InitIInv, <1>1, PTL DEF Spec

\* Without failures a document at rest is found by each of its words, however
\* updates and removals have raced for it (index.py:34-46, 60-69).
THEOREM FoundByItsWords == Spec => []Findable
<1>1. ASSUME IInv PROVE Findable
  <2> SUFFICES ASSUME failures = 0, NEW d \in Docs, AtRest(d), NEW word \in record[d].text
               PROVE  d \in Search(word)
      BY <1>1 DEF IInv, Findable
  <2>1. Exists(d)
        BY <1>1 DEF IInv, BlankInv, Exists
  <2>2. <<word, d, record[d].rev>> \in tokens
        BY <1>1, <2>1 DEF IInv, StillIndexed, IndexedOrReplaced, Replacing, AtRest, At
  <2>3. record[d].rev \in Revisions
        BY <1>1, <2>1 DEF IInv, TypeOK, Exists, Revisions
  <2> QED
      BY <2>1, <2>2, <2>3 DEF Search
<1> QED
    BY IInvHolds, <1>1, PTL

\* Once its deletions have run an unspoilt document at rest is found by no other
\* word (index.py:34-40, query.py:292-312).
THEOREM NotFoundOtherwise == Spec => []FoundOnlyByItsWords
<1>1. ASSUME IInv PROVE FoundOnlyByItsWords
  <2> SUFFICES ASSUME NEW d \in Docs \ spoilt, AtRest(d), \A v \in cleanup : v[1] # d,
                      NEW word \in Words, d \in Search(word)
               PROVE  word \in record[d].text
      BY DEF FoundOnlyByItsWords
  <2>1. PICK r \in Revisions : <<word, d, r>> \in tokens
        BY DEF Search
  <2>2. <<d, r>> \notin cleanup
        OBVIOUS
  <2> QED
      BY <1>1, <2>1, <2>2 DEF IInv, TokensAccounted, AtRest, At
<1> QED
    BY IInvHolds, <1>1, PTL
=============================================================================
