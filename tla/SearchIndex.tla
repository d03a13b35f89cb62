----------------------------- MODULE SearchIndex -----------------------------
(***************************************************************************)
(* The full text index of contrib/search: Index.add and Index.remove of    *)
(* index.py against each other, against the background deletion of old     *)
(* tokens and against searches (query.py).                                 *)
(*                                                                         *)
(* A document is a DocumentRecord, with the text that was indexed and a    *)
(* revision, and one TokenFieldIndex entity for each word, keyed by word,  *)
(* document and revision.  add() runs in a transaction, but writes each    *)
(* token in an independent transaction of its own and queues the deletion  *)
(* of the previous revision's tokens at once; only the record waits for    *)
(* the commit.  remove() uses no transaction at all.                       *)
(*                                                                         *)
(* The queued deletion is an iteration as DeferIteration describes it: it  *)
(* deletes, one by one, the tokens of one document and one revision.       *)
(* A text is the set of its indexed words.                                 *)
(***************************************************************************)
EXTENDS Naturals

CONSTANTS
  Writers,       \* processes that add, update and remove documents
  Docs, Words,
  Texts,         \* what documents may say
  MaxRevision,   \* bound on the revisions drawn by uuid4()
  MaxFailures    \* bound on writers that are killed or get a Datastore error

ASSUME TextsAssumption == Docs # {} /\ Texts \subseteq SUBSET Words /\ Texts # {}
ASSUME BoundsAssumption == MaxRevision \in Nat /\ MaxFailures \in Nat

Revisions == 1..MaxRevision
Versions == Docs \X Revisions

VARIABLES
  record,    \* the DocumentRecord of each document; rev 0: there is none
  tokens,    \* the TokenFieldIndex entities, as <<word, doc, rev>>
  cleanup,   \* queued deletions, as <<doc, rev>>
  drawn,     \* how many revisions have been drawn
  writer,    \* what each writer is doing
  failures,
  current,   \* observer: the versions that have been a committed record's
  spoilt     \* observer: documents of which an add has failed, or a version
             \* has been removed that its remover had not read

vars == <<record, tokens, cleanup, drawn, writer, failures, current, spoilt>>

NoRecord == [text |-> {}, rev |-> 0]
Exists(d) == record[d].rev # 0

\* pc: "queue", about to queue the deletion of the version it has read; "write",
\* writing tokens; "commit"; "remove", about to delete the record.
\* read: the revision it has read; rev: the one it has drawn; todo: words left.
Idle == [pc |-> "idle", doc |-> CHOOSE d \in Docs : TRUE, text |-> {},
         read |-> 0, rev |-> 0, todo |-> {}]

Init ==
  /\ record = [d \in Docs |-> NoRecord]
  /\ tokens = {} /\ cleanup = {} /\ drawn = 0
  /\ writer = [w \in Writers |-> Idle]
  /\ failures = 0 /\ current = {} /\ spoilt = {}

At(w, pc) == writer[w].pc = pc
Become(w, r) == writer' = [writer EXCEPT ![w] = r]
Adding(w) == writer[w].rev # 0

\* Index.add(): update_or_create() reads the record.  A new record comes with a
\* revision; for an old one reindex_document() draws the next.
Add(w, d, text) ==
  /\ At(w, "idle") /\ drawn < MaxRevision
  /\ drawn' = drawn + 1
  /\ Become(w, [pc |-> IF Exists(d) THEN "queue" ELSE "write", doc |-> d, text |-> text,
                read |-> record[d].rev, rev |-> drawn', todo |-> text])
  /\ UNCHANGED <<record, tokens, cleanup, failures, current, spoilt>>

\* Index.remove(): the record is read; without one there is nothing to remove.
Remove(w, d) ==
  /\ At(w, "idle") /\ Exists(d)
  /\ Become(w, [Idle EXCEPT !.pc = "queue", !.doc = d, !.read = record[d].rev])
  /\ UNCHANGED <<record, tokens, cleanup, drawn, failures, current, spoilt>>

\* Mutated form of OldVersion: document.revision is read after the bump.
NewVersion(w) == <<writer[w].doc, IF Adding(w) THEN writer[w].rev ELSE writer[w].read>>
\* The revision the record had when this writer read it.
OldVersion(w) == <<writer[w].doc, writer[w].read>>

\* Mutated form of QueueCleanup: remove() leaves the tokens to the record.
QueueForAddOnly(w) ==
  /\ At(w, "queue")
  /\ cleanup' = IF Adding(w) THEN cleanup \cup {OldVersion(w)} ELSE cleanup
  /\ Become(w, [writer[w] EXCEPT !.pc = IF Adding(w) THEN "write" ELSE "remove"])
  /\ UNCHANGED <<record, tokens, drawn, failures, current, spoilt>>
\* defer_iteration_with_finalize(), which does not wait for the transaction.
QueueCleanup(w) ==
  /\ At(w, "queue")
  /\ cleanup' = cleanup \cup {OldVersion(w)}
  /\ Become(w, [writer[w] EXCEPT !.pc = IF Adding(w) THEN "write" ELSE "remove"])
  /\ UNCHANGED <<record, tokens, drawn, failures, current, spoilt>>

\* index_document(): a token, committed by itself.
WriteToken(w, word) ==
  /\ At(w, "write") /\ word \in writer[w].todo
  /\ tokens' = tokens \cup {<<word, writer[w].doc, writer[w].rev>>}
  /\ Become(w, [writer[w] EXCEPT !.todo = @ \ {word}])
  /\ UNCHANGED <<record, cleanup, drawn, failures, current, spoilt>>

\* The transaction of add() ends: it commits if the record is as it was read.
CommitAdd(w) ==
  LET d == writer[w].doc IN
  /\ At(w, "write") /\ writer[w].todo = {}
  /\ Become(w, Idle)
  /\ \/ /\ record[d].rev = writer[w].read
        /\ record' = [record EXCEPT ![d] = [text |-> writer[w].text, rev |-> writer[w].rev]]
        /\ current' = current \cup {<<d, writer[w].rev>>}
        /\ UNCHANGED spoilt
     \/ /\ record[d].rev # writer[w].read
        /\ spoilt' = spoilt \cup {d}
        /\ UNCHANGED <<record, current>>
  /\ UNCHANGED <<tokens, cleanup, drawn, failures>>

\* unindex_document() deletes the record by key, whatever it has become.
DeleteRecord(w) ==
  LET d == writer[w].doc IN
  /\ At(w, "remove")
  /\ record' = [record EXCEPT ![d] = NoRecord]
  /\ spoilt' = IF record[d].rev \in {0, writer[w].read} THEN spoilt ELSE spoilt \cup {d}
  /\ Become(w, Idle)
  /\ UNCHANGED <<tokens, cleanup, drawn, failures, current>>

\* A writer is killed, or an exception leaves add() or remove().
WriterFails(w) ==
  /\ ~At(w, "idle") /\ failures < MaxFailures
  /\ failures' = failures + 1
  /\ spoilt' = spoilt \cup {writer[w].doc}
  /\ Become(w, Idle)
  /\ UNCHANGED <<record, tokens, cleanup, drawn, current>>

\* Mutated form of Indexed: the query names the record only.
IndexedAtAll(v) == {t \in tokens : t[2] = v[1]}
\* TokenFieldIndex.objects.filter(record_id=..., revision=...)
Indexed(v) == {t \in tokens : <<t[2], t[3]>> = v}

\* The queued deletion: _destroy_record on each token, then _finalize.
DestroyToken(v) ==
  /\ v \in cleanup
  /\ \E t \in Indexed(v) : tokens' = tokens \ {t}
  /\ UNCHANGED <<record, cleanup, drawn, writer, failures, current, spoilt>>

FinishCleanup(v) ==
  /\ v \in cleanup /\ Indexed(v) = {}
  /\ cleanup' = cleanup \ {v}
  /\ UNCHANGED <<record, tokens, drawn, writer, failures, current, spoilt>>

Write(w) == \/ QueueCleanup(w) \/ (\E word \in Words : WriteToken(w, word))
            \/ CommitAdd(w) \/ DeleteRecord(w)
Clean(v) == DestroyToken(v) \/ FinishCleanup(v)

Next ==
  \/ \E w \in Writers : \/ \E d \in Docs, text \in Texts : Add(w, d, text)
                        \/ \E d \in Docs : Remove(w, d)
                        \/ Write(w) \/ WriterFails(w)
  \/ \E v \in Versions : Clean(v)

Spec == Init /\ [][Next]_vars

\* Writers go on until they fail, and deferred iterations come to their end.
FairSpec == /\ Spec
            /\ \A w \in Writers : WF_vars(Write(w))
            /\ \A v \in Versions : WF_vars(Clean(v))

-----------------------------------------------------------------------------
\* build_document_queryset() for one word: documents with a token of any
\* revision, as far as they have a record.
Search(word) == {d \in Docs : Exists(d) /\ \E r \in Revisions : <<word, d, r>> \in tokens}

AtRest(d) == \A w \in Writers : ~At(w, "idle") => writer[w].doc # d

TypeOK ==
  /\ record \in [Docs -> [text : Texts \cup {{}}, rev : 0..MaxRevision]]
  /\ tokens \subseteq Words \X Docs \X Revisions
  /\ cleanup \subseteq Versions /\ current \subseteq Versions
  /\ drawn \in 0..MaxRevision /\ failures \in 0..MaxFailures
  /\ writer \in [Writers -> [pc : {"idle", "queue", "write", "remove"}, doc : Docs,
                             text : Texts \cup {{}}, read : 0..MaxRevision,
                             rev : 0..MaxRevision, todo : SUBSET Words]]
  /\ spoilt \subseteq Docs

\* As long as no writer is killed, a document that nobody is writing is found by
\* each of its words, however updates and removals have raced for it and
\* whatever deletions are still queued (index.py:34-46, 60-69).
Findable ==
  TypeOK /\ (failures = 0 =>
    \A d \in Docs : AtRest(d) => \A word \in record[d].text : d \in Search(word))

\* Once the deletions queued for a document have run, it is found by no other
\* word, unless an add has failed or a removal has overlapped an update
\* (index.py:34-40; a search does not look at revisions, query.py:292-312).
FoundOnlyByItsWords ==
  \A d \in Docs \ spoilt :
    AtRest(d) /\ (\A v \in cleanup : v[1] # d) =>
      \A word \in Words : d \in Search(word) => word \in record[d].text

\* "We don't cascade delete when a document is deleted, because we clear up in a
\* background task" (models.py:46-47): the tokens of a version that is no longer
\* the record's disappear, unless a removal overlapped an update.
ReplacedVersionsGoAway ==
  \A v \in Versions :
    (v \in current /\ record[v[1]].rev # v[2]) ~> (Indexed(v) = {} \/ v[1] \in spoilt)
=============================================================================
