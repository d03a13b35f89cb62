---------------------------- MODULE ModelDocument ----------------------------
(***************************************************************************)
(* Searchable models (contrib/search/model_document.py): register() wraps  *)
(* save() and delete() of a model so that the index has one document for   *)
(* each instance.  save() writes the row, then removes all documents of    *)
(* the instance and adds another; delete() deletes the row and removes     *)
(* them.  No transaction holds these steps together.                       *)
(*                                                                         *)
(* The module follows one instance of each of several models, all with the *)
(* same pk, which several requests save and delete.  Each model has an     *)
(* index of its own, but the documents to remove are asked for by the pk   *)
(* alone, so that the instances remove each other's documents.  Index.add  *)
(* and Index.remove are single steps, as SearchIndex justifies: each       *)
(* document is added under an id of its own and is never updated.          *)
(***************************************************************************)
EXTENDS Naturals

CONSTANTS
  Models,        \* searchable models, each with an instance of that pk
  Savers,        \* requests that save and delete the instances
  Contents,      \* what their fields may say
  Nothing,       \* no row
  MaxCalls,      \* bound on the calls of save() and delete()
  MaxInterrupted \* bound on the calls that end halfway

ASSUME ContentsAssumption ==
  Nothing \notin Contents /\ MaxCalls \in Nat /\ MaxInterrupted \in Nat

VARIABLES
  stored,      \* the row of each model, as the content of its fields
  documents,   \* the documents with that instance_id, in the models' indexes
  saving,      \* what each request is doing
  calls,
  interrupted, \* how many calls have ended halfway
  overlap      \* observer of each model: since the last call for it that began
               \* alone, has anything come between?  "no"; "saves" of it, which
               \* overlapped; calls for "others", after it; or "more"

documentVars == <<stored, documents, saving, calls, interrupted, overlap>>

Resting == [at |-> "idle", of |-> Nothing, content |-> Nothing, id |-> 0, found |-> {}]
Underway == {w \in Savers : saving[w].at # "idle"}

ModelInit ==
  /\ stored = [m \in Models |-> Nothing] /\ documents = {}
  /\ saving = [w \in Savers |-> Resting]
  /\ calls = 0 /\ interrupted = 0 /\ overlap = [m \in Models |-> "no"]

Becomes(w, r) == saving' = [saving EXCEPT ![w] = r]

\* What a new call for m makes of the observer, of m itself and of another model n.
OwnOverlap(m) ==
  IF Underway = {} THEN "no"
  ELSE IF /\ overlap[m] \in {"no", "saves"}
          /\ \A v \in Savers : saving'[v].at # "idle" =>
               saving'[v].of = m /\ saving'[v].content # Nothing
       THEN "saves" ELSE "more"
OtherOverlap(n) ==
  IF overlap[n] \in {"no", "others"} /\ \A v \in Underway : saving[v].of # n
  THEN "others" ELSE "more"

\* The original save() or delete() of an instance of m writes its row; content is
\* Nothing for a deletion.
Call(w, m, content) ==
  /\ saving[w] = Resting /\ calls < MaxCalls
  /\ calls' = calls + 1
  /\ stored' = [stored EXCEPT ![m] = content]
  /\ Becomes(w, [at |-> "list", of |-> m, content |-> content, id |-> calls', found |-> {}])
  /\ overlap' = [n \in Models |-> IF n = m THEN OwnOverlap(m) ELSE OtherOverlap(n)]
  /\ UNCHANGED <<documents, interrupted>>

\* Mutated form of ListDocuments: delete() asks for the pk after the row has gone,
\* when it is None.
ListAfterDeletion(w) ==
  /\ saving[w].at = "list"
  /\ Becomes(w, [saving[w] EXCEPT !.at = "remove",
                   !.found = IF saving[w].content = Nothing THEN {} ELSE documents])
  /\ UNCHANGED <<stored, documents, calls, interrupted, overlap>>
\* The records whose data has the instance's pk are listed, of whatever model.
ListDocuments(w) ==
  /\ saving[w].at = "list"
  /\ Becomes(w, [saving[w] EXCEPT !.at = "remove", !.found = documents])
  /\ UNCHANGED <<stored, documents, calls, interrupted, overlap>>

\* Index.remove() of one of those listed, which may be gone already.
RemoveDocument(w, doc) ==
  /\ saving[w].at = "remove" /\ doc \in saving[w].found
  /\ documents' = documents \ {doc}
  /\ Becomes(w, [saving[w] EXCEPT !.found = @ \ {doc}])
  /\ UNCHANGED <<stored, calls, interrupted, overlap>>

\* None is left: delete() returns, save() adds the fields of its own object
\* under a new id, the number of the call.
EndRemoval(w) ==
  /\ saving[w].at = "remove" /\ saving[w].found = {}
  /\ Becomes(w, IF saving[w].content = Nothing THEN Resting ELSE [saving[w] EXCEPT !.at = "add"])
  /\ UNCHANGED <<stored, documents, calls, interrupted, overlap>>

AddDocument(w) ==
  /\ saving[w].at = "add"
  /\ documents' = documents \cup
       {[id |-> saving[w].id, of |-> saving[w].of, content |-> saving[w].content]}
  /\ Becomes(w, Resting)
  /\ UNCHANGED <<stored, calls, interrupted, overlap>>

\* The request is killed, or the index raises an exception.
Interrupt(w) ==
  /\ saving[w].at # "idle" /\ interrupted < MaxInterrupted
  /\ interrupted' = interrupted + 1
  /\ Becomes(w, Resting)
  /\ overlap' = [overlap EXCEPT ![saving[w].of] = "more"]
  /\ UNCHANGED <<stored, documents, calls>>

ModelNext ==
  \E w \in Savers :
    \/ \E m \in Models, content \in Contents \cup {Nothing} : Call(w, m, content)
    \/ ListDocuments(w) \/ (\E doc \in saving[w].found : RemoveDocument(w, doc))
    \/ EndRemoval(w) \/ AddDocument(w) \/ Interrupt(w)
ModelSpec == ModelInit /\ [][ModelNext]_documentVars
-----------------------------------------------------------------------------
Documents == [id : 1..MaxCalls, of : Models, content : Contents]
TypeOfSaver ==
  [at : {"idle", "list", "remove", "add"}, of : Models \cup {Nothing},
   content : Contents \cup {Nothing}, id : 0..MaxCalls, found : SUBSET Documents]
ModelTypeOK ==
  /\ stored \in [Models -> Contents \cup {Nothing}] /\ documents \subseteq Documents
  /\ saving \in [Savers -> TypeOfSaver]
  /\ calls \in 0..MaxCalls /\ interrupted \in 0..MaxInterrupted
  /\ overlap \in [Models -> {"no", "saves", "others", "more"}]

DocumentsOf(m) == {doc \in documents : doc.of = m}

\* objects.search() of model m: is its stored instance among the results of a
\* search of its index that matches documents with this content?
Search(m, content) ==
  stored[m] # Nothing /\ \E doc \in DocumentsOf(m) : doc.content = content

\* When nobody is saving, an instance is found by what it says and by nothing
\* else, and there is no document without a row - if the last call for it that
\* began alone also ended alone and no other followed it, whatever calls before it
\* have left behind.  If saves of it have overlapped, it still has a document,
\* though perhaps of what the other save wrote.  If calls for other models'
\* instances followed, they may have removed its document, but it is not found by
\* what it does not say (model_document.py:175-220).
SearchFindsStored ==
  ModelTypeOK /\ (Underway = {} => \A m \in Models :
    /\ overlap[m] = "no" => \A content \in Contents : stored[m] = content => Search(m, content)
    /\ overlap[m] \in {"no", "others"} =>
         /\ \A content \in Contents : Search(m, content) => stored[m] = content
         /\ stored[m] = Nothing => DocumentsOf(m) = {}
    /\ overlap[m] = "saves" /\ stored[m] # Nothing => DocumentsOf(m) # {})
=============================================================================
