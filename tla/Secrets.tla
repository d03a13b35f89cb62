------------------------------- MODULE Secrets -------------------------------
(***************************************************************************)
(* contrib/secrets: processes that start at the same time each ask one     *)
(* backend for the application's secrets, which the first may have to      *)
(* create.  DatastoreBackend reads and creates in a transaction;           *)
(* FilesystemBackend tests, truncates and writes a file; GSMBackend reads  *)
(* the latest version and adds one.                                        *)
(*                                                                         *)
(* The secrets a process draws are named after the process.                *)
(***************************************************************************)
CONSTANTS
  Processes,
  Creators  \* those that pass create_if_missing

\* Processes are named by their secrets, which are none of the values below.
ASSUME SecretsAssumption ==
  Creators \subseteq Processes /\ Processes \cap {"missing", "blank", "error"} = {}

VARIABLES
  backend,
  secret,   \* the entity, the content of the file or the latest version
  getting,  \* where each process is in get()
  answer,   \* what get() has returned
  raced,    \* observer: a get() has begun while another was under way
  died      \* observer: a process has died in get()

secretsVars == <<backend, secret, getting, answer, raced, died>>

Missing == "missing"  \* nothing is stored
Blank == "blank"      \* a file without content
Error == "error"      \* get() has raised
InGet == {p \in Processes : getting[p] \notin {"new", "done"}}

SecretsInit ==
  /\ backend \in {"datastore", "filesystem", "gsm"}
  /\ secret = Missing
  /\ getting = [p \in Processes |-> "new"]
  /\ answer = [p \in Processes |-> Missing]
  /\ raced = FALSE /\ died = FALSE

GoTo(p, pc) == getting' = [getting EXCEPT ![p] = pc]
Done(p, a) == GoTo(p, "done") /\ answer' = [answer EXCEPT ![p] = a]

\* The first look at what is stored; if there is nothing, it is created or get()
\* raises MissingSecretError.
Look(p, kind, found, create) ==
  /\ backend = kind /\ getting[p] = "new"
  /\ \/ secret # Missing /\ found
     \/ secret = Missing /\ p \in Creators /\ GoTo(p, create) /\ UNCHANGED answer
     \/ secret = Missing /\ p \notin Creators /\ Done(p, Error)
  /\ raced' = (raced \/ InGet # {})
  /\ UNCHANGED <<backend, secret, died>>

ReadEntity(p) == Look(p, "datastore", Done(p, secret), "put")
TestFile(p) == Look(p, "filesystem", GoTo(p, "read") /\ UNCHANGED answer, "create")
AccessVersion(p) == Look(p, "gsm", Done(p, secret), "add")

\* Mutated form of CommitEntity: outside the transaction.
CommitEntityAnyway(p) ==
  /\ getting[p] = "put"
  /\ secret' = p /\ Done(p, p)
  /\ UNCHANGED <<backend, raced, died>>
\* put(), and the end of the transaction, which fails if the entity has been
\* created since it was read.
CommitEntity(p) ==
  /\ getting[p] = "put"
  /\ IF secret = Missing THEN secret' = p /\ Done(p, p)
                         ELSE UNCHANGED secret /\ Done(p, Error)
  /\ UNCHANGED <<backend, raced, died>>

\* open(filename, "w"), and the content when the file is closed.
CreateFile(p) ==
  /\ getting[p] = "create" /\ GoTo(p, "write")
  /\ secret' = Blank
  /\ UNCHANGED <<backend, answer, raced, died>>
WriteFile(p) ==
  /\ getting[p] = "write" /\ Done(p, p)
  /\ secret' = p
  /\ UNCHANGED <<backend, raced, died>>

\* json.loads() of a file without content raises.
ReadFile(p) ==
  /\ getting[p] = "read" /\ Done(p, IF secret = Blank THEN Error ELSE secret)
  /\ UNCHANGED <<backend, secret, raced, died>>

\* create_secret(), where AlreadyExists is no error, and add_secret_version():
\* the new version is the latest, and its author's own secrets are returned.
AddVersion(p) ==
  /\ getting[p] = "add" /\ Done(p, p)
  /\ secret' = p
  /\ UNCHANGED <<backend, raced, died>>

\* The process is killed.
Die(p) ==
  /\ p \in InGet
  /\ Done(p, Missing)
  /\ died' = TRUE
  /\ UNCHANGED <<backend, secret, raced>>

Get(p) == \/ ReadEntity(p) \/ CommitEntity(p)
          \/ TestFile(p) \/ CreateFile(p) \/ WriteFile(p) \/ ReadFile(p)
          \/ AccessVersion(p) \/ AddVersion(p)
SecretsNext == \E p \in Processes : Get(p) \/ Die(p)

SecretsSpec == SecretsInit /\ [][SecretsNext]_secretsVars
-----------------------------------------------------------------------------
\* All processes get the same secrets, those that are stored, if their calls do
\* not overlap; from the Datastore even if they do.  A process that may create
\* the secrets gets some, unless it has raced or a process has died halfway
\* (datastore.py:36-52, filesystem.py:27-44, gsm.py:55-112).
SecretsAgree ==
  /\ backend = "datastore" \/ ~raced =>
       \A p \in Processes : answer[p] \notin {Missing, Error} => answer[p] = secret
  /\ ~raced /\ ~died => \A p \in Creators : answer[p] # Error
=============================================================================
