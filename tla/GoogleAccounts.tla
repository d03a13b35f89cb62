--------------------------- MODULE GoogleAccounts ---------------------------
(***************************************************************************)
(* How the two backends of contrib/googleauth find, link and create the    *)
(* account of a person.  IAPBackend knows a person by the id that IAP puts *)
(* into the request, OAuthBackend by the pk of the OAuthUserSession.  Each *)
(* looks for an account with that id, then for one with the person's       *)
(* address, which it links; else it creates one - in a transaction, beside *)
(* the transactions of other requests.                                     *)
(*                                                                         *)
(* A Google id is the person itself.  Addresses differ in more than case.  *)
(* A transaction fails if the account it has read has been written since,  *)
(* or if its write repeats a unique field of another account.              *)
(***************************************************************************)
EXTENDS Naturals, FiniteSets

CONSTANTS
  People, None, \* None: an id that is not set
  Accounts,     \* primary keys
  Addresses,
  LocalPart,    \* the part of each address before the "@"
  FirstAddress, \* everybody's address at first
  MaxMoves,     \* bound on the changes of addresses
  Digits,       \* bound on the numbers appended to user names
  Requests      \* requests that authenticate at the same time

ASSUME PeopleAssumption ==
  IsFiniteSet(People) /\ People # {} /\ None \notin People \cup Accounts
ASSUME AddressAssumption == FirstAddress \in [People -> Addresses]
ASSUME MovesAssumption == MaxMoves \in Nat /\ Digits \in Nat

VARIABLES
  account,    \* the stored users; Absent where there is none
  address,    \* the address of each person, in Google's hands
  held,       \* observer: who has ever had each address
  request,    \* what each request is doing in authenticate()
  conflicted  \* requests whose account has been written since they read it

accountVars == <<account, address, held, request, conflicted>>

Absent == [iap |-> None, oauth |-> None, email |-> None, username |-> None]
Stored == {a \in Accounts : account[a] # Absent}
IdField(kind) == IF kind = "iap" THEN "iap" ELSE "oauth"

\* pc: "lookup", about to look for the account; "commit", the write is made and
\* the transaction about to end.  target: the account it has read, if any.
Idle == [pc |-> "idle", kind |-> "iap", person |-> CHOOSE p \in People : TRUE,
         email |-> None, target |-> None, write |-> Absent]

AccountsInit ==
  /\ account = [a \in Accounts |-> Absent]
  /\ address = FirstAddress
  /\ held = [e \in Addresses |-> {p \in People : FirstAddress[p] = e}]
  /\ request = [r \in Requests |-> Idle]
  /\ conflicted = {}
-----------------------------------------------------------------------------
ById(kind, p) == {a \in Stored : account[a][kind] = p}
ByEmail(e) == {a \in Stored : account[a].email = e}

\* IAPBackend: by id, else by address unless somebody else's id is there.
IapMatch(p, e) ==
  IF ById("iap", p) # {} THEN ById("iap", p)
                         ELSE {a \in ByEmail(e) : account[a].iap = None}

\* OAuthBackend: by id, else by address.
OAuthMatch(p, e) == IF ById("oauth", p) # {} THEN ById("oauth", p) ELSE ByEmail(e)

Match(kind, p, e) == IF kind = "iap" THEN IapMatch(p, e) ELSE OAuthMatch(p, e)

\* OAuthBackend asserts that what it found by address is nobody else's.
Refused(kind, p, e) ==
  /\ kind = "oauth"
  /\ \E a \in OAuthMatch(p, e) : account[a].oauth \notin {None, p}

\* What is written to the account found.  OAuthBackend updates the address only
\* of an account that it has linked before.
Linked(kind, u, p, e) ==
  IF kind = "iap" THEN [u EXCEPT !.iap = p, !.email = e]
  ELSE IF u.oauth = None THEN [u EXCEPT !.oauth = p]
                         ELSE [u EXCEPT !.email = e]

Usernames == {account[a].username : a \in Stored}
\* _generate_unused_username.  The test of the drawn name compares it with a
\* bound method (username.lower without the call), so that any draw passes.
UnusedUsernames(ideal) ==
  IF <<ideal, 0>> \notin Usernames THEN {<<ideal, 0>>} ELSE {ideal} \X (1..Digits)

\* The account created for somebody unknown.
Created(kind, p, e, name) ==
  [iap |-> IF kind = "iap" THEN p ELSE None, oauth |-> IF kind = "oauth" THEN p ELSE None,
   email |-> e, username |-> name]

\* Mutated form of Repeats: only the ids are unique.
RepeatsId(a, u) ==
  \E b \in Stored \ {a}, kind \in {"iap", "oauth"} :
    u[kind] # None /\ account[b][kind] = u[kind]
\* Does storing u as account a repeat a field that the model declares unique?
Repeats(a, u) ==
  \E b \in Stored \ {a} :
    \/ u.iap # None /\ account[b].iap = u.iap
    \/ u.oauth # None /\ account[b].oauth = u.oauth
    \/ account[b].email = u.email
    \/ account[b].username = u.username
-----------------------------------------------------------------------------
\* A request that has been identified enters authenticate(), with the address
\* of this moment.
Begin(r, kind, p) ==
  /\ request[r].pc = "idle"
  /\ request' = [request EXCEPT ![r] = [Idle EXCEPT !.pc = "lookup", !.kind = kind,
                                          !.person = p, !.email = address[p]]]
  /\ UNCHANGED <<account, address, held, conflicted>>

Looking(r) == request[r].pc = "lookup"
Found(r) == Match(request[r].kind, request[r].person, request[r].email)
Rejected(r) == Refused(request[r].kind, request[r].person, request[r].email)

\* An account is found, and linked or updated.
FindAccount(r) ==
  /\ Looking(r) /\ ~Rejected(r)
  /\ \E a \in Found(r) :
       request' = [request EXCEPT ![r].pc = "commit", ![r].target = a,
                     ![r].write = Linked(request[r].kind, account[a], request[r].person, request[r].email)]
  /\ UNCHANGED <<account, address, held, conflicted>>

\* Primary keys that no account has, or is about to have.
NewKeys == Accounts \ (Stored \cup {request[q].target : q \in Requests})

\* None is found, and one is created.
CreateAccount(r) ==
  /\ Looking(r) /\ Found(r) = {}
  /\ NewKeys # {}
  /\ \E name \in UnusedUsernames(LocalPart[request[r].email]) :
       request' = [request EXCEPT ![r].pc = "commit", ![r].target = CHOOSE a \in NewKeys : TRUE,
                     ![r].write = Created(request[r].kind, request[r].person, request[r].email, name)]
  /\ UNCHANGED <<account, address, held, conflicted>>

\* The assertion fails.
Reject(r) ==
  /\ Looking(r) /\ Rejected(r)
  /\ request' = [request EXCEPT ![r] = Idle]
  /\ UNCHANGED <<account, address, held, conflicted>>

Touching(a, r) ==
  {q \in Requests \ {r} : request[q].pc = "commit" /\ request[q].target = a}
Store(r) ==
  LET q == request[r]
  IN /\ account' = [account EXCEPT ![q.target] = q.write]
     /\ conflicted' = (conflicted \cup Touching(q.target, r)) \ {r}
     /\ request' = [request EXCEPT ![r] = Idle]
     /\ UNCHANGED <<address, held>>

\* Mutated form of Commit: without a transaction.
CommitAnyway(r) ==
  /\ request[r].pc = "commit"
  /\ ~Repeats(request[r].target, request[r].write)
  /\ Store(r)
\* save(), and the end of the transaction.
Commit(r) ==
  /\ request[r].pc = "commit" /\ r \notin conflicted
  /\ ~Repeats(request[r].target, request[r].write)
  /\ Store(r)

\* The transaction conflicts, repeats a unique field, or fails otherwise; the
\* request is answered with an error.
CommitFails(r) ==
  /\ request[r].pc = "commit"
  /\ request' = [request EXCEPT ![r] = Idle]
  /\ conflicted' = conflicted \ {r}
  /\ UNCHANGED <<account, address, held>>

Moves == Cardinality({m \in Addresses \X People : m[2] \in held[m[1]]})
           - Cardinality(People)
\* Somebody gets another address, perhaps one that has been another's.
Move(p, e) ==
  /\ Moves < MaxMoves
  /\ p \notin held[e] /\ \A q \in People : address[q] # e
  /\ address' = [address EXCEPT ![p] = e]
  /\ held' = [held EXCEPT ![e] = @ \cup {p}]
  /\ UNCHANGED <<account, request, conflicted>>

Authenticate(r) == \/ FindAccount(r) \/ CreateAccount(r) \/ Reject(r)
                   \/ Commit(r) \/ CommitFails(r)

AccountsNext ==
  \/ \E r \in Requests, p \in People : Begin(r, "iap", p) \/ Begin(r, "oauth", p)
  \/ \E r \in Requests : Authenticate(r)
  \/ \E p \in People, e \in Addresses : Move(p, e)

AccountsSpec == AccountsInit /\ [][AccountsNext]_accountVars
-----------------------------------------------------------------------------
\* Whatever requests race, fail or find, an id that an account has been given
\* stays with it: nobody loses the way to an account (iap.py:97-152,
\* oauth2.py:44-77).
LinksArePermanent ==
  [][\A a \in Accounts, kind \in {"iap", "oauth"} :
       account[a][kind] # None => account'[a][kind] = account[a][kind]]_accountVars

\* An account linked by IAP is found by IAP: two requests of one person that
\* come first at the same time, by either backend, leave one account
\* (iap.py:95-153, oauth2.py:43-87).
OneAccountEach ==
  Moves = 0 =>
    \A p \in People :
      Cardinality({a \in Stored : p \in {account[a].iap, account[a].oauth}
                                  \/ account[a].email = address[p]}) <= 1
=============================================================================
