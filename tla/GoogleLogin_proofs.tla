------------------------- MODULE GoogleLogin_proofs -------------------------
(***************************************************************************)
(* Proofs about GoogleAccounts and GoogleLogin, for any number of people,  *)
(* accounts, requests, tabs and scopes, and any addresses that change      *)
(* hands.  Of the accounts: a link to a Google id is never changed, and as *)
(* long as nobody has had a second address a person has one account.  Of   *)
(* the logins: a session belongs to the person its backend saw last, and a *)
(* dance ends where it began.                                              *)
(***************************************************************************)
EXTENDS GoogleLogin, FiniteSetTheorems, TLAPS

Ids == People \cup {None}
Emails == Addresses \cup {None}
Names == ({LocalPart[e] : e \in Addresses} \X Nat) \cup {None}
Users == [iap : Ids, oauth : Ids, email : Emails, username : Names]

RequestType ==
  [pc : {"idle", "lookup", "commit"}, kind : {"iap", "oauth"}, person : People,
   email : Emails, target : Accounts \cup {None}, write : Users]

TypeOK ==
  /\ account \in [Accounts -> Users]
  /\ address \in [People -> Addresses]
  /\ request \in [Requests -> RequestType]
  /\ \A r \in Requests : /\ request[r].pc = "lookup" => request[r].email \in Addresses
                         /\ request[r].pc = "commit" => request[r].target \in Accounts

\* u, written over v, changes no id that v has.
Keeps(v, u) == (v.iap # None => u.iap = v.iap) /\ (v.oauth # None => u.oauth = v.oauth)

\* What a request is about to write keeps the links its account has at that
\* moment, unless its transaction is doomed.
WritesKeepLinks ==
  \A r \in Requests \ conflicted :
    request[r].pc = "commit" => Keeps(account[request[r].target], request[r].write)

IInv == TypeOK /\ WritesKeepLinks

\* One step of a request, as a request of its own.
RequestStep(r) == Authenticate(r) \/ \E p \in People : Begin(r, "iap", p) \/ Begin(r, "oauth", p)
-----------------------------------------------------------------------------
\* The record of a user that does not exist, and of a request that does nothing.
LEMMA AbsentType == Absent \in Users /\ Idle \in RequestType
<1>1. Absent \in Users
      BY DEF Absent, Users, Ids, Emails, Names
<1>2. (CHOOSE p \in People : TRUE) \in People
      BY PeopleAssumption
<1> QED
    BY <1>1, <1>2 DEF Idle, RequestType, Emails

LEMMA InitIInv == AccountsInit => IInv
<1> SUFFICES ASSUME AccountsInit PROVE IInv
    OBVIOUS
<1>1. Idle.pc = "idle"
      BY DEF Idle
<1>2. TypeOK
      BY <1>1, AbsentType, AddressAssumption DEF AccountsInit, TypeOK
<1> QED
    BY <1>1, <1>2 DEF IInv, WritesKeepLinks, AccountsInit

\* What FindAccount writes keeps the ids of the account found: IAPBackend finds an
\* account with this id or with none (iap.py:97-115), OAuthBackend writes an id
\* only where there is none (oauth2.py:56-79).
LEMMA LinkedKeeps ==
  ASSUME TypeOK, NEW r \in Requests, Looking(r), NEW a \in Found(r)
  PROVE  LET u == Linked(request[r].kind, account[a], request[r].person, request[r].email)
         IN  a \in Accounts /\ u \in Users /\ Keeps(account[a], u)
<1> DEFINE q == request[r]
           u == Linked(q.kind, account[a], q.person, q.email)
<1>1. q \in RequestType /\ q.email \in Emails /\ q.person \in Ids
      BY DEF TypeOK, RequestType, Ids
<1>2. a \in Accounts
      BY DEF Found, Match, IapMatch, OAuthMatch, ById, ByEmail, Stored
<1>3. account[a] \in Users
      BY <1>2 DEF TypeOK
<1>4. CASE q.kind = "iap"
  <2>1. account[a].iap \in {q.person, None}
        BY <1>4 DEF Found, Match, IapMatch, ById, ByEmail
  <2>2. u = [account[a] EXCEPT !.iap = q.person, !.email = q.email]
        BY <1>4 DEF Linked
  <2> QED
      BY <1>1, <1>2, <1>3, <2>1, <2>2 DEF Users, Keeps
<1>5. CASE q.kind # "iap"
  <2>1. u = IF account[a].oauth = None THEN [account[a] EXCEPT !.oauth = q.person]
                                       ELSE [account[a] EXCEPT !.email = q.email]
        BY <1>5 DEF Linked
  <2> QED
      BY <1>1, <1>2, <1>3, <2>1 DEF Users, Keeps
<1> QED
    BY <1>4, <1>5

\* A created account is written where there was none.
LEMMA CreatedKeeps ==
  ASSUME TypeOK, NEW r \in Requests, Looking(r), NEW a \in NewKeys,
         NEW name \in UnusedUsernames(LocalPart[request[r].email])
  PROVE  LET u == Created(request[r].kind, request[r].person, request[r].email, name)
         IN  a \in Accounts /\ u \in Users /\ Keeps(account[a], u)
<1> DEFINE q == request[r]
           u == Created(q.kind, q.person, q.email, name)
<1>1. q.email \in Addresses /\ q.person \in Ids
      BY DEF TypeOK, RequestType, Ids, Looking
<1>2. name \in Names
  <2>1. LocalPart[q.email] \in {LocalPart[e] : e \in Addresses}
        BY <1>1
  <2> QED
      BY <2>1, MovesAssumption DEF UnusedUsernames, Names
<1>3. a \in Accounts /\ account[a] = Absent
      BY DEF NewKeys, Stored
<1>4. u \in Users
      BY <1>1, <1>2 DEF Created, Users, Ids, Emails
<1> QED
    BY <1>3, <1>4 DEF Keeps, Absent

\* A request that leaves the table as it is disturbs nobody.
LEMMA QuietStep ==
  ASSUME IInv, NEW r \in Requests, NEW new \in RequestType,
         account' = account, address' = address,
         request' = [request EXCEPT ![r] = new],
         conflicted \ {r} \subseteq conflicted',
         new.pc = "lookup" => new.email \in Addresses,
         new.pc = "commit" => /\ new.target \in Accounts
                              /\ Keeps(account[new.target], new.write)
  PROVE  IInv'
<1>1. TypeOK'
      BY DEF IInv, TypeOK
<1>2. ASSUME NEW s \in Requests \ conflicted', request'[s].pc = "commit"
      PROVE  Keeps(account'[request'[s].target], request'[s].write)
  <2>1. CASE s = r
        BY <1>2, <2>1 DEF IInv, TypeOK
  <2>2. CASE s # r
        BY <1>2, <2>2 DEF IInv, TypeOK, WritesKeepLinks
  <2> QED
      BY <2>1, <2>2
<1> QED
    BY <1>1, <1>2 DEF IInv, WritesKeepLinks

\* The write of a request dooms the others that have read the same account.
LEMMA CommitIInv == ASSUME IInv, NEW r \in Requests, Commit(r) PROVE IInv'
<1> DEFINE q == request[r]
<1>1. /\ q.pc = "commit" /\ q.target \in Accounts /\ q.write \in Users
      /\ account' = [account EXCEPT ![q.target] = q.write]
      /\ request' = [request EXCEPT ![r] = Idle]
      /\ conflicted' = (conflicted \cup Touching(q.target, r)) \ {r}
      /\ address' = address
      BY DEF IInv, TypeOK, RequestType, Commit, Store
<1>2. Idle \in RequestType /\ Idle.pc = "idle"
      BY AbsentType DEF Idle
<1>3. TypeOK'
      BY <1>1, <1>2 DEF IInv, TypeOK
<1>4. ASSUME NEW s \in Requests \ conflicted', request'[s].pc = "commit"
      PROVE  Keeps(account'[request'[s].target], request'[s].write)
  <2>1. s # r
        BY <1>1, <1>2, <1>4 DEF IInv, TypeOK
  <2>2. request'[s] = request[s] /\ s \notin conflicted /\ s \notin Touching(q.target, r)
        BY <1>1, <2>1 DEF IInv, TypeOK
  <2>3. request[s].target \in Accounts /\ request[s].target # q.target
        BY <1>4, <2>1, <2>2 DEF IInv, TypeOK, Touching
  <2>4. account'[request[s].target] = account[request[s].target]
        BY <1>1, <2>3 DEF IInv, TypeOK
  <2> QED
      BY <1>4, <2>2, <2>4 DEF IInv, WritesKeepLinks
<1> QED
    BY <1>3, <1>4 DEF IInv, WritesKeepLinks

\* Every step keeps the invariant.
LEMMA NextIInv == ASSUME IInv, [AccountsNext]_accountVars PROVE IInv'
<1>1. ASSUME NEW r \in Requests, NEW p \in People, NEW kind \in {"iap", "oauth"}, Begin(r, kind, p)
      PROVE  IInv'
  <2> DEFINE new == [Idle EXCEPT !.pc = "lookup", !.kind = kind, !.person = p, !.email = address[p]]
  <2>1. address[p] \in Addresses
        BY DEF IInv, TypeOK
  <2>2. new \in RequestType /\ new.pc = "lookup" /\ new.email = address[p]
        BY <2>1, AbsentType DEF RequestType, Emails, Idle
  <2>3. request' = [request EXCEPT ![r] = new] /\ UNCHANGED <<account, address, conflicted>>
        BY <1>1 DEF Begin
  <2> HIDE DEF new
  <2> QED
      BY <2>1, <2>2, <2>3, QuietStep
<1>2. ASSUME NEW r \in Requests, FindAccount(r) PROVE IInv'
  <2> USE DEF IInv
  <2>1. PICK a \in Found(r) :
          request' = [request EXCEPT ![r].pc = "commit", ![r].target = a,
            ![r].write = Linked(request[r].kind, account[a], request[r].person, request[r].email)]
        BY <1>2 DEF FindAccount
  <2> DEFINE u == Linked(request[r].kind, account[a], request[r].person, request[r].email)
             new == [request[r] EXCEPT !.pc = "commit", !.target = a, !.write = u]
  <2>2. a \in Accounts /\ u \in Users /\ Keeps(account[a], u)
        BY <1>2, LinkedKeeps DEF FindAccount
  <2>3. new \in RequestType /\ new.pc = "commit" /\ new.target = a /\ new.write = u
    <3> HIDE DEF u
    <3>1. request[r] \in RequestType
          BY DEF TypeOK
    <3> QED
        BY <2>2, <3>1 DEF RequestType
  <2>4. request' = [request EXCEPT ![r] = new]
        BY <2>1 DEF TypeOK
  <2>5. UNCHANGED <<account, address, conflicted>>
        BY <1>2 DEF FindAccount
  <2> HIDE DEF new, u, IInv
  <2> QED
      BY <2>2, <2>3, <2>4, <2>5, QuietStep
<1>3. ASSUME NEW r \in Requests, CreateAccount(r) PROVE IInv'
  <2> USE DEF IInv
  <2> DEFINE a == CHOOSE k \in NewKeys : TRUE
  <2>1. PICK name \in UnusedUsernames(LocalPart[request[r].email]) :
          request' = [request EXCEPT ![r].pc = "commit", ![r].target = a,
            ![r].write = Created(request[r].kind, request[r].person, request[r].email, name)]
        BY <1>3 DEF CreateAccount
  <2> DEFINE u == Created(request[r].kind, request[r].person, request[r].email, name)
             new == [request[r] EXCEPT !.pc = "commit", !.target = a, !.write = u]
  <2>2. a \in NewKeys
        BY <1>3 DEF CreateAccount
  <2>3. a \in Accounts /\ u \in Users /\ Keeps(account[a], u)
    <3> HIDE DEF a
    <3> QED
        BY <1>3, <2>2, CreatedKeeps DEF CreateAccount
  <2>4. new \in RequestType /\ new.pc = "commit" /\ new.target = a /\ new.write = u
    <3> HIDE DEF u, a
    <3>1. request[r] \in RequestType
          BY DEF TypeOK
    <3> QED
        BY <2>3, <3>1 DEF RequestType
  <2>5. request' = [request EXCEPT ![r] = new]
    <3> HIDE DEF a
    <3>1. u = Created(request[r].kind, request[r].person, request[r].email, name)
          OBVIOUS
    <3> HIDE DEF u
    <3>2. request \in [Requests -> RequestType]
          BY DEF TypeOK
    <3>3. request' = [request EXCEPT ![r].pc = "commit", ![r].target = a, ![r].write = u]
          BY <2>1, <3>1
    <3> QED
        BY <3>2, <3>3
  <2>6. UNCHANGED <<account, address, conflicted>>
        BY <1>3 DEF CreateAccount
  <2> HIDE DEF new, u, a, IInv
  <2> QED
      BY <2>3, <2>4, <2>5, <2>6, QuietStep
<1>4. ASSUME NEW r \in Requests, Reject(r) \/ CommitFails(r) PROVE IInv'
  <2>1. Idle \in RequestType /\ Idle.pc = "idle"
        BY AbsentType DEF Idle
  <2>2. /\ request' = [request EXCEPT ![r] = Idle]
        /\ UNCHANGED <<account, address>>
        /\ conflicted \ {r} \subseteq conflicted'
        BY <1>4 DEF Reject, CommitFails
  <2> QED
      BY <2>1, <2>2, QuietStep
<1>5. ASSUME NEW p \in People, NEW e \in Addresses, Move(p, e) PROVE IInv'
      BY <1>5 DEF Move, IInv, TypeOK, WritesKeepLinks
<1>6. CASE UNCHANGED accountVars
      BY <1>6 DEF accountVars, IInv, TypeOK, WritesKeepLinks
<1> QED
    BY <1>1, <1>2, <1>3, <1>4, <1>5, <1>6, CommitIInv DEF AccountsNext, Authenticate

\* The accounts keep their types, and pending writes their links.
THEOREM IInvHolds == AccountsSpec => []IInv
BY InitIInv, NextIInv, PTL DEF AccountsSpec

\* Links are permanent, however requests race and addresses pass on
\* (iap.py:97-152, oauth2.py:44-77).
THEOREM LinksPermanent == AccountsSpec => LinksArePermanent
<1> DEFINE Kept == \A a \in Accounts, kind \in {"iap", "oauth"} :
                     account[a][kind] # None => account'[a][kind] = account[a][kind]
<1>1. ASSUME IInv, [AccountsNext]_accountVars PROVE [Kept]_accountVars
  <2>1. ASSUME NEW r \in Requests, Commit(r) PROVE Kept
    <3> DEFINE q == request[r]
    <3>1. /\ q.target \in Accounts /\ Keeps(account[q.target], q.write)
          /\ account' = [account EXCEPT ![q.target] = q.write]
          BY <1>1, <2>1 DEF IInv, TypeOK, WritesKeepLinks, Commit, Store
    <3>2. account \in [Accounts -> Users]
          BY <1>1 DEF IInv, TypeOK
    <3> QED
        BY <3>1, <3>2 DEF Keeps
  <2>2. CASE account' = account
        BY <2>2
  <2> QED
      BY <1>1, <2>1, <2>2 DEF AccountsNext, Authenticate, Begin, FindAccount, CreateAccount,
                              Reject, CommitFails, Move, accountVars
<1> QED
    BY IInvHolds, <1>1, PTL DEF AccountsSpec, LinksArePermanent
-----------------------------------------------------------------------------
\* Who has ever had which address: at first, everybody one.
Holdings == {m \in Addresses \X People : m[2] \in held[m[1]]}
FirstHoldings == {m \in Addresses \X People : m[1] = FirstAddress[m[2]]}

\* As long as nobody has had a second address, all have their first.
HeldInv ==
  /\ held \in [Addresses -> SUBSET People]
  /\ IsFiniteSet(Holdings) /\ FirstHoldings \subseteq Holdings
  /\ Holdings = FirstHoldings => address = FirstAddress

\* The address of account u is that of the persons it is linked to.
OwnAddress(u) == \A p \in People : p \in {u.iap, u.oauth} => u.email = FirstAddress[p]

SettledInv ==
  Holdings = FirstHoldings =>
    /\ \A a \in Stored : OwnAddress(account[a])
    /\ \A a, b \in Stored : account[a].email = account[b].email => a = b
    /\ \A r \in Requests :
         /\ request[r].pc = "lookup" => request[r].email = FirstAddress[request[r].person]
         /\ request[r].pc = "commit" => OwnAddress(request[r].write)
-----------------------------------------------------------------------------
\* Everybody has one first address.
LEMMA FirstCounted ==
  IsFiniteSet(FirstHoldings) /\ Cardinality(FirstHoldings) = Cardinality(People)
<1> DEFINE f == [p \in People |-> <<FirstAddress[p], p>>]
<1>1. f \in Bijection(People, FirstHoldings)
  <2>1. \A p \in People : <<FirstAddress[p], p>> \in FirstHoldings
        BY AddressAssumption DEF FirstHoldings
  <2>2. \A m \in FirstHoldings : m[2] \in People /\ m = <<FirstAddress[m[2]], m[2]>>
        BY DEF FirstHoldings
  <2>3. f \in [People -> FirstHoldings] /\ \A p, q \in People : f[p] = f[q] => p = q
        BY <2>1
  <2>4. \A m \in FirstHoldings : \E p \in People : f[p] = m
        BY <2>2
  <2> HIDE DEF f
  <2> QED
      BY <2>3, <2>4, Zenon DEF Bijection, Injection, Surjection, IsInjective
<1>2. ExistsBijection(People, FirstHoldings)
      BY <1>1 DEF ExistsBijection
<1> QED
    BY <1>2, PeopleAssumption, FS_Bijection

LEMMA InitHeld == AccountsInit => HeldInv
<1> SUFFICES ASSUME AccountsInit PROVE HeldInv
    OBVIOUS
<1>1. \A e \in Addresses : held[e] = {p \in People : FirstAddress[p] = e}
      BY DEF AccountsInit
<1>2. Holdings = FirstHoldings
      BY <1>1 DEF Holdings, FirstHoldings
<1> QED
    BY <1>2, FirstCounted DEF HeldInv, AccountsInit

\* A second address stays held for ever.
LEMMA MoveHeld ==
  ASSUME HeldInv, NEW p \in People, NEW e \in Addresses, Move(p, e)
  PROVE  HeldInv' /\ (Holdings # FirstHoldings)'
<1>1. p \notin held[e] /\ held' = [held EXCEPT ![e] = held[e] \cup {p}]
      BY DEF Move
<1>2. Holdings' = Holdings \cup {<<e, p>>} /\ <<e, p>> \notin Holdings
      BY <1>1 DEF HeldInv, Holdings
<1>3. FirstHoldings' = FirstHoldings
      BY DEF FirstHoldings
<1>4. IsFiniteSet(Holdings')
      BY <1>2, FS_AddElement DEF HeldInv
<1>5. held' \in [Addresses -> SUBSET People]
      BY <1>1 DEF HeldInv
<1> QED
    BY <1>2, <1>3, <1>4, <1>5 DEF HeldInv

LEMMA NextHeld ==
  ASSUME HeldInv, [AccountsNext]_accountVars
  PROVE  /\ HeldInv'
         /\ (Holdings = FirstHoldings)' => Holdings = FirstHoldings /\ UNCHANGED address
<1>1. CASE UNCHANGED <<address, held>>
  <2>1. Holdings' = Holdings
        BY <1>1 DEF Holdings
  <2> QED
      BY <1>1, <2>1 DEF HeldInv, FirstHoldings
<1>2. ASSUME NEW p \in People, NEW e \in Addresses, Move(p, e)
      PROVE  HeldInv' /\ (Holdings # FirstHoldings)'
      BY <1>2, MoveHeld
<1> QED
    BY <1>1, <1>2 DEF AccountsNext, accountVars, Begin, Authenticate, FindAccount, CreateAccount,
       Reject, Commit, CommitFails, Store

\* Nobody has moved when nobody holds more than the first address.
LEMMA UnmovedHoldings ==
  ASSUME HeldInv, Moves = 0
  PROVE  Holdings = FirstHoldings /\ address = FirstAddress
<1>1. Cardinality(Holdings) - Cardinality(People) = 0
      BY DEF Moves, Holdings
<1>2. Cardinality(Holdings) \in Nat /\ Cardinality(FirstHoldings) \in Nat
      BY FirstCounted, FS_CardinalityType DEF HeldInv
<1>3. Cardinality(Holdings) = Cardinality(FirstHoldings)
      BY <1>1, <1>2, FirstCounted
<1>4. Holdings = FirstHoldings
      BY <1>3, FS_Subset DEF HeldInv
<1> QED
    BY <1>4 DEF HeldInv
-----------------------------------------------------------------------------
\* What a request finds has its person's address already, and so has what it
\* writes (iap.py:96-142, oauth2.py:44-79).
LEMMA FoundOwn ==
  ASSUME TypeOK, SettledInv, Holdings = FirstHoldings,
         NEW r \in Requests, Looking(r), NEW a \in Found(r)
  PROVE  OwnAddress(Linked(request[r].kind, account[a], request[r].person, request[r].email))
<1> DEFINE q == request[r]
<1>1. /\ q \in RequestType /\ q.person \in People /\ q.kind \in {"iap", "oauth"}
      /\ q.email = FirstAddress[q.person]
      BY DEF TypeOK, RequestType, SettledInv, Looking
<1>2. a \in Stored /\ a \in Accounts /\ account[a] \in Users
      BY DEF Found, Match, IapMatch, OAuthMatch, ById, ByEmail, Stored, TypeOK
<1>3. OwnAddress(account[a])
      BY <1>2 DEF SettledInv
<1>4. account[a].email = q.email
  <2>1. q.person \in {account[a].iap, account[a].oauth} \/ account[a].email = q.email
        BY <1>1 DEF Found, Match, IapMatch, OAuthMatch, ById, ByEmail
  <2> QED
      BY <1>1, <1>3, <2>1 DEF OwnAddress
<1> DEFINE u == Linked(q.kind, account[a], q.person, q.email)
<1>5. /\ u.email = q.email /\ u.iap \in {account[a].iap, q.person}
      /\ u.oauth \in {account[a].oauth, q.person}
      BY <1>1, <1>2, <1>4 DEF Linked, Users
<1> HIDE DEF u
<1> QED
    BY <1>1, <1>3, <1>4, <1>5 DEF OwnAddress, u

\* A request that leaves the table as it is.
LEMMA QuietSettled ==
  ASSUME TypeOK, SettledInv, NEW r \in Requests, NEW new, UNCHANGED <<account, held>>,
         request' = [request EXCEPT ![r] = new],
         Holdings = FirstHoldings =>
           /\ new.pc = "lookup" => new.email = FirstAddress[new.person]
           /\ new.pc = "commit" => OwnAddress(new.write)
  PROVE  SettledInv'
<1>1. Holdings' = Holdings /\ FirstHoldings' = FirstHoldings /\ Stored' = Stored
      BY DEF Holdings, FirstHoldings, Stored
<1>2. \A s \in Requests : request'[s] = IF s = r THEN new ELSE request[s]
      BY DEF TypeOK
<1> QED
    BY <1>1, <1>2 DEF SettledInv, OwnAddress

LEMMA CommitSettled ==
  ASSUME TypeOK, SettledInv, NEW r \in Requests, Commit(r) PROVE SettledInv'
<1> SUFFICES ASSUME (Holdings = FirstHoldings)' PROVE SettledInv'
    BY DEF SettledInv
<1> DEFINE q == request[r]
<1>1. /\ q.pc = "commit" /\ q.target \in Accounts /\ q.write \in Users
      /\ account' = [account EXCEPT ![q.target] = q.write]
      /\ request' = [request EXCEPT ![r] = Idle] /\ UNCHANGED held
      /\ ~Repeats(q.target, q.write)
      BY DEF TypeOK, RequestType, Commit, Store
<1>2. Holdings = FirstHoldings
      BY <1>1 DEF Holdings, FirstHoldings
<1>3. OwnAddress(q.write)
      BY <1>1, <1>2 DEF SettledInv
<1>4. \A a \in Accounts : account'[a] = IF a = q.target THEN q.write ELSE account[a]
      BY <1>1 DEF TypeOK
<1>5. \A a \in Stored' : a \in Accounts /\ (a # q.target => a \in Stored)
      BY <1>4 DEF Stored
<1>6. \A b \in Stored : b # q.target => account[b].email # q.write.email
      BY <1>1 DEF Repeats
<1>7. \A s \in Requests : request'[s] = IF s = r THEN Idle ELSE request[s]
      BY <1>1 DEF TypeOK
<1>8. \A a \in Stored' : OwnAddress(account'[a])
      BY <1>2, <1>3, <1>4, <1>5 DEF SettledInv
<1>9. \A a, b \in Stored' : account'[a].email = account'[b].email => a = b
      BY <1>2, <1>4, <1>5, <1>6 DEF SettledInv
<1>10. Idle.pc = "idle"
       BY DEF Idle
<1> QED
    BY <1>2, <1>7, <1>8, <1>9, <1>10 DEF SettledInv, OwnAddress

LEMMA NextSettled ==
  ASSUME IInv, HeldInv, SettledInv, [AccountsNext]_accountVars PROVE SettledInv'
<1>1. TypeOK
      BY DEF IInv
<1>2. ASSUME NEW r \in Requests, NEW p \in People, NEW kind \in {"iap", "oauth"}, Begin(r, kind, p)
      PROVE  SettledInv'
  <2>1. PICK new : new = [Idle EXCEPT !.pc = "lookup", !.kind = kind, !.person = p,
                                      !.email = address[p]]
        OBVIOUS
  <2>2. new.pc = "lookup" /\ new.email = address[p] /\ new.person = p
        BY <2>1 DEF Idle
  <2>3. request' = [request EXCEPT ![r] = new] /\ UNCHANGED <<account, held>>
        BY <1>2, <2>1 DEF Begin
  <2> QED
      BY <1>1, <2>2, <2>3, QuietSettled DEF HeldInv
<1>3. ASSUME NEW r \in Requests, FindAccount(r) PROVE SettledInv'
  <2>1. PICK a \in Found(r) :
          request' = [request EXCEPT ![r].pc = "commit", ![r].target = a,
            ![r].write = Linked(request[r].kind, account[a], request[r].person, request[r].email)]
        BY <1>3 DEF FindAccount
  <2>2. PICK u : u = Linked(request[r].kind, account[a], request[r].person, request[r].email)
        OBVIOUS
  <2>3. PICK new : new = [request[r] EXCEPT !.pc = "commit", !.target = a, !.write = u]
        OBVIOUS
  <2>4. request' = [request EXCEPT ![r] = new] /\ UNCHANGED <<account, held>>
        BY <1>1, <1>3, <2>1, <2>2, <2>3 DEF FindAccount, TypeOK
  <2>5. new.pc = "commit" /\ new.write = u
        BY <1>1, <2>3 DEF TypeOK, RequestType
  <2>6. Holdings = FirstHoldings => OwnAddress(u)
        BY <1>1, <1>3, <2>2, FoundOwn DEF FindAccount
  <2> QED
      BY <1>1, <2>4, <2>5, <2>6, QuietSettled
<1>4. ASSUME NEW r \in Requests, CreateAccount(r) PROVE SettledInv'
  <2>1. PICK a, name :
          request' = [request EXCEPT ![r].pc = "commit", ![r].target = a,
            ![r].write = Created(request[r].kind, request[r].person, request[r].email, name)]
        BY <1>4 DEF CreateAccount
  <2>2. PICK u : u = Created(request[r].kind, request[r].person, request[r].email, name)
        OBVIOUS
  <2>3. PICK new : new = [request[r] EXCEPT !.pc = "commit", !.target = a, !.write = u]
        OBVIOUS
  <2>4. request' = [request EXCEPT ![r] = new] /\ UNCHANGED <<account, held>>
        BY <1>1, <1>4, <2>1, <2>2, <2>3 DEF CreateAccount, TypeOK
  <2>5. new.pc = "commit" /\ new.write = u
        BY <1>1, <2>3 DEF TypeOK, RequestType
  <2>6. /\ u.email = request[r].email
        /\ \A p \in People : p \in {u.iap, u.oauth} => p = request[r].person
        BY <2>2, PeopleAssumption DEF Created
  <2>7. Holdings = FirstHoldings => OwnAddress(u)
        BY <1>4, <2>6 DEF CreateAccount, Looking, OwnAddress, SettledInv
  <2> QED
      BY <1>1, <2>4, <2>5, <2>7, QuietSettled
<1>5. ASSUME NEW r \in Requests, Reject(r) \/ CommitFails(r) PROVE SettledInv'
  <2>1. Idle.pc = "idle"
        BY DEF Idle
  <2> QED
      BY <1>1, <1>5, <2>1, QuietSettled DEF Reject, CommitFails
<1>6. ASSUME NEW p \in People, NEW e \in Addresses, Move(p, e) PROVE SettledInv'
      BY <1>6, MoveHeld DEF SettledInv
<1>7. CASE UNCHANGED accountVars
      BY <1>7 DEF accountVars, SettledInv, Holdings, FirstHoldings, Stored, OwnAddress
<1> QED
    BY <1>1, <1>2, <1>3, <1>4, <1>5, <1>6, <1>7, CommitSettled DEF AccountsNext, Authenticate

\* Two requests of one person that come first at the same time, by either backend,
\* leave one account (iap.py:95-153, oauth2.py:43-87).
THEOREM OneEach == AccountsSpec => []OneAccountEach
<1>1. AccountsInit => HeldInv /\ SettledInv
  <2>1. AccountsInit => SettledInv
        BY DEF AccountsInit, SettledInv, Stored, Idle
  <2> QED
      BY <2>1, InitHeld
<1>2. IInv /\ HeldInv /\ SettledInv /\ [AccountsNext]_accountVars => HeldInv' /\ SettledInv'
      BY NextHeld, NextSettled
<1>3. HeldInv /\ SettledInv => OneAccountEach
  <2> SUFFICES ASSUME HeldInv, SettledInv, Moves = 0, NEW p \in People
               PROVE  Cardinality({a \in Stored : p \in {account[a].iap, account[a].oauth}
                                                  \/ account[a].email = address[p]}) <= 1
      BY DEF OneAccountEach
  <2> DEFINE S == {a \in Stored : p \in {account[a].iap, account[a].oauth}
                                  \/ account[a].email = address[p]}
  <2>1. Holdings = FirstHoldings /\ address = FirstAddress
        BY UnmovedHoldings
  <2>2. \A a \in S : a \in Stored /\ account[a].email = address[p]
        BY <2>1 DEF SettledInv, OwnAddress
  <2>3. \A a, b \in S : a = b
        BY <2>1, <2>2 DEF SettledInv
  <2>4. S = {} \/ \E a : S = {a}
    <3> HIDE DEF S
    <3> QED
        BY <2>3
  <2>5. Cardinality(S) <= 1
    <3> HIDE DEF S
    <3> QED
        BY <2>4, FS_EmptySet, FS_Singleton
  <2> QED
      BY <2>5
<1> QED
    BY IInvHolds, <1>1, <1>2, <1>3, PTL DEF AccountsSpec
-----------------------------------------------------------------------------
Paths == Views \cup {LoginPath, CallbackPath, None}
SessionType ==
  [user : Accounts \cup {None}, backend : {None, "iap", "oauth"}, person : Ids,
   state : Tabs \cup {None}, next : Paths, stash : SUBSET Scopes]
TabType ==
  [at : {"visit", "login", "google", "back", "idle"}, next : Paths, asked : SUBSET Scopes,
   person : Ids]
OAuthSessionType == [exists : BOOLEAN, scopes : SUBSET Scopes, valid : BOOLEAN]

\* A tab asks for a view, and comes back from Google as somebody.
TabOK(c) ==
  c \in TabType /\ (c.at = "visit" => c.next \in Views) /\ (c.at = "back" => c.person \in People)

LoginTypeOK ==
  /\ account \in [Accounts -> Users] /\ address \in [People -> Addresses]
  /\ session \in SessionType /\ header \in Ids
  /\ tab \in [Tabs -> TabType] /\ \A t \in Tabs : TabOK(tab[t])
  /\ oauthSession \in [People -> OAuthSessionType]

\* Session s, if it has been begun by a backend, belongs to the account its person
\* is linked to.
PersonOK(s, users) ==
  /\ s.backend # None => s.user \in Accounts /\ s.person \in People
  /\ s.backend = "oauth" => users[s.user].oauth = s.person
  /\ s.backend = "iap" => users[s.user].iap = s.person

LoginInv == LoginTypeOK /\ PersonOK(session, account)

\* No account of users has lost a link in later.
KeepLinks(users, later) == \A a \in Accounts : Keeps(users[a], later[a])

\* What is left of a session and the accounts.
LeftOK(s, users) == s \in SessionType /\ users \in [Accounts -> Users] /\ PersonOK(s, users)
-----------------------------------------------------------------------------
\* What a backend stores: nobody loses a link, and its person is linked (iap.py:97-152, oauth2.py:44-87).
LEMMA AuthenticatedKeeps ==
  ASSUME NEW users \in [Accounts -> Users], address \in [People -> Addresses],
         NEW kind \in {"iap", "oauth"}, NEW p \in People, NEW w \in Authenticated(users, kind, p)
  PROVE  /\ w[1] \in Accounts /\ w[2] \in Users /\ Keeps(users[w[1]], w[2])
         /\ kind = "oauth" => w[2].oauth = p
         /\ kind = "iap" => w[2].iap = p
<1> DEFINE e == address[p]
           found == Among(users)!Match(kind, p, e)
           new == Accounts \ Among(users)!Stored
<1>1. e \in Addresses
      OBVIOUS
<1>2. ~Among(users)!Refused(kind, p, e)
      BY DEF Authenticated
<1>3. CASE \E a \in found : w = <<a, Linked(kind, users[a], p, e)>>
  <2>1. PICK a \in found : w = <<a, Linked(kind, users[a], p, e)>>
        BY <1>3
  <2>2. a \in Accounts /\ users[a] \in Users
        BY DEF Among!Match, Among!IapMatch, Among!OAuthMatch, Among!ById, Among!ByEmail, Among!Stored
  <2>3. CASE kind = "iap"
    <3>1. users[a].iap \in {p, None}
          BY <2>3 DEF Among!Match, Among!IapMatch, Among!ById, Among!ByEmail
    <3> HIDE DEF e, found
    <3> QED
        BY <1>1, <2>1, <2>2, <2>3, <3>1 DEF Linked, Users, Keeps, Ids, Emails
  <2>4. CASE kind = "oauth"
    <3>1. a \in Among(users)!OAuthMatch(p, e)
          BY <2>4 DEF Among!Match
    <3>2. \A b \in Among(users)!OAuthMatch(p, e) : users[b].oauth \in {p, None}
          BY <1>2, <2>4 DEF Among!Refused
    <3>3. users[a].oauth \in {p, None}
          BY <3>1, <3>2
    <3> HIDE DEF e, found
    <3> QED
        BY <1>1, <2>1, <2>2, <2>4, <3>3 DEF Linked, Users, Keeps, Ids, Emails
  <2> QED
      BY <2>3, <2>4
<1>4. CASE /\ new # {}
           /\ \E name \in Among(users)!UnusedUsernames(LocalPart[e]) :
                w = <<CHOOSE a \in new : TRUE, Created(kind, p, e, name)>>
  <2>1. PICK a \in new, name \in Among(users)!UnusedUsernames(LocalPart[e]) :
          w = <<a, Created(kind, p, e, name)>>
        BY <1>4
  <2>2. a \in Accounts /\ users[a] = Among(users)!Absent
        BY DEF Among!Stored
  <2>3. users[a].iap = None /\ users[a].oauth = None
        BY <2>2 DEF Among!Absent
  <2>4. name \in Names
        BY <1>1, MovesAssumption DEF Among!UnusedUsernames, Names
  <2> HIDE DEF e
  <2> QED
      BY <1>1, <2>1, <2>2, <2>3, <2>4 DEF Created, Users, Keeps, Ids, Emails
<1> QED
    BY <1>3, <1>4 DEF Authenticated

\* Storing it keeps all links.
LEMMA StoredKeeps ==
  ASSUME NEW users \in [Accounts -> Users], NEW a \in Accounts, NEW u \in Users,
         Keeps(users[a], u)
  PROVE  /\ [users EXCEPT ![a] = u] \in [Accounts -> Users]
         /\ KeepLinks(users, [users EXCEPT ![a] = u])
BY DEF Keeps, KeepLinks

\* A session still belongs to its person.
LEMMA PersonKept ==
  ASSUME NEW s, NEW users, NEW later, PersonOK(s, users), KeepLinks(users, later)
  PROVE  PersonOK(s, later)
BY PeopleAssumption, ScopesAssumption DEF PersonOK, KeepLinks, Keeps

LEMMA FlushedType == Flushed \in SessionType /\ Flushed.backend = None
BY DEF Flushed, SessionType, Ids, Paths

\* s has the state and the return address of r, or none.
SameDance(s, r) == s.state = None \/ (s.state = r.state /\ s.next = r.next)

\* login() names the user and the person, and keeps or drops the dance.
LEMMA LogInNames ==
  ASSUME NEW s \in SessionType, NEW a \in Accounts, NEW kind \in {"iap", "oauth"}, NEW p \in People
  PROVE  LET r == LogIn(s, a, kind, p)
         IN  /\ r \in SessionType /\ r.user = a /\ r.backend = kind /\ r.person = p
             /\ SameDance(r, s)
<1>1. PICK q \in {s, Flushed} :
        LogIn(s, a, kind, p) = [q EXCEPT !.user = a, !.backend = kind, !.person = p]
      BY DEF LogIn
<1>2. q \in SessionType /\ SameDance(q, s)
      BY FlushedType DEF SameDance, Flushed
<1>3. PICK r : r = LogIn(s, a, kind, p)
      OBVIOUS
<1>4. /\ r \in SessionType /\ r.user = a /\ r.backend = kind /\ r.person = p
      /\ r.state = q.state /\ r.next = q.next
      BY <1>1, <1>2, <1>3 DEF SessionType, Ids
<1> QED
    BY <1>2, <1>3, <1>4 DEF SameDance

\* The session and the accounts after a backend has found somebody.
LEMMA LoggedInOK ==
  ASSUME NEW s \in SessionType, NEW users \in [Accounts -> Users],
         address \in [People -> Addresses], NEW kind \in {"iap", "oauth"}, NEW p \in People,
         NEW w \in Authenticated(users, kind, p)
  PROVE  LeftOK(LogIn(s, w[1], kind, p), [users EXCEPT ![w[1]] = w[2]])
<1>1. /\ w[1] \in Accounts /\ w[2] \in Users
      /\ kind = "oauth" => w[2].oauth = p
      /\ kind = "iap" => w[2].iap = p
      BY AuthenticatedKeeps
<1>2. PICK r : r = LogIn(s, w[1], kind, p)
      OBVIOUS
<1>3. PICK later : later = [users EXCEPT ![w[1]] = w[2]]
      OBVIOUS
<1>4. later \in [Accounts -> Users] /\ later[w[1]] = w[2]
      BY <1>1, <1>3
<1>5. r \in SessionType /\ r.user = w[1] /\ r.backend = kind /\ r.person = p
      BY <1>1, <1>2, LogInNames
<1>6. LeftOK(r, later)
      BY <1>1, <1>4, <1>5 DEF LeftOK, PersonOK
<1> QED
    BY <1>2, <1>3, <1>6

\* What the middleware leaves of the session: what there was, nothing, or the
\* session of whom IAP names (middleware.py:84-164).
LEMMA MiddlewareCases ==
  ASSUME LoginInv, NEW m \in ExemptMiddleware \cup Middleware
  PROVE  /\ m.user \in Accounts \cup {None}
         /\ \/ m.account = account /\ m.session \in {session, Flushed}
            \/ /\ header \in People
               /\ \E w \in Authenticated(account, "iap", header) :
                    /\ m.session = LogIn(session, w[1], "iap", header)
                    /\ m.account = [account EXCEPT ![w[1]] = w[2]]
<1>1. ASSUME NEW s, NEW u, NEW v, m = Outcome(s, account, u, v), s \in {session, Flushed},
             u \in {RequestUser, None}
      PROVE  /\ m.account = account /\ m.session \in {session, Flushed}
             /\ m.user \in Accounts \cup {None}
      BY <1>1 DEF Outcome, RequestUser, LoginInv, LoginTypeOK, SessionType
<1>2. CASE OAuthExpired /\ m \in Middleware
  <2>1. \/ m = Outcome(session, account, RequestUser, "login")
        \/ m = Outcome(Flushed, account, None, "go")
        BY <1>2 DEF Middleware
  <2> QED
      BY <1>1, <2>1
<1>3. CASE m = GoesOn
      BY <1>1, <1>3 DEF GoesOn
<1>4. CASE m = Outcome(session, account, None, "error")
      BY <1>1, <1>4
<1>5. CASE /\ ~OAuthExpired /\ m \in Middleware /\ m # GoesOn
           /\ m # Outcome(session, account, None, "error")
  <2>1. header \in People
        BY <1>5 DEF Middleware, LoginInv, LoginTypeOK, Ids
  <2>2. PICK w \in Authenticated(account, "iap", header) :
          m = Outcome(LogIn(session, w[1], "iap", header), [account EXCEPT ![w[1]] = w[2]], w[1], "go")
        BY <1>5 DEF Middleware
  <2>3. w[1] \in Accounts
        BY <2>1, AuthenticatedKeeps DEF LoginInv, LoginTypeOK
  <2> QED
      BY <2>1, <2>2, <2>3 DEF Outcome
<1> QED
    BY <1>2, <1>3, <1>4, <1>5 DEF ExemptMiddleware

LEMMA MiddlewareOK ==
  ASSUME LoginInv, NEW m \in ExemptMiddleware \cup Middleware
  PROVE  LeftOK(m.session, m.account)
<1>1. LeftOK(session, account) /\ LeftOK(Flushed, account)
      BY FlushedType, ScopesAssumption DEF LoginInv, LoginTypeOK, LeftOK, PersonOK
<1>2. CASE m.account = account /\ m.session \in {session, Flushed}
      BY <1>1, <1>2
<1>3. CASE /\ header \in People
           /\ \E w \in Authenticated(account, "iap", header) :
                /\ m.session = LogIn(session, w[1], "iap", header)
                /\ m.account = [account EXCEPT ![w[1]] = w[2]]
  <2>1. PICK w \in Authenticated(account, "iap", header) :
          /\ m.session = LogIn(session, w[1], "iap", header)
          /\ m.account = [account EXCEPT ![w[1]] = w[2]]
        BY <1>3
  <2>2. LeftOK(LogIn(session, w[1], "iap", header), [account EXCEPT ![w[1]] = w[2]])
        BY <1>3, LoggedInOK DEF LoginInv, LoginTypeOK
  <2> QED
      BY <2>1, <2>2
<1> QED
    BY <1>2, <1>3, MiddlewareCases
-----------------------------------------------------------------------------
\* A step of a tab keeps the invariant if what it leaves is as it should be.
LEMMA TabMoves ==
  ASSUME LoginInv, NEW t \in Tabs, NEW c, TabOK(c), tab' = [tab EXCEPT ![t] = c],
         LeftOK(session', account'), UNCHANGED <<address, header>>,
         oauthSession' \in [People -> OAuthSessionType]
  PROVE  LoginInv'
<1>1. \A u \in Tabs : tab'[u] = IF u = t THEN c ELSE tab[u]
      BY DEF LoginInv, LoginTypeOK
<1>2. tab' \in [Tabs -> TabType]
      BY DEF LoginInv, LoginTypeOK, TabOK
<1>3. \A u \in Tabs : TabOK(tab'[u])
      BY <1>1 DEF LoginInv, LoginTypeOK
<1> QED
    BY <1>2, <1>3 DEF LoginInv, LoginTypeOK, LeftOK, TabOK

LEMMA RedirectOK ==
  /\ TabOK(Closed)
  /\ \A v \in Paths : TabOK(Redirected(v)) /\ TabOK(GoTo(v))
<1>1. TabOK(Closed)
      BY DEF TabOK, Closed, TabType, Paths, Ids
<1>2. ASSUME NEW v \in Paths PROVE TabOK(Redirected(v))
      BY DEF TabOK, Redirected, Closed, TabType, Paths, Ids
<1>3. ASSUME NEW v \in Views PROVE TabOK([Closed EXCEPT !.at = "visit", !.next = v])
      BY DEF TabOK, Closed, TabType, Paths, Ids
<1>4. None \in Paths
      BY DEF Paths
<1> QED
    BY <1>1, <1>2, <1>3, <1>4 DEF GoTo

\* The OAuthUserSession of an account is one.
LEMMA OAuthSessionIsOne ==
  ASSUME LoginInv, NEW users \in [Accounts -> Users], NEW a \in Accounts \cup {None}
  PROVE  OAuthSessionOf(users, a) \in OAuthSessionType
<1>1. NoOAuthSession \in OAuthSessionType
      BY DEF NoOAuthSession, OAuthSessionType
<1>2. CASE a = None \/ users[a].oauth = None
      BY <1>1, <1>2 DEF OAuthSessionOf
<1>3. CASE a # None /\ users[a].oauth # None
  <2>1. users[a].oauth \in People
        BY <1>3 DEF Users, Ids
  <2> QED
      BY <1>3, <2>1 DEF OAuthSessionOf, LoginInv, LoginTypeOK
<1> QED
    BY <1>2, <1>3

\* What is there now.
LEMMA Now == ASSUME LoginInv PROVE LeftOK(session, account)
BY DEF LoginInv, LoginTypeOK, LeftOK

LEMMA TurnedKeeps ==
  ASSUME LoginInv, NEW t \in Tabs, NEW m \in ExemptMiddleware \cup Middleware,
         NEW path \in Paths, Turned(t, m, path), UNCHANGED external
  PROVE  LoginInv'
<1>1. LeftOK(session', account')
      BY MiddlewareOK DEF Turned
<1>2. PICK c : c = IF m.verdict = "login" THEN Redirected(path) ELSE Closed
      OBVIOUS
<1>3. TabOK(c) /\ tab' = [tab EXCEPT ![t] = c]
      BY <1>2, RedirectOK DEF Turned
<1>4. oauthSession' \in [People -> OAuthSessionType] /\ UNCHANGED <<address, header>>
      BY DEF Turned, LoginInv, LoginTypeOK, external
<1> QED
    BY <1>1, <1>3, <1>4, TabMoves

\* The view, or the redirection to oauth_login (decorators.py:32-64).
LEMMA VisitKeeps == ASSUME LoginInv, NEW t \in Tabs, Visit(t) PROVE LoginInv'
<1>1. tab[t].at = "visit" /\ tab[t].next \in Views /\ tab[t].next \in Paths /\ UNCHANGED external
      BY DEF Visit, LoginInv, LoginTypeOK, TabOK, Paths
<1>2. PICK m \in Middleware :
        \/ Turned(t, m, tab[t].next)
        \/ LET v == tab[t].next
               o == OAuthSessionOf(m.account, m.user)
               granted == o.exists /\ Needs[v] \subseteq o.scopes
           IN /\ m.verdict = "go"
              /\ tab' = [tab EXCEPT ![t] = IF granted THEN Closed ELSE Redirected(v)]
              /\ session' = IF granted THEN m.session
                                       ELSE [m.session EXCEPT !.stash = Asked(v, o)]
              /\ account' = m.account
              /\ UNCHANGED oauthSession
      BY DEF Visit
<1>3. LeftOK(m.session, m.account)
      BY MiddlewareOK
<1>4. CASE Turned(t, m, tab[t].next)
      BY <1>1, <1>4, TurnedKeeps
<1>5. CASE ~Turned(t, m, tab[t].next)
  <2>1. PICK v, o : v = tab[t].next /\ o = OAuthSessionOf(m.account, m.user)
        OBVIOUS
  <2>2. /\ \/ tab' = [tab EXCEPT ![t] = Closed] /\ session' = m.session
           \/ tab' = [tab EXCEPT ![t] = Redirected(v)]
              /\ session' = [m.session EXCEPT !.stash = Asked(v, o)]
        /\ account' = m.account /\ UNCHANGED oauthSession
        BY <1>2, <1>5, <2>1
  <2>3. o \in OAuthSessionType /\ v \in Views /\ v \in Paths
        BY <1>1, <1>3, <2>1, MiddlewareCases, OAuthSessionIsOne DEF LeftOK
  <2>4. Asked(v, o) \in SUBSET Scopes
        BY <2>3, ScopesAssumption DEF Asked, OAuthSessionType
  <2>5. LeftOK([m.session EXCEPT !.stash = Asked(v, o)], m.account)
    <3>1. PICK s : s = [m.session EXCEPT !.stash = Asked(v, o)]
          OBVIOUS
    <3>2. /\ s \in SessionType /\ s.user = m.session.user /\ s.backend = m.session.backend
          /\ s.person = m.session.person
          BY <1>3, <2>4, <3>1 DEF LeftOK, SessionType
    <3> QED
        BY <1>3, <3>1, <3>2 DEF LeftOK, PersonOK
  <2>6. LeftOK(session', account')
        BY <1>3, <2>2, <2>5
  <2>7. oauthSession' \in [People -> OAuthSessionType] /\ UNCHANGED <<address, header>>
        BY <1>1, <2>2 DEF LoginInv, LoginTypeOK, external
  <2> QED
      BY <2>2, <2>3, <2>6, <2>7, RedirectOK, TabMoves
<1> QED
    BY <1>4, <1>5

\* oauth_login (views.py:97-133).
LEMMA OAuthLoginKeeps == ASSUME LoginInv, NEW t \in Tabs, OAuthLogin(t) PROVE LoginInv'
<1>1. UNCHANGED external /\ LoginPath \in Paths /\ TabOK(tab[t])
      BY DEF OAuthLogin, Paths, LoginInv, LoginTypeOK
<1>2. PICK m \in ExemptMiddleware :
        \/ Turned(t, m, LoginPath)
        \/ /\ session' = [m.session EXCEPT !.stash = {}, !.state = t,
                            !.next = Remember(m.session, tab[t].next)]
           /\ tab' = [tab EXCEPT ![t].at = "google",
                        ![t].asked = DefaultScopes \cup m.session.stash]
           /\ account' = m.account
           /\ UNCHANGED oauthSession
      BY DEF OAuthLogin
<1>3. LeftOK(m.session, m.account)
      BY MiddlewareOK
<1>4. CASE Turned(t, m, LoginPath)
      BY <1>1, <1>4, TurnedKeeps
<1>5. CASE ~Turned(t, m, LoginPath)
  <2>1. LeftOK(session', account')
    <3>1. Remember(m.session, tab[t].next) \in Paths
          BY <1>1, <1>3 DEF Remember, LeftOK, SessionType, TabOK, TabType
    <3>2. /\ session' \in SessionType /\ session'.user = m.session.user
          /\ session'.backend = m.session.backend /\ session'.person = m.session.person
          BY <1>2, <1>3, <1>5, <3>1 DEF LeftOK, SessionType
    <3> QED
        BY <1>2, <1>3, <1>5, <3>2 DEF LeftOK, PersonOK
  <2>2. PICK c : c = [tab[t] EXCEPT !.at = "google", !.asked = DefaultScopes \cup m.session.stash]
        OBVIOUS
  <2>3. tab' = [tab EXCEPT ![t] = c]
        BY <1>2, <1>5, <2>2 DEF LoginInv, LoginTypeOK
  <2>4. DefaultScopes \cup m.session.stash \in SUBSET Scopes
        BY <1>3, ScopesAssumption DEF LeftOK, SessionType
  <2>5. TabOK(c)
        BY <1>1, <2>2, <2>4 DEF TabOK, TabType
  <2>6. oauthSession' \in [People -> OAuthSessionType] /\ UNCHANGED <<address, header>>
        BY <1>1, <1>2, <1>5 DEF LoginInv, LoginTypeOK, external
  <2> QED
      BY <2>1, <2>3, <2>5, <2>6, TabMoves
<1> QED
    BY <1>4, <1>5

\* What the user does: the consent page and the pages opened and left.
LEMMA UserKeeps ==
  ASSUME LoginInv, NEW t \in Tabs, (\E p \in People : Consent(t, p)) \/ Open(t) \/ Decline(t)
  PROVE  LoginInv'
<1>1. UNCHANGED <<account, address, session, oauthSession, header>>
      BY DEF Consent, Open, Decline, accountVars
<1>2. LeftOK(session', account') /\ oauthSession' \in [People -> OAuthSessionType]
      BY <1>1, Now DEF LoginInv, LoginTypeOK
<1>3. \E c : TabOK(c) /\ tab' = [tab EXCEPT ![t] = c]
  <2>1. ASSUME NEW p \in People, Consent(t, p)
        PROVE  \E c : TabOK(c) /\ tab' = [tab EXCEPT ![t] = c]
    <3>1. PICK c : c = [tab[t] EXCEPT !.at = "back", !.person = p]
          OBVIOUS
    <3>2. tab' = [tab EXCEPT ![t] = c]
          BY <2>1, <3>1 DEF Consent, LoginInv, LoginTypeOK
    <3>3. TabOK(c)
          BY <3>1 DEF LoginInv, LoginTypeOK, TabOK, TabType, Ids
    <3> QED
        BY <3>2, <3>3
  <2>2. CASE Open(t)
        BY <2>2, RedirectOK DEF Open, Paths
  <2>3. CASE Decline(t)
        BY <2>3, RedirectOK DEF Decline
  <2> QED
      BY <2>1, <2>2, <2>3
<1> QED
    BY <1>1, <1>2, <1>3, TabMoves

\* oauth2callback (views.py:206-311): the session is stored for the person who
\* comes back from Google.
LEMMA CallbackKeeps == ASSUME LoginInv, NEW t \in Tabs, Callback(t) PROVE LoginInv'
<1>1. tab[t].at = "back" /\ tab[t].person \in People /\ tab[t] \in TabType
      /\ UNCHANGED <<address, header>>
      BY DEF Callback, CallbackTurned, CallbackFails, CallbackAuthenticates, Returning, external,
         LoginInv, LoginTypeOK, TabOK
<1>2. CASE CallbackTurned(t)
  <2>1. CallbackPath \in Paths
        BY DEF Paths
  <2> QED
      BY <1>2, <2>1, TurnedKeeps DEF CallbackTurned
<1>3. CASE CallbackFails(t)
  <2>1. PICK m \in ExemptMiddleware :
          /\ tab' = [tab EXCEPT ![t] = IF m.session.state = None THEN Closed
                                                                ELSE GoTo(m.session.next)]
          /\ session' = m.session /\ account' = m.account
        BY <1>3 DEF CallbackFails
  <2>2. LeftOK(session', account') /\ m.session.next \in Paths
        BY <2>1, MiddlewareOK DEF LeftOK, SessionType
  <2>3. \E c : TabOK(c) /\ tab' = [tab EXCEPT ![t] = c]
        BY <2>1, <2>2, RedirectOK
  <2>4. oauthSession' \in [People -> OAuthSessionType]
        BY <1>3 DEF CallbackFails, LoginInv, LoginTypeOK
  <2> QED
      BY <1>1, <2>2, <2>3, <2>4, TabMoves
<1>4. CASE CallbackAuthenticates(t)
  <2>1. PICK m \in ExemptMiddleware :
          /\ oauthSession' = Granted(t)
          /\ \/ \E w \in Authenticated(m.account, "oauth", tab[t].person) :
                  /\ account' = [m.account EXCEPT ![w[1]] = w[2]]
                  /\ session' = LoggedIn(m.session, m.user, w[1], tab[t].person)
                  /\ tab' = [tab EXCEPT ![t] = GoTo(m.session.next)]
             \/ /\ tab' = [tab EXCEPT ![t] = Closed]
                /\ account' = m.account /\ session' = Unsaved(m)
        BY <1>4 DEF CallbackAuthenticates
  <2>2. LeftOK(m.session, m.account) /\ m.session.next \in Paths
        BY MiddlewareOK DEF LeftOK, SessionType
  <2>3. \E c : TabOK(c) /\ tab' = [tab EXCEPT ![t] = c]
        BY <2>1, <2>2, RedirectOK
  <2>4. oauthSession' \in [People -> OAuthSessionType]
        BY <1>1, <2>1 DEF Granted, LoginInv, LoginTypeOK, OAuthSessionType, TabType
  <2>5. ASSUME NEW w \in Authenticated(m.account, "oauth", tab[t].person),
               account' = [m.account EXCEPT ![w[1]] = w[2]],
               session' = LoggedIn(m.session, m.user, w[1], tab[t].person)
        PROVE  LeftOK(session', account')
    <3>1. PICK s \in {Flushed, m.session} : session' = LogIn(s, w[1], "oauth", tab[t].person)
          BY <2>5 DEF LoggedIn
    <3>2. /\ s \in SessionType /\ m.account \in [Accounts -> Users]
          /\ address \in [People -> Addresses]
          BY <2>2, FlushedType DEF LeftOK, LoginInv, LoginTypeOK
    <3>3. LeftOK(LogIn(s, w[1], "oauth", tab[t].person), [m.account EXCEPT ![w[1]] = w[2]])
          BY <1>1, <3>2, LoggedInOK
    <3> QED
        BY <2>5, <3>1, <3>3
  <2>6. LeftOK(Unsaved(m), m.account)
        BY <2>2, FlushedType, ScopesAssumption DEF Unsaved, LeftOK, PersonOK
  <2>7. LeftOK(session', account')
        BY <2>1, <2>5, <2>6
  <2> QED
      BY <1>1, <2>3, <2>4, <2>7, TabMoves
<1> QED
    BY <1>2, <1>3, <1>4 DEF Callback

\* What interferes from outside.
LEMMA DisturbanceKeeps ==
  ASSUME LoginInv, (\E p \in People : TokenExpires(p) \/ RecordDeleted(p)) \/ HeadersChange \/ Logout
  PROVE  LoginInv'
<1>1. UNCHANGED <<account, address, tab>>
      BY DEF TokenExpires, RecordDeleted, HeadersChange, Logout, Disturb, accountVars
<1>2. oauthSession' \in [People -> OAuthSessionType]
  <2>1. NoOAuthSession \in OAuthSessionType
        BY DEF NoOAuthSession, OAuthSessionType
  <2>2. ASSUME NEW p \in People, TokenExpires(p) \/ RecordDeleted(p)
        PROVE  oauthSession' \in [People -> OAuthSessionType]
        BY <2>1, <2>2 DEF TokenExpires, RecordDeleted, LoginInv, LoginTypeOK, OAuthSessionType
  <2> QED
      BY <2>2 DEF HeadersChange, Logout, LoginInv, LoginTypeOK
<1>3. session' \in {session, Flushed} /\ header' \in Ids
      BY DEF TokenExpires, RecordDeleted, HeadersChange, Logout, LoginInv, LoginTypeOK, Ids
<1> QED
    BY <1>1, <1>2, <1>3, FlushedType, ScopesAssumption DEF LoginInv, LoginTypeOK, PersonOK

\* Tabs, middleware and accounts keep their types, and a session its person.
THEOREM LoginInvHolds == LoginSpec => []LoginInv
<1>1. AccountsInit /\ LoginInit => LoginInv
  <2> SUFFICES ASSUME AccountsInit, LoginInit PROVE LoginInv
      OBVIOUS
  <2>1. account \in [Accounts -> Users] /\ address \in [People -> Addresses]
        BY AbsentType, AddressAssumption DEF AccountsInit
  <2>2. session \in SessionType /\ PersonOK(session, account)
        BY FlushedType, ScopesAssumption DEF LoginInit, PersonOK
  <2>3. tab \in [Tabs -> TabType] /\ \A t \in Tabs : TabOK(tab[t])
        BY RedirectOK DEF LoginInit, TabOK
  <2>4. oauthSession \in [People -> OAuthSessionType] /\ header \in Ids
        BY DEF LoginInit, OAuthSessionType, NoOAuthSession, Ids
  <2> QED
      BY <2>1, <2>2, <2>3, <2>4 DEF LoginInv, LoginTypeOK
<1>2. ASSUME LoginInv, [LoginNext]_<<accountVars, loginVars>> PROVE LoginInv'
  <2>1. CASE LoginNext
        BY <1>2, <2>1, VisitKeeps, OAuthLoginKeeps, CallbackKeeps, UserKeeps, DisturbanceKeeps
        DEF LoginNext, TabStep
  <2>2. CASE UNCHANGED <<accountVars, loginVars>>
        BY <1>2, <2>2 DEF accountVars, loginVars, LoginInv, LoginTypeOK, PersonOK
  <2> QED
      BY <1>2, <2>1, <2>2
<1> QED
    BY <1>1, <1>2, PTL DEF LoginSpec

\* Whoever a session belongs to is the person that its backend has seen last, on
\* Google's consent page or in the headers of IAP, whatever tabs, headers, expiries
\* and moves of the middleware have come in between (middleware.py:133-164,
\* views.py:277-293, iap.py:97-142, oauth2.py:44-66).
THEOREM SessionNamesPerson == LoginSpec => []SessionNamesItsPerson
<1>1. LoginInv => SessionNamesItsPerson
      BY DEF LoginInv, PersonOK, SessionNamesItsPerson
<1> QED
    BY LoginInvHolds, <1>1, PTL
-----------------------------------------------------------------------------
\* The state and the return address of session s belong to the same dance: the
\* tab that began it last wants to return there.
DanceOK(s, tabs) ==
  \A t \in Tabs :
    s.state = t /\ tabs[t].at \in {"google", "back"} /\ tabs[t].next \in Views
      => s.next = tabs[t].next
DanceInv == DanceOK(session, tab)

LEMMA MiddlewareDance ==
  ASSUME LoginInv, NEW m \in ExemptMiddleware \cup Middleware PROVE SameDance(m.session, session)
<1>1. SameDance(session, session) /\ SameDance(Flushed, session)
      BY DEF SameDance, Flushed
<1>2. ASSUME header \in People, NEW w \in Authenticated(account, "iap", header)
      PROVE  SameDance(LogIn(session, w[1], "iap", header), session)
  <2>1. w[1] \in Accounts
        BY <1>2, AuthenticatedKeeps DEF LoginInv, LoginTypeOK
  <2> QED
      BY <1>2, <2>1, LogInNames DEF LoginInv, LoginTypeOK
<1> QED
    BY <1>1, <1>2, MiddlewareCases

\* A tab goes elsewhere.
LEMMA DanceLeft ==
  ASSUME LoginInv, DanceInv, NEW t \in Tabs, NEW c, tab' = [tab EXCEPT ![t] = c],
         c.at \notin {"google", "back"}, SameDance(session', session)
  PROVE  DanceInv'
<1>1. \A u \in Tabs : tab'[u] = IF u = t THEN c ELSE tab[u]
      BY DEF LoginInv, LoginTypeOK
<1>2. None \notin Tabs
      BY ScopesAssumption
<1> QED
    BY <1>1, <1>2 DEF DanceInv, DanceOK, SameDance

LEMMA ElsewhereOK ==
  /\ Closed.at = "idle"
  /\ \A v : Redirected(v).at = "login" /\ GoTo(v).at \in {"idle", "login", "visit"}
  /\ \A v \in Views : GoTo(v).at = "visit" => GoTo(v).next = v
<1>1. Closed.at = "idle" /\ \A v : Redirected(v).at = "login"
      BY DEF Closed, Redirected
<1>2. \A v : LET c == [Closed EXCEPT !.at = "visit", !.next = v] IN c.at = "visit" /\ c.next = v
      BY DEF Closed
<1> QED
    BY <1>1, <1>2 DEF GoTo

LEMMA DanceTurned ==
  ASSUME LoginInv, DanceInv, NEW t \in Tabs, NEW m \in ExemptMiddleware \cup Middleware,
         NEW path, Turned(t, m, path)
  PROVE  DanceInv'
BY MiddlewareDance, ElsewhereOK, DanceLeft DEF Turned

LEMMA DanceVisit == ASSUME LoginInv, DanceInv, NEW t \in Tabs, Visit(t) PROVE DanceInv'
<1>1. PICK m \in Middleware :
        \/ Turned(t, m, tab[t].next)
        \/ /\ \E c \in {Closed, Redirected(tab[t].next)} : tab' = [tab EXCEPT ![t] = c]
           /\ \E x : session' \in {m.session, [m.session EXCEPT !.stash = x]}
      BY DEF Visit
<1>2. SameDance(m.session, session) /\ m.session \in SessionType
      BY MiddlewareDance, MiddlewareOK DEF LeftOK
<1>3. CASE Turned(t, m, tab[t].next)
      BY <1>3, DanceTurned
<1>4. CASE ~Turned(t, m, tab[t].next)
  <2>1. ASSUME NEW x PROVE SameDance([m.session EXCEPT !.stash = x], session)
    <3>1. PICK s : s = [m.session EXCEPT !.stash = x]
          OBVIOUS
    <3>2. s.state = m.session.state /\ s.next = m.session.next
          BY <1>2, <3>1 DEF SessionType
    <3> QED
        BY <1>2, <3>1, <3>2 DEF SameDance
  <2>2. SameDance(session', session)
    <3>1. PICK x : session' \in {m.session, [m.session EXCEPT !.stash = x]}
          BY <1>1, <1>4
    <3>2. PICK s : s = session'
          OBVIOUS
    <3>3. s \in {m.session, [m.session EXCEPT !.stash = x]}
          BY <3>1, <3>2
    <3>4. SameDance(s, session)
          BY <1>2, <2>1, <3>3
    <3> QED
        BY <3>2, <3>4
  <2> QED
      BY <1>1, <1>4, <2>2, ElsewhereOK, DanceLeft
<1> QED
    BY <1>3, <1>4

\* A new dance takes the session over (views.py:104-118).
LEMMA DanceLogin == ASSUME LoginInv, DanceInv, NEW t \in Tabs, OAuthLogin(t) PROVE DanceInv'
<1>1. PICK m \in ExemptMiddleware :
        \/ Turned(t, m, LoginPath)
        \/ /\ session' = [m.session EXCEPT !.stash = {}, !.state = t,
                            !.next = Remember(m.session, tab[t].next)]
           /\ tab' = [tab EXCEPT ![t].at = "google",
                        ![t].asked = DefaultScopes \cup m.session.stash]
      BY DEF OAuthLogin
<1>2. m.session \in SessionType /\ tab \in [Tabs -> TabType]
      BY MiddlewareOK DEF LeftOK, LoginInv, LoginTypeOK
<1>3. CASE Turned(t, m, LoginPath)
      BY <1>3, DanceTurned
<1>4. CASE ~Turned(t, m, LoginPath)
  <2>1. session'.state = t /\ session'.next = Remember(m.session, tab[t].next)
        BY <1>1, <1>2, <1>4 DEF SessionType
  <2>2. tab'[t].next = tab[t].next
        BY <1>1, <1>2, <1>4 DEF TabType
  <2>3. tab[t].next \in Views => session'.next = tab[t].next
        BY <2>1, ScopesAssumption DEF Remember
  <2> QED
      BY <2>1, <2>2, <2>3 DEF DanceInv, DanceOK
<1> QED
    BY <1>3, <1>4

LEMMA DanceUser ==
  ASSUME LoginInv, DanceInv, NEW t \in Tabs,
         (\E p \in People : Consent(t, p)) \/ Open(t) \/ Decline(t)
  PROVE  DanceInv'
<1>1. SameDance(session', session)
      BY DEF Consent, Open, Decline, SameDance
<1>2. ASSUME NEW p \in People, Consent(t, p) PROVE DanceInv'
  <2>1. session' = session /\ tab[t].at = "google" /\ tab \in [Tabs -> TabType]
        /\ tab' = [tab EXCEPT ![t].at = "back", ![t].person = p]
        BY <1>2 DEF Consent, LoginInv, LoginTypeOK
  <2>2. \A u \in Tabs : /\ tab'[u].next = tab[u].next
                        /\ tab'[u].at \in {"google", "back"} => tab[u].at \in {"google", "back"}
        BY <2>1 DEF TabType
  <2> QED
      BY <2>1, <2>2 DEF DanceInv, DanceOK
<1>3. CASE Open(t) \/ Decline(t)
  <2>1. \E c : /\ tab' = [tab EXCEPT ![t] = c]
               /\ c.at \notin {"google", "back"}
        BY <1>3, ElsewhereOK DEF Open, Decline
  <2> QED
      BY <1>1, <2>1, DanceLeft
<1> QED
    BY <1>2, <1>3

\* The session that is logged in keeps its dance, or has none.
LEMMA DanceCallback == ASSUME LoginInv, DanceInv, NEW t \in Tabs, Callback(t) PROVE DanceInv'
<1>1. CASE CallbackTurned(t)
      BY <1>1, DanceTurned DEF CallbackTurned
<1>2. CASE CallbackFails(t)
  <2>1. PICK m \in ExemptMiddleware :
          /\ tab' = [tab EXCEPT ![t] = IF m.session.state = None THEN Closed
                                                                ELSE GoTo(m.session.next)]
          /\ session' = m.session
        BY <1>2 DEF CallbackFails
  <2> QED
      BY <2>1, MiddlewareDance, ElsewhereOK, DanceLeft
<1>3. CASE CallbackAuthenticates(t)
  <2>1. PICK m \in ExemptMiddleware :
          \/ \E w \in Authenticated(m.account, "oauth", tab[t].person) :
               /\ session' = LoggedIn(m.session, m.user, w[1], tab[t].person)
               /\ tab' = [tab EXCEPT ![t] = GoTo(m.session.next)]
          \/ /\ tab' = [tab EXCEPT ![t] = Closed]
             /\ session' = Unsaved(m)
        BY <1>3 DEF CallbackAuthenticates
  <2>2. SameDance(m.session, session) /\ m.session \in SessionType /\ m.account \in [Accounts -> Users]
        BY MiddlewareDance, MiddlewareOK DEF LeftOK
  <2>3. SameDance(Unsaved(m), session)
        BY DEF Unsaved, SameDance, Flushed
  <2>4. ASSUME NEW w \in Authenticated(m.account, "oauth", tab[t].person)
        PROVE  SameDance(LoggedIn(m.session, m.user, w[1], tab[t].person), session)
    <3>1. tab[t].person \in People /\ w[1] \in Accounts
      <4>1. tab[t].person \in People /\ address \in [People -> Addresses]
            BY <1>3 DEF CallbackAuthenticates, Returning, LoginInv, LoginTypeOK, TabOK
      <4> QED
          BY <2>2, <4>1, AuthenticatedKeeps
    <3>2. PICK s \in {Flushed, m.session} :
            LoggedIn(m.session, m.user, w[1], tab[t].person) = LogIn(s, w[1], "oauth", tab[t].person)
          BY DEF LoggedIn
    <3>3. SameDance(s, session) /\ s \in SessionType
          BY <2>2, FlushedType DEF SameDance, Flushed
    <3>4. SameDance(LogIn(s, w[1], "oauth", tab[t].person), s)
          BY <3>1, <3>3, LogInNames
    <3> QED
        BY <3>2, <3>3, <3>4 DEF SameDance
  <2>5. SameDance(session', session)
        BY <2>1, <2>3, <2>4
  <2> QED
      BY <2>1, <2>5, ElsewhereOK, DanceLeft
<1> QED
    BY <1>1, <1>2, <1>3 DEF Callback

LEMMA DanceStep ==
  ASSUME LoginInv, DanceInv, [LoginNext]_<<accountVars, loginVars>> PROVE DanceInv'
<1>1. ASSUME (\E p \in People : TokenExpires(p) \/ RecordDeleted(p)) \/ HeadersChange \/ Logout
      PROVE  DanceInv'
  <2>1. tab' = tab /\ session' \in {session, Flushed} /\ Flushed.state = None /\ None \notin Tabs
        BY <1>1, ScopesAssumption DEF TokenExpires, RecordDeleted, HeadersChange, Logout, Disturb, Flushed
  <2> QED
      BY <2>1 DEF DanceInv, DanceOK
<1>2. CASE UNCHANGED <<accountVars, loginVars>>
      BY <1>2 DEF loginVars, DanceInv, DanceOK
<1> QED
    BY <1>1, <1>2, DanceVisit, DanceLogin, DanceUser, DanceCallback DEF LoginNext, TabStep

\* A dance that was begun with a return address ends there, if it succeeds,
\* whatever other tabs have begun or finished in between (views.py:104-107,
\* 219-230, 311).
THEOREM ReturnsWhereItBegan == LoginSpec => EndsWhereItBegan
<1> DEFINE Ends == \A t \in Tabs :
                     /\ Returning(t) /\ tab[t].next \in Views
                     /\ tab'[t].at = "visit" /\ oauthSession' # oauthSession
                     => tab'[t].next = tab[t].next
<1>1. LoginInv /\ DanceInv /\ [LoginNext]_<<accountVars, loginVars>> => Ends
  <2> SUFFICES ASSUME LoginInv, DanceInv, [LoginNext]_<<accountVars, loginVars>>, NEW t \in Tabs,
                      Returning(t), tab[t].next \in Views, tab'[t].at = "visit",
                      oauthSession' # oauthSession
               PROVE  tab'[t].next = tab[t].next
      OBVIOUS
  <2>1. tab' # tab
        BY DEF Returning
  <2>2. PICK u \in Tabs : CallbackAuthenticates(u)
        BY <2>1 DEF LoginNext, TabStep, loginVars, Visit, Turned, OAuthLogin, Consent, Callback,
           CallbackTurned, CallbackFails, Open, Decline, TokenExpires, RecordDeleted, HeadersChange,
           Logout, Disturb
  <2>3. PICK m \in ExemptMiddleware :
          /\ m.session.state = u
          /\ \E c \in {Closed, GoTo(m.session.next)} : tab' = [tab EXCEPT ![u] = c]
        BY <2>2 DEF CallbackAuthenticates, Matches
  <2>4. u = t
        BY <2>3 DEF Returning, LoginInv, LoginTypeOK
  <2>5. m.session.next = tab[t].next
    <3>1. session.state = t /\ m.session.next = session.next
          BY <2>3, <2>4, MiddlewareDance, ScopesAssumption DEF SameDance
    <3> QED
        BY <3>1 DEF DanceInv, DanceOK, Returning
  <2> QED
      BY <2>3, <2>4, <2>5, ElsewhereOK DEF LoginInv, LoginTypeOK
<1>2. LoginInv /\ DanceInv /\ [LoginNext]_<<accountVars, loginVars>> => DanceInv'
      BY DanceStep
<1>3. AccountsInit /\ LoginInit => DanceInv
      BY ScopesAssumption DEF LoginInit, Flushed, DanceInv, DanceOK
<1> QED
    BY LoginInvHolds, <1>1, <1>2, <1>3, PTL DEF LoginSpec, EndsWhereItBegan
=============================================================================
