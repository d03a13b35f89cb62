----------------------------- MODULE GoogleLogin -----------------------------
(***************************************************************************)
(* Logging in with contrib/googleauth: one browser with one Django session *)
(* and several tabs.  AuthenticationMiddleware (middleware.py) looks at    *)
(* the session and at the headers of IAP; a view that needs OAuth scopes   *)
(* (decorators.py) sends its tab through oauth_login, Google's consent     *)
(* page and oauth2callback (views.py), and back.  What the tabs share is   *)
(* the session: whom it belongs to, the state and the return address of    *)
(* the last dance that was begun, and the scopes the last view asked for.  *)
(*                                                                         *)
(* A request is atomic: it reads the session first and stores it last, as  *)
(* a whole.  Accounts are found and linked as GoogleAccounts describes,    *)
(* here in one step.                                                       *)
(***************************************************************************)
EXTENDS GoogleAccounts

CONSTANTS
  Tabs,
  Views, Scopes,
  Needs,           \* the scopes oauth_scopes_required demands for each view
  DefaultScopes,   \* GOOGLEAUTH_OAUTH_SCOPES
  MaxDisturbances, \* bound on what interferes from outside
  MaxOpened        \* bound on the pages the user opens

ASSUME ScopesAssumption ==
  /\ Needs \in [Views -> SUBSET Scopes] /\ DefaultScopes \subseteq Scopes
  /\ None \notin Views \cup Tabs \cup {"iap", "oauth"}
  /\ MaxDisturbances \in Nat /\ MaxOpened \in Nat

VARIABLES
  settings,     \* linked: GOOGLEAUTH_LINK_OAUTH_SESSION_EXPIRY; exempt: is
                \* request.resolver_match known in process_request, as the tests
                \* set it?  (Django itself sets it later.)
  session,      \* the Django session
  tab,          \* where each tab is
  oauthSession, \* the OAuthUserSession of each person
  header,       \* whom the headers of IAP name
  disturbances,
  opened

loginVars == <<settings, session, tab, oauthSession, header, disturbances, opened>>

\* user, backend: SESSION_KEY and BACKEND_SESSION_KEY; person: observer, whom the
\* backend that logged in knew to be there, by the consent page or by the headers
\* of IAP; state: the tab for whose dance the
\* last state was drawn (a tab is in one dance at a time); stash: what
\* _stash_scopes has left.
Flushed == [user |-> None, backend |-> None, person |-> None,
            state |-> None, next |-> None, stash |-> {}]

\* at: "visit", about to request the view next; "login", redirected to
\* oauth_login, with ?next= or without; "google", on the consent page; "back",
\* about to request oauth2callback; "idle", served or closed.
Closed == [at |-> "idle", next |-> None, asked |-> {}, person |-> None]

NoOAuthSession == [exists |-> FALSE, scopes |-> {}, valid |-> FALSE]

LoginInit ==
  /\ settings \in [linked : BOOLEAN, exempt : BOOLEAN]
  /\ session = Flushed
  /\ tab = [t \in Tabs |-> Closed]
  /\ oauthSession = [p \in People |-> NoOAuthSession]
  /\ header \in People \cup {None}
  /\ disturbances \in 0..MaxDisturbances /\ opened = 0
-----------------------------------------------------------------------------
Among(users) == INSTANCE GoogleAccounts WITH account <- users

\* The ways authenticate() of a backend may end well: the account and what is
\* stored for it.  When Accounts is used up, it fails.
Authenticated(users, kind, p) ==
  LET e     == address[p]
      found == Among(users)!Match(kind, p, e)
      new   == Accounts \ Among(users)!Stored
      write == IF found # {} THEN {<<a, Linked(kind, users[a], p, e)>> : a \in found}
               ELSE IF new = {} THEN {}
               ELSE {<<CHOOSE a \in new : TRUE, Created(kind, p, e, name)>> :
                       name \in Among(users)!UnusedUsernames(LocalPart[e])}
  IN IF Among(users)!Refused(kind, p, e) THEN {}
     ELSE {w \in write : ~Among(users)!Repeats(w[1], w[2])}

\* The OAuthUserSession of an account (of none, if it was never linked).
OAuthSessionOf(users, user) ==
  IF user = None THEN NoOAuthSession
  ELSE IF users[user].oauth = None THEN NoOAuthSession ELSE oauthSession[users[user].oauth]

\* request.user at first (get_user_object): only OAuthBackend gives the user of a
\* session back; IAPBackend inherits a get_user that returns None, and a session
\* that IAP has begun is anonymous at every request.
RequestUser == IF session.backend = "oauth" THEN session.user ELSE None

OAuthExpired ==
  settings.linked /\ RequestUser # None /\ ~OAuthSessionOf(account, RequestUser).valid

\* Django's login(): another user's session is emptied first.
LogIn(s, a, kind, p) ==
  [(IF s.user \in {None, a} THEN s ELSE Flushed) EXCEPT !.user = a, !.backend = kind, !.person = p]

\* What process_request leaves of the session and the accounts, request.user, and
\* whether the request goes on, is sent to the login, or is answered with an error.
Outcome(s, users, user, verdict) ==
  [session |-> s, account |-> users, user |-> user, verdict |-> verdict]
GoesOn == Outcome(session, account, RequestUser, "go")
Middleware ==
  IF OAuthExpired THEN
    \* Deleted: log out.  Expired: to the login.
    {IF OAuthSessionOf(account, RequestUser).exists
     THEN Outcome(session, account, RequestUser, "login") ELSE Outcome(Flushed, account, None, "go")}
  ELSE IF RequestUser # None \/ header = None THEN {GoesOn}
  \* IAP names somebody to whom the session need not belong: authenticate again.
  ELSE IF Authenticated(account, "iap", header) = {} THEN {Outcome(session, account, None, "error")}
  ELSE {Outcome(LogIn(session, w[1], "iap", header), [account EXCEPT ![w[1]] = w[2]], w[1], "go") :
          w \in Authenticated(account, "iap", header)}

\* The views marked with auth_middleware_exempt.
ExemptMiddleware == IF settings.exempt THEN {GoesOn} ELSE Middleware

LoginPath == "login"
CallbackPath == "callback"
Redirected(v) == [Closed EXCEPT !.at = "login", !.next = v]
\* A redirect to a return address; to the callback, it lacks the state and is a
\* bad request.
GoTo(v) == CASE v \in Views -> [Closed EXCEPT !.at = "visit", !.next = v]
             [] v = LoginPath -> Redirected(None)
             [] OTHER -> Closed

\* The middleware answers the request for path itself.
Turned(t, m, path) ==
  /\ m.verdict # "go"
  /\ tab' = [tab EXCEPT ![t] = IF m.verdict = "login" THEN Redirected(path) ELSE Closed]
  /\ account' = m.account /\ session' = m.session
  /\ UNCHANGED oauthSession

external == <<address, held, request, conflicted, settings, header, disturbances, opened>>

\* Mutated form of Asked: the scopes are not remembered.
AskedNothing(v, o) == {}
\* _stash_scopes: those needed, and those that were granted before.
Asked(v, o) == IF o.exists THEN o.scopes \cup Needs[v] ELSE Needs[v]

\* A request for a view under oauth_scopes_required.
Visit(t) ==
  /\ tab[t].at = "visit"
  /\ LET v == tab[t].next
     IN \E m \in Middleware :
          \/ Turned(t, m, v)
          \/ LET o == OAuthSessionOf(m.account, m.user)
                 granted == o.exists /\ Needs[v] \subseteq o.scopes
             IN /\ m.verdict = "go"
                /\ tab' = [tab EXCEPT ![t] = IF granted THEN Closed ELSE Redirected(v)]
                /\ session' = IF granted THEN m.session
                                         ELSE [m.session EXCEPT !.stash = Asked(v, o)]
                /\ account' = m.account
                /\ UNCHANGED oauthSession
  /\ UNCHANGED external
-----------------------------------------------------------------------------
\* Mutated form of Remember: the first return address is kept.
RememberFirst(s, next) == IF s.next # None THEN s.next ELSE next
\* oauth_login: the return address replaces an older one, if there is one.
Remember(s, next) == IF next # None THEN next ELSE s.next

OAuthLogin(t) ==
  /\ tab[t].at = "login"
  /\ \E m \in ExemptMiddleware :
       \/ Turned(t, m, LoginPath)
       \/ /\ m.verdict = "go"
          /\ session' = [m.session EXCEPT !.stash = {}, !.state = t,
                           !.next = Remember(m.session, tab[t].next)]
          /\ tab' = [tab EXCEPT ![t].at = "google",
                       ![t].asked = DefaultScopes \cup m.session.stash]
          /\ account' = m.account
          /\ UNCHANGED oauthSession
  /\ UNCHANGED external

\* The user picks a Google account and grants the scopes.
Consent(t, p) ==
  /\ tab[t].at = "google"
  /\ tab' = [tab EXCEPT ![t].at = "back", ![t].person = p]
  /\ UNCHANGED <<accountVars, settings, session, oauthSession, header, disturbances, opened>>

Matches(s, t) == s.state = t

\* The token is stored in the person's OAuthUserSession.
Granted(t) == [oauthSession EXCEPT ![tab[t].person] =
                 [exists |-> TRUE, scopes |-> tab[t].asked, valid |-> TRUE]]

\* Mutated form of LoggedIn: the user of the session stays.
LoggedInBeside(s, user, a, p) ==
  IF s.user # None THEN [s EXCEPT !.backend = "oauth", !.person = p] ELSE LogIn(s, a, "oauth", p)
\* logout() of the user of the request clears the session.
LoggedIn(s, user, a, p) == LogIn(IF user # None THEN Flushed ELSE s, a, "oauth", p)

\* An error answers the request, and SessionMiddleware saves nothing: if the
\* middleware has changed the session, the stored one is gone.
Unsaved(m) == IF m.session = session THEN session ELSE Flushed

Returning(t) == tab[t].at = "back"

\* oauth2callback turned away by the middleware, as it is not exempt.
CallbackTurned(t) ==
  /\ Returning(t)
  /\ \E m \in ExemptMiddleware : Turned(t, m, CallbackPath)
  /\ UNCHANGED external

\* The session has no state: a bad request.  The states differ, or the token
\* does not verify: back to the return address, a bad request without one.
CallbackFails(t) ==
  /\ Returning(t)
  /\ \E m \in ExemptMiddleware :
       /\ m.verdict = "go"
       /\ tab' = [tab EXCEPT ![t] = IF m.session.state = None THEN Closed
                                                              ELSE GoTo(m.session.next)]
       /\ session' = m.session /\ account' = m.account
       /\ \/ ~Matches(m.session, t) /\ UNCHANGED disturbances
          \/ /\ Matches(m.session, t) /\ disturbances < MaxDisturbances
             /\ disturbances' = disturbances + 1
  /\ UNCHANGED <<address, held, request, conflicted, settings, oauthSession, header, opened>>

\* The states match: the account is found, linked or created, and logged in.
\* Or authenticate() raises; the OAuthUserSession has been stored by then.
CallbackAuthenticates(t) ==
  /\ Returning(t)
  /\ \E m \in ExemptMiddleware :
       /\ m.verdict = "go" /\ Matches(m.session, t)
       /\ oauthSession' = Granted(t)
       /\ \/ \E w \in Authenticated(m.account, "oauth", tab[t].person) :
               /\ account' = [m.account EXCEPT ![w[1]] = w[2]]
               /\ session' = LoggedIn(m.session, m.user, w[1], tab[t].person)
               /\ tab' = [tab EXCEPT ![t] = GoTo(m.session.next)]
          \/ /\ Authenticated(m.account, "oauth", tab[t].person) = {}
             /\ tab' = [tab EXCEPT ![t] = Closed]
             /\ account' = m.account /\ session' = Unsaved(m)
  /\ UNCHANGED external

Callback(t) == CallbackTurned(t) \/ CallbackFails(t) \/ CallbackAuthenticates(t)
-----------------------------------------------------------------------------
\* The user opens a view, or the login page itself.
Open(t) ==
  /\ tab[t].at = "idle" /\ opened < MaxOpened
  /\ opened' = opened + 1
  /\ \E c \in {GoTo(v) : v \in Views} \cup {Redirected(None)} : tab' = [tab EXCEPT ![t] = c]
  /\ UNCHANGED <<accountVars, settings, session, oauthSession, header, disturbances>>

\* The user leaves the consent page.
Decline(t) ==
  /\ tab[t].at = "google"
  /\ tab' = [tab EXCEPT ![t] = Closed]
  /\ UNCHANGED <<accountVars, settings, session, oauthSession, header, disturbances, opened>>

Disturb ==
  /\ disturbances < MaxDisturbances
  /\ disturbances' = disturbances + 1
  /\ UNCHANGED <<accountVars, settings, tab, opened>>

\* A token expires; its record is deleted; the headers of IAP appear, change or
\* disappear; the user logs out.
TokenExpires(p) ==
  /\ oauthSession[p].valid /\ Disturb
  /\ oauthSession' = [oauthSession EXCEPT ![p].valid = FALSE]
  /\ UNCHANGED <<session, header>>
RecordDeleted(p) ==
  /\ oauthSession[p].exists /\ Disturb
  /\ oauthSession' = [oauthSession EXCEPT ![p] = NoOAuthSession]
  /\ UNCHANGED <<session, header>>
HeadersChange ==
  /\ Disturb
  /\ header' \in (People \cup {None}) \ {header}
  /\ UNCHANGED <<session, oauthSession>>
Logout ==
  /\ session # Flushed /\ Disturb
  /\ session' = Flushed
  /\ UNCHANGED <<oauthSession, header>>

TabStep(t) == Visit(t) \/ OAuthLogin(t) \/ Callback(t) \/ \E p \in People : Consent(t, p)

LoginNext ==
  \/ \E t \in Tabs : TabStep(t) \/ Open(t) \/ Decline(t)
  \/ \E p \in People : TokenExpires(p) \/ RecordDeleted(p)
  \/ HeadersChange \/ Logout

LoginSpec ==
  AccountsInit /\ LoginInit /\ [][LoginNext]_<<accountVars, loginVars>>

LoginFairness == \A t \in Tabs : WF_<<accountVars, loginVars>>(TabStep(t))
-----------------------------------------------------------------------------
\* A dance that was begun with a return address ends there, if it succeeds,
\* whatever other tabs have begun or finished in between (views.py:104-107,
\* 219-230, 311): the state and the return address of the session belong
\* together.
EndsWhereItBegan ==
  [][\A t \in Tabs :
       /\ Returning(t) /\ tab[t].next \in Views
       /\ tab'[t].at = "visit" /\ oauthSession' # oauthSession
       => tab'[t].next = tab[t].next]_<<accountVars, loginVars>>

\* Whoever a session belongs to is the person that its backend has seen last: the
\* one who went through Google's consent page or whom the headers of IAP named,
\* also if somebody else was logged in before, by either or in another tab
\* (middleware.py:133-164, views.py:277-293, iap.py:97-142, oauth2.py:44-66).
SessionNamesItsPerson ==
  /\ session.backend = "oauth" => account[session.user].oauth = session.person
  /\ session.backend = "iap" => account[session.user].iap = session.person

\* A tab used alone comes to an end: the view is served, or an error is
\* (middleware.py:84-164, decorators.py:32-64, views.py:97-311).  Two tabs may
\* take the state from each other for ever.  It does not hold if sessions expire
\* with their token and the login is not exempt: the middleware sends the request
\* for the login to the login.
LoneTabArrives ==
  \A t \in Tabs :
    /\ settings.linked => settings.exempt
    /\ <>[](\A u \in Tabs \ {t} : tab[u].at = "idle")
    => []<>(tab[t].at = "idle")
=============================================================================
