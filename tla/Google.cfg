\* Accounts: two people, two requests at a time, an address that passes on.
\* Login: two tabs of one session, one disturbance.
SPECIFICATION FairSpec
CONSTANTS
  p1 = p1
  p2 = p2
  e1 = e1
  e2 = e2
  e3 = e3
  v1 = v1
  v2 = v2
  s1 = s1
  t1 = t1
  t2 = t2
  None = None
  People = {p1, p2}
  Accounts = {1, 2, 3, 4, 5}
  Addresses = {e1, e2, e3}
  FirstAddress <- FirstOf
  LocalPart <- LocalPartOf
  MaxMoves = 1
  Digits = 1
  Requests = {r1, r2}
  Tabs = {t1, t2}
  Views = {v1, v2}
  Scopes = {s1}
  Needs <- ViewNeeds
  DefaultScopes = {}
  MaxOpened = 2
  MaxDisturbances = 1
CHECK_DEADLOCK FALSE
INVARIANTS OneAccountEach SessionNamesItsPerson
PROPERTIES LinksArePermanent EndsWhereItBegan LoneTabArrives
