------------------------------ MODULE MCGoogle ------------------------------
(***************************************************************************)
(* GoogleAccounts and GoogleLogin for TLC: a behaviour is either one of    *)
(* concurrent requests that authenticate, or one of tabs that log in.      *)
(***************************************************************************)
EXTENDS GoogleLogin

CONSTANTS p1, p2, e1, e2, e3, v1, v2, s1

Moving(p) == CASE p = p1 -> e1 [] p = p2 -> e2
\* Two of the addresses differ in the domain only.
BeforeTheAt(e) == CASE e \in {e1, e2} -> "n" [] OTHER -> "m"
FirstOf == [p \in {p1, p2} |-> Moving(p)]
LocalPartOf == [e \in {e1, e2, e3} |-> BeforeTheAt(e)]
\* A view that asks for an OAuth session only, and one that asks for a scope.
ViewNeeds == [v \in {v1, v2} |-> IF v = v2 THEN {s1} ELSE {}]

VARIABLE part
vars == <<part, accountVars, loginVars>>

\* The account of p2, linked by one backend or both, when p2 has another address
\* by now, and p1 that address.
Inherited ==
  /\ account \in {[a \in Accounts |-> IF a # 1 THEN Absent ELSE
                     [iap |-> i, oauth |-> o, email |-> e1, username |-> <<"n", 0>>]] :
                  i \in {None, p2}, o \in {None, p2}}
  /\ address = FirstAddress
  /\ held = [e \in Addresses |->
               {p \in People : FirstAddress[p] = e} \cup IF e = e1 THEN {p2} ELSE {}]
  /\ request = [r \in Requests |-> Idle]
  /\ conflicted = {}

\* A session whose expiry is linked to an exempt login, or not, or nothing.
Settings == [linked : BOOLEAN, exempt : BOOLEAN] \ {[linked |-> FALSE, exempt |-> TRUE]}

Init ==
  /\ LoginInit
  /\ \/ part = "accounts" /\ (AccountsInit \/ Inherited) /\ header = None
        /\ settings = [linked |-> FALSE, exempt |-> FALSE] /\ disturbances = 0
     \/ part = "login" /\ AccountsInit /\ header \in {None, p1}
        /\ settings \in Settings /\ disturbances = 0
     \/ part = "login" /\ Inherited /\ header = None /\ disturbances = MaxDisturbances
        /\ settings = [linked |-> FALSE, exempt |-> FALSE]
Next == UNCHANGED part /\ (\/ part = "accounts" /\ AccountsNext /\ UNCHANGED loginVars
                           \/ part = "login" /\ LoginNext)
Spec == Init /\ [][Next]_vars
FairSpec == Spec /\ LoginFairness
=============================================================================
