-------------------------- MODULE AuthTokensRegistry --------------------------
(***************************************************************************)
(* AuthTokens implements TokenRegistry.  A history variable remembers the  *)
(* second each request came in; it restricts no step.                      *)
(***************************************************************************)
EXTENDS AuthTokens

VARIABLE since   \* since[r]: the second request r came in

Remember ==
  since' = [r \in Reqs |->
    IF req'[r] = Idle THEN 0 ELSE IF req[r] = Idle THEN SignedNow ELSE since[r]]

RegistryVars == <<vars, since>>

RecordedInit == since = [r \in Reqs |-> 0] /\ Init

RecordedNext == Next /\ Remember

RecordedSpec == RecordedInit /\ [][RecordedNext]_RegistryVars

-----------------------------------------------------------------------------
\* The refinement mapping: the tokens that have an entry are valid, and a user
\* query that returned ACTIVE authorises.

Stage(q) ==
  CASE q.pc = "cleanup" -> "signed"
    [] q.pc = "issue"   -> "spent"
    [] \/ q.pc \in {"password", "revokeAccess", "revokeRefresh", "revoke"}
       \/ q.pc = "haveUser" /\ q.active -> "authorised"
    [] OTHER            -> "asked"

Served(q, second) ==
  IF q = Idle THEN [stage |-> "none"]
  ELSE [stage |-> Stage(q), op |-> q.op, user |-> q.user, token |-> q.token,
        arg |-> q.arg, bearer |-> IF q.replay THEN "void" ELSE "valid", since |-> second]

serving == [r \in Reqs |-> Served(req[r], since[r])]

Tokens(entries) == {e.token : e \in entries}

valid == [k \in Kinds |-> [u \in Users |-> Tokens(whitelist[k][u])]]

Registry == INSTANCE TokenRegistry WITH clock <- SignedNow

\* Every step of the token code is a step of the registry or changes nothing
\* there: stale replies, sweeps and restarts never take a live token from it or
\* serve a token that is not in it (auth.service.ts, both strategies).
ImplementsRegistry == Registry!Spec

-----------------------------------------------------------------------------
\* The inductive invariant of the refinement: what a revocation leaves behind
\* was signed after it read the list, within the second of the request.

Revoking(q, k) ==
  \/ k = "access"  /\ q.pc = "revokeAccess"
  \/ k = "refresh" /\ q.pc \in {"revokeAccess", "revokeRefresh", "revoke"}

Target(q, k) == IF q.op = "signout" /\ k = "refresh" THEN q.arg ELSE q.token

\* An operation's places.
PlacesOf(op) ==
  CASE op = "login"   -> {"readUser", "haveUser", "password", "cleanup"}
    [] op = "me"      -> {"whitelist", "readUser", "haveUser"}
    [] op = "signout" -> {"whitelist", "readUser", "haveUser", "revokeAccess",
                          "revokeRefresh"}
    [] op = "refresh" -> {"whitelist", "readUser", "haveUser", "revoke", "issue",
                          "cleanup"}

\* Of a request, the second it came in, the lists and the second it is.
Recorded(q, second, lists, sec) ==
  q # Idle =>
    /\ q.pc \in PlacesOf(q.op)
    /\ second \in Nat /\ second <= sec
    /\ q.op # "login" /\ q.pc # "cleanup" => q.token <= second
    /\ q.pc = "cleanup" => q.token <= sec
    /\ q.arg <= second
    /\ \A k \in Kinds : Revoking(q, k) =>
         \A e \in OfToken(lists[k][q.user], Target(q, k)) \ q.seen[k] :
           e.token = second

RegistryInv ==
  /\ IInv
  /\ since \in [Reqs -> Nat]
  /\ \A u \in Users : \A t \in held[u] : t <= SignedNow
  /\ \A r \in Reqs : Recorded(req[r], since[r], whitelist, SignedNow)
=============================================================================
