-------------------------- MODULE AuthTokensReuse --------------------------
(***************************************************************************)
(* AuthTokens with two history variables, to ask what the comment in       *)
(* jwt-refresh-token.strategy.ts, "reuse-token => remove all tokens",      *)
(* promises.  The histories observe the steps and restrict none.           *)
(***************************************************************************)
EXTENDS AuthTokens

VARIABLES
  spent,   \* spent[u]: refresh tokens exchanged for a new pair
  wiped    \* wiped[u]: refresh tokens that were out when all were removed

\* Request r takes the step that signs and saves a pair.
Issues(r) ==
  /\ At(r, "password") \/ At(r, "issue")
  /\ req'[r].pc = "cleanup"

\* The refresh tokens of u that this step exchanges, and those it signs: the
\* same string may be signed anew within its second, and is then a new token.
Exchanged(u) == {req[r].token : r \in {s \in Reqs : At(s, "issue") /\ Issues(s)
                                                      /\ req[s].user = u}}
Signed(u) == IF \E r \in Reqs : Issues(r) /\ req[r].user = u
             THEN {SignedNow} ELSE {}

Observe ==
  /\ spent' = [u \in Users |-> (spent[u] \cup Exchanged(u)) \ Signed(u)]
  /\ wiped' = [u \in Users |->
       IF \E r \in Reqs : RevokeAll(r) /\ req[r].user = u
       THEN held[u] ELSE wiped[u] \ Signed(u)]

ReuseVars == <<vars, spent, wiped>>
Nothing == [u \in Users |-> {}]

ReuseSpec ==
  /\ Init /\ spent = Nothing /\ wiped = Nothing
  /\ [][Next /\ Observe]_ReuseVars

\* A refresh token already exchanged for a pair is not exchanged for a second
\* one: its reuse is noticed (JwtRefreshTokenStrategy.validate, line 45).
ReuseNeverIssues ==
  [][\A r \in Reqs : At(r, "issue") /\ Issues(r) =>
       req[r].token \notin spent[req[r].user]]_ReuseVars

\* Once all tokens of a user were removed, a refresh token that was out by
\* then yields no new pair (JwtRefreshTokenStrategy.validate, lines 45-51).
WipeIsFinal ==
  [][\A r \in Reqs : At(r, "issue") /\ Issues(r) =>
       req[r].token \notin wiped[req[r].user]]_ReuseVars

-----------------------------------------------------------------------------
\* Why both fail only by concurrency: nothing in the code keeps two requests
\* of one user apart, and when they are, both hold.

\* No two requests of one user are being served.
OneRequestEach ==
  \A r, s \in Reqs :
    r # s /\ ~At(r, "idle") /\ ~At(s, "idle") => req[r].user # req[s].user

Barred(u) == spent[u] \cup wiped[u]

\* A refresh that the strategy has let in, or is about to.
Exchanging(q) ==
  \/ q.pc \in {"readUser", "haveUser", "revoke", "issue"} /\ q.op = "refresh"
  \/ q.pc = "whitelist" /\ q.op = "refresh" /\ q.seen["refresh"] # {}

RefreshSound(r) ==
  LET q == req[r]
      entries == OfToken(whitelist["refresh"][q.user], q.token)
  IN
  /\ Exchanging(q) => q.token \notin Barred(q.user)
  /\ q.pc = "revoke" => q.op = "refresh" /\ entries \subseteq q.seen["refresh"]
  /\ q.pc = "issue"  => q.op = "refresh" /\ entries = {}

BarredUnlisted ==
  \A u \in Users : \A t \in Barred(u) : ~Listed("refresh", u, t)

\* While no user has two requests under way, spent and wiped tokens stay off
\* the list, no refresh under way bears one, and a rotation removes every entry
\* of its token (refreshAccessToken, JwtRefreshTokenStrategy.validate).
ReuseInv == BarredUnlisted /\ \A r \in Reqs : RefreshSound(r)
=============================================================================
