---------------------------- MODULE TokenRegistry ----------------------------
(***************************************************************************)
(* What app/auth promises of its tokens, without lists, replies and jobs:  *)
(* a registry of the valid tokens of each user, and requests that are      *)
(* asked, authorised and served.  AuthTokensRegistry shows that the code   *)
(* keeps the promise.                                                      *)
(***************************************************************************)
EXTENDS Integers

CONSTANTS
  Users, Reqs,
  AccessTTL, RefreshTTL   \* in seconds

VARIABLES
  clock,    \* in seconds
  status,   \* status[u]: the status of the user
  valid,    \* valid[k][u]: the tokens registered
  held,     \* held[u]: token pairs that reached the client
  serving   \* serving[r]: the request

vars == <<clock, status, valid, held, serving>>

Kinds    == {"access", "refresh"}
Statuses == {"PENDING", "ACTIVE", "BANNED"}
NoToken  == -1
None     == [stage |-> "none"]

Alive(k, t) == clock < t + (IF k = "access" THEN AccessTTL ELSE RefreshTTL)

BearerKind(op) == IF op = "refresh" THEN "refresh" ELSE "access"

Init ==
  /\ clock = 0
  /\ status \in [Users -> {"PENDING", "ACTIVE"}]
  /\ valid = [k \in Kinds |-> [u \in Users |-> {}]]
  /\ held = [u \in Users |-> {}]
  /\ serving = [r \in Reqs |-> None]

-----------------------------------------------------------------------------
Asked(op, u, t, arg, bearer) ==
  [stage |-> "asked", op |-> op, user |-> u, token |-> t, arg |-> arg,
   bearer |-> bearer, since |-> clock]

Login(r, u) ==
  /\ serving[r] = None
  /\ serving' = [serving EXCEPT ![r] = Asked("login", u, NoToken, NoToken, "valid")]
  /\ UNCHANGED <<clock, status, valid, held>>

\* A client presents a token that has time left.  What counts is whether the
\* token is valid now.
Present(r, op, u, t, arg) ==
  LET k == BearerKind(op)
  IN
  /\ serving[r] = None
  /\ t \in held[u] /\ Alive(k, t)
  /\ arg = NoToken \/ (op = "signout" /\ arg \in held[u])
  /\ serving' = [serving EXCEPT ![r] =
       Asked(op, u, t, arg, IF t \in valid[k][u] THEN "valid" ELSE "void")]
  /\ UNCHANGED <<clock, status, valid, held>>

\* Only a valid token of a user that is active.
Authorise(r) ==
  /\ serving[r].stage = "asked" /\ serving[r].bearer = "valid"
  /\ status[serving[r].user] = "ACTIVE"
  /\ serving' = [serving EXCEPT ![r].stage = "authorised"]
  /\ UNCHANGED <<clock, status, valid, held>>

\* Signout of its access token and then of the refresh token it names; a refresh
\* of the token presented.  The token is gone, but that it may be signed again,
\* the same string, within the second the request came in.
Revoke(r, k) ==
  LET q == serving[r]
      t == IF q.op = "signout" /\ k = "refresh" THEN q.arg ELSE q.token
  IN
  /\ q.stage = "authorised"
  /\ q.op = "signout" \/ (q.op = "refresh" /\ k = "refresh")
  /\ \/ valid' = [valid EXCEPT ![k][q.user] = @ \ {t}]
     \/ t = q.since /\ UNCHANGED valid
  /\ serving' = IF q.op = "refresh" THEN [serving EXCEPT ![r].stage = "spent"]
                ELSE IF k = "refresh" THEN [serving EXCEPT ![r] = None]
                ELSE serving
  /\ UNCHANGED <<clock, status, held>>

\* A pair is signed for a login, or for a refresh token that was given up.
Issue(r) ==
  LET q == serving[r]
  IN
  /\ (q.stage = "authorised" /\ q.op = "login") \/ q.stage = "spent"
  /\ valid' = [k \in Kinds |-> [valid[k] EXCEPT ![q.user] = @ \cup {clock}]]
  /\ serving' = [serving EXCEPT ![r].stage = "signed", ![r].token = clock]
  /\ UNCHANGED <<clock, status, held>>

\* Tokens of u whose time is over leave the registry, no others.
Purged(u) ==
  \E gone \in [Kinds -> SUBSET UNION {valid[k][u] : k \in Kinds}] :
    /\ \A k \in Kinds : \A t \in gone[k] : ~Alive(k, t)
    /\ valid' = [k \in Kinds |-> [valid[k] EXCEPT ![u] = @ \ gone[k]]]

Answer(r) ==
  /\ serving[r].stage = "signed"
  /\ held' = [held EXCEPT ![serving[r].user] = @ \cup {serving[r].token}]
  /\ Purged(serving[r].user)
  /\ serving' = [serving EXCEPT ![r] = None]
  /\ UNCHANGED <<clock, status>>

\* The request is refused, or was served.
Drop(r) ==
  /\ serving' = [serving EXCEPT ![r] = None]
  /\ UNCHANGED <<clock, status, valid, held>>

\* All tokens of the user go only for a refresh token that was no longer valid
\* when presented, or whose time is over.
RevokeAll(r) ==
  LET q == serving[r]
  IN
  /\ q.stage = "asked" /\ q.op = "refresh"
  /\ q.bearer = "void" \/ ~Alive("refresh", q.token)
  /\ valid' = [k \in Kinds |-> [valid[k] EXCEPT ![q.user] = {}]]
  /\ serving' = [serving EXCEPT ![r] = None]
  /\ UNCHANGED <<clock, status, held>>

Purge(u) == Purged(u) /\ UNCHANGED <<clock, status, held, serving>>

SetStatus(u, s) ==
  /\ status' = [status EXCEPT ![u] = s]
  /\ UNCHANGED <<clock, valid, held, serving>>

Tick ==
  /\ clock' = clock + 1
  /\ UNCHANGED <<status, valid, held, serving>>

Restart ==
  /\ serving' = [r \in Reqs |-> None]
  /\ UNCHANGED <<clock, status, valid, held>>

Next ==
  \/ \E r \in Reqs, u \in Users :
       \/ Login(r, u)
       \/ \E op \in {"me", "signout", "refresh"}, t \in held[u],
             arg \in held[u] \cup {NoToken} : Present(r, op, u, t, arg)
  \/ \E r \in Reqs :
       \/ Authorise(r) \/ Issue(r) \/ Answer(r) \/ Drop(r) \/ RevokeAll(r)
       \/ \E k \in Kinds : Revoke(r, k)
  \/ \E u \in Users : Purge(u) \/ \E s \in Statuses : SetStatus(u, s)
  \/ Tick \/ Restart

Spec == Init /\ [][Next]_vars
=============================================================================
