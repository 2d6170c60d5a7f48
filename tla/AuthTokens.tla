----------------------------- MODULE AuthTokens -----------------------------
(***************************************************************************)
(* The life of access and refresh tokens in app/auth: login, the two       *)
(* passport strategies, signout, refresh with rotation and reuse           *)
(* detection, the clean-up of expired whitelist entries, its midnight      *)
(* cron, and the restart of the server.                                    *)
(*                                                                         *)
(* The server is one Node process with one Redis connection: code between  *)
(* two awaits runs undisturbed, and Redis commands take effect in the      *)
(* order they are sent.  An action is therefore everything from one await  *)
(* to the next; what a command returned is kept in the request until the   *)
(* continuation that uses it runs.                                         *)
(*                                                                         *)
(* A JWT is determined by its kind, its user and its iat, the second it    *)
(* was signed in, so a token is represented by its iat.                    *)
(***************************************************************************)
EXTENDS Integers, FiniteSets

CONSTANTS
  Users,            \* rows of the User table
  Reqs,             \* requests the server may be serving at one time
  TicksPerSecond,   \* resolution of Date: 1000 in the code
  AccessTTL,        \* accessExpiresIn, in seconds
  RefreshTTL,       \* refreshExpiresIn, in seconds
  MaxNow,           \* bound: the clock stops here
  MaxDisruptions    \* bound: restarts of the server and bans

ASSUME TicksAssumption == TicksPerSecond \in Nat \ {0}
ASSUME TTLAssumption   == AccessTTL \in Nat \ {0} /\ RefreshTTL \in Nat \ {0}
ASSUME BoundAssumption == MaxNow \in Nat /\ MaxDisruptions \in Nat

VARIABLES
  now,        \* the clock, in ticks
  status,     \* status[u]: the status column of the user's row
  whitelist,  \* whitelist[k][u]: the Redis set AT<u> or RT<u>
  req,        \* req[r]: what the server knows about request r
  cron,       \* the midnight job
  disruptions,\* restarts and bans so far
  held,       \* held[u]: token pairs (their iat) that reached the client
  revoked     \* history: revoked[k][u], tokens a revocation took off the list

vars == <<now, status, whitelist, req, cron, disruptions, held, revoked>>

Kinds    == {"access", "refresh"}
Statuses == {"PENDING", "ACTIVE", "BANNED"}
NoToken  == -1           \* a string that is no token of this user

TTL(k) == IF k = "access" THEN AccessTTL ELSE RefreshTTL

\* The members of a whitelist: {"token": ..., "expiresIn": <ms timestamp>}.
Entry == [token : Nat, expiresIn : Nat]

Seconds(n) == n \div TicksPerSecond

\* The iat sign() puts in a token made now.
SignedNow == Seconds(now)

\* Mutants: the sign of the TTL, and seconds taken for milliseconds.
EntryNow_Past(k) == [token     |-> SignedNow,
                     expiresIn |-> now - TTL(k) * TicksPerSecond]
EntryNow_Unscaled(k) == [token |-> SignedNow, expiresIn |-> now + TTL(k)]

\* What saveJwtToken stores for it.
EntryNow(k) == [token     |-> SignedNow,
                expiresIn |-> now + TTL(k) * TicksPerSecond]

\* jsonwebtoken accepts while floor(now) < iat + expiresIn.
JwtAlive(k, t) == Seconds(now) < t + TTL(k)

\* checkValidToken without a token to compare with.
NotExpired(e) == now < e.expiresIn

OfToken(entries, t) == {e \in entries : e.token = t}
Listed(k, u, t) == \E e \in whitelist[k][u] : e.token = t

Idle == [pc |-> "idle"]

PCs == {"whitelist", "readUser", "haveUser", "password", "revokeAccess",
        "revokeRefresh", "revoke", "issue", "cleanup"}

Request ==
  [pc     : PCs,
   op     : {"login", "me", "signout", "refresh"},
   user   : Users,
   token  : Nat \cup {NoToken},        \* the bearer token; after issue, the new pair
   arg    : Nat \cup {NoToken},        \* signout's refreshToken argument
   active : BOOLEAN,                   \* the status the user query returned
   replay : BOOLEAN,                   \* history: was the bearer token revoked when sent
   seen   : [Kinds -> SUBSET Entry]]   \* SMEMBERS replies not yet used

CronJob ==
  [pc   : {"idle", "next", "cleanup"},
   todo : SUBSET Users,
   user : SUBSET Users,                \* the user being cleaned, if any
   seen : [Kinds -> SUBSET Entry]]

NothingSeen == [k \in Kinds |-> {}]
CronIdle == [pc |-> "idle", todo |-> {}, user |-> {}, seen |-> NothingSeen]

Init ==
  /\ now = 0
  /\ status \in [Users -> {"PENDING", "ACTIVE"}]
  /\ whitelist = [k \in Kinds |-> [u \in Users |-> {}]]
  /\ req = [r \in Reqs |-> Idle]
  /\ cron = CronIdle
  /\ disruptions = 0
  /\ held = [u \in Users |-> {}]
  /\ revoked = [k \in Kinds |-> [u \in Users |-> {}]]

-----------------------------------------------------------------------------
\* Steps shared by the handlers.

At(r, pc) == req[r].pc = pc
Goto(r, pc) == req' = [req EXCEPT ![r].pc = pc]
Finish(r) == req' = [req EXCEPT ![r] = Idle]

\* A new request.  seen holds, of each list, the entries the handler will
\* look at when the reply arrives: those of the bearer token.
Begin(r, pc, op, u, t, arg, replay, seen) ==
  /\ req[r] = Idle
  /\ req' = [req EXCEPT ![r] =
       [pc |-> pc, op |-> op, user |-> u, token |-> t, arg |-> arg,
        active |-> FALSE, replay |-> replay, seen |-> seen]]

\* passport verifies the JWT, then validateJwtToken sends SMEMBERS.
Present(r, op, k, u, t, arg) ==
  /\ t \in held[u]
  /\ JwtAlive(k, t)
  /\ Begin(r, "whitelist", op, u, t, arg, t \in revoked[k][u],
           [NothingSeen EXCEPT ![k] = OfToken(whitelist[k][u], t)])
  /\ UNCHANGED <<now, status, whitelist, cron, disruptions, held, revoked>>

\* validateJwtToken: some entry of the reply is the token and has not expired.
InWhitelist(r, k) == \E e \in req[r].seen[k] : NotExpired(e)

\* SREM of entries that were read earlier.  History: the targeted tokens with
\* no entry left are revoked.
Remove(k, u, entries, target) ==
  /\ whitelist' = [whitelist EXCEPT ![k][u] = @ \ entries]
  /\ revoked' = [revoked EXCEPT ![k][u] =
       IF OfToken(whitelist[k][u] \ entries, target) = {}
       THEN @ \cup ({target} \ {NoToken}) ELSE @]

\* Mutant: the lists are written back from the copy that was read.
RemoveExpired_Rewrite(u, seen) ==
  whitelist' = [k \in Kinds |->
    [whitelist[k] EXCEPT ![u] = {e \in seen[k] : NotExpired(e)}]]

\* The second half of revokeExpiredJwtTokens, on the lists read in the first.
RemoveExpired(u, seen) ==
  whitelist' = [k \in Kinds |->
    [whitelist[k] EXCEPT ![u] = @ \ {e \in seen[k] : ~NotExpired(e)}]]

-----------------------------------------------------------------------------
\* Requests.

\* login: the user query is sent.
LoginStart(r, u) ==
  /\ Begin(r, "readUser", "login", u, NoToken, NoToken, FALSE, NothingSeen)
  /\ UNCHANGED <<now, status, whitelist, cron, disruptions, held, revoked>>

\* The database answers the user query of a login, a guard or a strategy.
ReadUser(r) ==
  /\ At(r, "readUser")
  /\ req' = [req EXCEPT ![r].pc = "haveUser",
                        ![r].active = (status[req[r].user] = "ACTIVE")]
  /\ UNCHANGED <<now, status, whitelist, cron, disruptions, held, revoked>>

\* login: not an active user, or on to the password comparison.
LoginCheck(r) ==
  /\ At(r, "haveUser") /\ req[r].op = "login"
  /\ IF req[r].active THEN Goto(r, "password") ELSE Finish(r)
  /\ UNCHANGED <<now, status, whitelist, cron, disruptions, held, revoked>>

\* login: the password does not match.
LoginMismatch(r) ==
  /\ At(r, "password")
  /\ Finish(r)
  /\ UNCHANGED <<now, status, whitelist, cron, disruptions, held, revoked>>

\* prepareAuthTokens up to its await: sign the pair, read both lists for the
\* clean-up, add the pair to them.
PrepareAuthTokens(r) ==
  LET u == req[r].user
  IN
  /\ At(r, "password") \/ At(r, "issue")
  /\ whitelist' = [k \in Kinds |->
       [whitelist[k] EXCEPT ![u] = @ \cup {EntryNow(k)}]]
  /\ req' = [req EXCEPT ![r].pc = "cleanup", ![r].token = SignedNow,
       ![r].seen = [k \in Kinds |-> whitelist[k][u]]]
  /\ revoked' = [k \in Kinds |-> [revoked[k] EXCEPT ![u] = @ \ {SignedNow}]]
  /\ UNCHANGED <<now, status, cron, disruptions, held>>

\* prepareAuthTokens after the lists arrive: expired entries go, the pair is
\* returned to the client.
Cleanup(r) ==
  LET u == req[r].user
  IN
  /\ At(r, "cleanup")
  /\ RemoveExpired(u, req[r].seen)
  /\ held' = [held EXCEPT ![u] = @ \cup {req[r].token}]
  /\ Finish(r)
  /\ UNCHANGED <<now, status, cron, disruptions, revoked>>

\* me and signout arrive at GqlJwtAuthGuard.
AccessStart(r, u, t) ==
  \/ Present(r, "me", "access", u, t, NoToken)
  \/ \E arg \in held[u] \cup {NoToken} :
       Present(r, "signout", "access", u, t, arg)

\* JwtStrategy.validate: UNAUTHORIZED, or the user query is sent.
AccessValidate(r) ==
  /\ At(r, "whitelist") /\ req[r].op \in {"me", "signout"}
  /\ IF InWhitelist(r, "access") THEN Goto(r, "readUser") ELSE Finish(r)
  /\ UNCHANGED <<now, status, whitelist, cron, disruptions, held, revoked>>

\* Mutant: signout looks for each token in the other one's list.
AccessAuthorize_Swapped(r) ==
  LET q == req[r]
  IN
  /\ At(r, "haveUser") /\ q.op \in {"me", "signout"}
  /\ IF q.active /\ q.op = "signout"
     THEN req' = [req EXCEPT ![r].pc = "revokeAccess",
            ![r].seen = [k \in Kinds |->
               OfToken(whitelist[k][q.user],
                       IF k = "access" THEN q.arg ELSE q.token)]]
     ELSE Finish(r)
  /\ UNCHANGED <<now, status, whitelist, cron, disruptions, held, revoked>>

\* JwtStrategy.validate after the user query: UNAUTHORIZED, or the resolver
\* runs: me returns, signout sends its two SMEMBERS.
AccessAuthorize(r) ==
  LET q == req[r]
  IN
  /\ At(r, "haveUser") /\ q.op \in {"me", "signout"}
  /\ IF q.active /\ q.op = "signout"
     THEN req' = [req EXCEPT ![r].pc = "revokeAccess",
            ![r].seen = [k \in Kinds |->
               OfToken(whitelist[k][q.user],
                       IF k = "access" THEN q.token ELSE q.arg)]]
     ELSE Finish(r)
  /\ UNCHANGED <<now, status, whitelist, cron, disruptions, held, revoked>>

\* signout: each revokeJwtTokens removes what it read, access first.
SignoutAccess(r) ==
  /\ At(r, "revokeAccess")
  /\ Remove("access", req[r].user, req[r].seen["access"], req[r].token)
  /\ Goto(r, "revokeRefresh")
  /\ UNCHANGED <<now, status, cron, disruptions, held>>

SignoutRefresh(r) ==
  /\ At(r, "revokeRefresh")
  /\ Remove("refresh", req[r].user, req[r].seen["refresh"], req[r].arg)
  /\ Finish(r)
  /\ UNCHANGED <<now, status, cron, disruptions, held>>

\* refresh arrives at GqlJwtRefreshTokenGuard.
RefreshStart(r, u, t) == Present(r, "refresh", "refresh", u, t, NoToken)

\* JwtRefreshTokenStrategy.validate: the token is in the whitelist.
RefreshValidate(r) ==
  /\ At(r, "whitelist") /\ req[r].op = "refresh"
  /\ InWhitelist(r, "refresh")
  /\ Goto(r, "readUser")
  /\ UNCHANGED <<now, status, whitelist, cron, disruptions, held, revoked>>

\* Mutant: only the access tokens go.
RevokeAll_AccessOnly(r) ==
  LET u == req[r].user
  IN
  /\ At(r, "whitelist") /\ req[r].op = "refresh"
  /\ ~InWhitelist(r, "refresh")
  /\ whitelist' = [whitelist EXCEPT !["access"][u] = {}]
  /\ revoked' = [revoked EXCEPT !["access"][u] =
       @ \cup {e.token : e \in whitelist["access"][u]}]
  /\ Finish(r)
  /\ UNCHANGED <<now, status, cron, disruptions, held>>

\* JwtRefreshTokenStrategy.validate: it is not, and all tokens of the user go.
RevokeAll(r) ==
  LET u == req[r].user
  IN
  /\ At(r, "whitelist") /\ req[r].op = "refresh"
  /\ ~InWhitelist(r, "refresh")
  /\ whitelist' = [k \in Kinds |-> [whitelist[k] EXCEPT ![u] = {}]]
  /\ revoked' = [k \in Kinds |-> [revoked[k] EXCEPT ![u] =
       @ \cup {e.token : e \in whitelist[k][u]}]]
  /\ Finish(r)
  /\ UNCHANGED <<now, status, cron, disruptions, held>>

\* The status check of the strategy; refreshAccessToken sends SMEMBERS.
RefreshAuthorize(r) ==
  LET q == req[r]
  IN
  /\ At(r, "haveUser") /\ q.op = "refresh"
  /\ IF q.active
     THEN req' = [req EXCEPT ![r].pc = "revoke", ![r].seen["refresh"] =
                    OfToken(whitelist["refresh"][q.user], q.token)]
     ELSE Finish(r)
  /\ UNCHANGED <<now, status, whitelist, cron, disruptions, held, revoked>>

\* Mutant: the old refresh token stays.
RefreshRevoke_Skip(r) ==
  /\ At(r, "revoke")
  /\ Goto(r, "issue")
  /\ UNCHANGED <<now, status, whitelist, cron, disruptions, held, revoked>>

\* refreshAccessToken: the old refresh token goes, found or not.
RefreshRevoke(r) ==
  /\ At(r, "revoke")
  /\ Remove("refresh", req[r].user, req[r].seen["refresh"], req[r].token)
  /\ Goto(r, "issue")
  /\ UNCHANGED <<now, status, cron, disruptions, held>>

-----------------------------------------------------------------------------
\* The midnight job.

\* Mutant: only the access keys are listed.
CronStart_AccessKeys ==
  LET found == {u \in Users : whitelist["access"][u] # {}}
  IN
  /\ cron.pc = "idle"
  /\ found # {}
  /\ cron' = [cron EXCEPT !.pc = "next", !.todo = found]
  /\ UNCHANGED <<now, status, whitelist, req, disruptions, held, revoked>>

\* handleRemoveExpiredTokens: KEYS AT* and RT*, the users with a list.
CronStart ==
  LET found == {u \in Users : \E k \in Kinds : whitelist[k][u] # {}}
  IN
  /\ cron.pc = "idle"
  /\ found # {}
  /\ cron' = [cron EXCEPT !.pc = "next", !.todo = found]
  /\ UNCHANGED <<now, status, whitelist, req, disruptions, held, revoked>>

\* The loop: revokeExpiredJwtTokens reads the lists of the next user.
CronRead(u) ==
  /\ cron.pc = "next" /\ u \in cron.todo
  /\ cron' = [pc |-> "cleanup", todo |-> cron.todo \ {u}, user |-> {u},
              seen |-> [k \in Kinds |-> whitelist[k][u]]]
  /\ UNCHANGED <<now, status, whitelist, req, disruptions, held, revoked>>

CronCleanup(u) ==
  /\ cron.pc = "cleanup" /\ u \in cron.user
  /\ RemoveExpired(u, cron.seen)
  /\ cron' = IF cron.todo = {} THEN CronIdle
             ELSE [cron EXCEPT !.pc = "next", !.user = {},
                               !.seen = NothingSeen]
  /\ UNCHANGED <<now, status, req, disruptions, held, revoked>>

-----------------------------------------------------------------------------
\* The environment.

Tick ==
  /\ now < MaxNow
  /\ now' = now + 1
  /\ UNCHANGED <<status, whitelist, req, cron, disruptions, held, revoked>>

\* activateUser, when an OTP was verified: whatever the status was.
ActivateUser(u) ==
  /\ status' = [status EXCEPT ![u] = "ACTIVE"]
  /\ UNCHANGED <<now, whitelist, req, cron, disruptions, held, revoked>>

\* An operator bans the user in the database; no code of the server does.
BanUser(u) ==
  /\ disruptions < MaxDisruptions
  /\ disruptions' = disruptions + 1
  /\ status' = [status EXCEPT ![u] = "BANNED"]
  /\ UNCHANGED <<now, whitelist, req, cron, held, revoked>>

\* The process restarts: every request and the job are gone, MySQL and Redis
\* keep what they hold.
Crash ==
  /\ disruptions < MaxDisruptions
  /\ disruptions' = disruptions + 1
  /\ req' = [r \in Reqs |-> Idle]
  /\ cron' = CronIdle
  /\ UNCHANGED <<now, status, whitelist, held, revoked>>

-----------------------------------------------------------------------------
Serve(r) ==
  \/ ReadUser(r) \/ LoginCheck(r) \/ LoginMismatch(r) \/ PrepareAuthTokens(r)
  \/ Cleanup(r) \/ AccessValidate(r) \/ AccessAuthorize(r) \/ SignoutAccess(r)
  \/ SignoutRefresh(r) \/ RefreshValidate(r) \/ RevokeAll(r)
  \/ RefreshAuthorize(r) \/ RefreshRevoke(r)

CronStep == CronStart \/ (\E u \in Users : CronRead(u) \/ CronCleanup(u))

ClientStep(r, u) ==
  \/ LoginStart(r, u)
  \/ \E t \in held[u] : AccessStart(r, u, t) \/ RefreshStart(r, u, t)

Next ==
  \/ \E r \in Reqs : Serve(r) \/ (\E u \in Users : ClientStep(r, u))
  \/ CronStep
  \/ Tick \/ Crash
  \/ \E u \in Users : ActivateUser(u) \/ BanUser(u)

Spec == Init /\ [][Next]_vars

\* The event loop runs every continuation whose reply has come, and the
\* scheduler fires the job; clients, operators, time and restarts owe nothing.
Fairness == (\A r \in Reqs : WF_vars(Serve(r))) /\ WF_vars(CronStep)

-----------------------------------------------------------------------------
TypeOK ==
  /\ now \in Nat
  /\ status \in [Users -> Statuses]
  /\ whitelist \in [Kinds -> [Users -> SUBSET Entry]]
  /\ req \in [Reqs -> Request \cup {Idle}]
  /\ \A r \in Reqs : req[r].pc = "cleanup" => req[r].token \in Nat
  /\ cron \in CronJob
  /\ disruptions \in 0..MaxDisruptions
  /\ held \in [Users -> SUBSET Nat]
  /\ revoked \in [Kinds -> [Users -> SUBSET Nat]]

\* No sweep, race or restart loses a session: a token that reached its client
\* and whose JWT has time left is in the whitelist, unexpired, unless a
\* signout, a refresh or a wipe revoked it.  (prepareAuthTokens adds to the
\* lists while revokeExpiredJwtTokens still works on the old ones.)
NoLiveTokenLost ==
  \A u \in Users, k \in Kinds : \A t \in held[u] :
    JwtAlive(k, t) =>
      \/ t \in revoked[k][u]
      \/ \E e \in OfToken(whitelist[k][u], t) : NotExpired(e)

\* A token presented after it was revoked gets no further than the whitelist
\* check, whatever runs in between (validateJwtToken in both strategies).
RevokedTokenRefused ==
  \A r \in Reqs :
    At(r, "idle") \/ At(r, "whitelist") \/ ~req[r].replay

BearerKind(q) == IF q.op = "refresh" THEN "refresh" ELSE "access"

\* The strategies refuse, and the refresh strategy wipes every session of the
\* user, only if the token was revoked before it was sent or its time ran out
\* while the whitelist was being read.
RefusalJustified ==
  \A r \in Reqs :
    At(r, "whitelist") =>
      \/ InWhitelist(r, BearerKind(req[r]))
      \/ req[r].replay
      \/ ~JwtAlive(BearerKind(req[r]), req[r].token)

\* A revoked token comes back to a whitelist only by being signed again, the
\* same string, within the second of its iat.
RevivedOnlyBySigning ==
  [][\A u \in Users, k \in Kinds : \A t \in revoked[k][u] :
       Listed(k, u, t)' => t = SignedNow]_vars

\* Entries that have expired do not stay: the job, or a later login, removes
\* them, whatever restarts interrupt it.
ExpiredPurged ==
  \A u \in Users, k \in Kinds :
    []<>(\A e \in whitelist[k][u] : NotExpired(e))

-----------------------------------------------------------------------------
\* The inductive invariant behind these.

\* An entry does not expire before the JWT it lists.
Outlives(e, k) == (e.token + TTL(k)) * TicksPerSecond <= e.expiresIn

ListedOutlive ==
  \A k \in Kinds, u \in Users : \A e \in whitelist[k][u] : Outlives(e, k)

\* A signed token is accounted for: dead, revoked or listed.
Accounted(k, u, t) ==
  JwtAlive(k, t) => t \in revoked[k][u] \/ Listed(k, u, t)

HeldAccounted ==
  \A k \in Kinds, u \in Users : \A t \in held[u] : Accounted(k, u, t)

SignedAccounted ==
  \A k \in Kinds, r \in Reqs :
    At(r, "cleanup") => Accounted(k, req[r].user, req[r].token)

RevokedGone ==
  \A k \in Kinds, u \in Users : \A t \in revoked[k][u] : ~Listed(k, u, t)

AllOfToken(entries, t) == \A e \in entries : e.token = t

\* The reply to a whitelist check is empty just when the token was revoked.
BearerSeen(q) ==
  q.pc = "whitelist" =>
    LET k == BearerKind(q)
    IN  /\ AllOfToken(q.seen[k], q.token)
        /\ \A e \in q.seen[k] : Outlives(e, k)
        /\ q.replay <=> q.seen[k] = {}

\* What a revocation is about to remove is what it was asked to remove.
RevocationSeen(q) ==
  /\ q.pc = "revokeAccess" => AllOfToken(q.seen["access"], q.token)
  /\ q.pc \in {"revokeAccess", "revokeRefresh"} =>
       AllOfToken(q.seen["refresh"], q.arg)
  /\ q.pc = "revoke" => AllOfToken(q.seen["refresh"], q.token)

ReplayStopped(q) == q.pc \in {"idle", "whitelist"} \/ ~q.replay

RequestSound(q) == BearerSeen(q) /\ RevocationSeen(q) /\ ReplayStopped(q)

IInv ==
  /\ TypeOK
  /\ ListedOutlive
  /\ HeldAccounted
  /\ SignedAccounted
  /\ RevokedGone
  /\ \A r \in Reqs : RequestSound(req[r])
=============================================================================
