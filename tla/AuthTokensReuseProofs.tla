------------------------ MODULE AuthTokensReuseProofs ------------------------
(***************************************************************************)
(* Refresh-token reuse and wipes when no two requests of one user overlap: *)
(* for any users, any requests of different users at a time, any restarts. *)
(***************************************************************************)
EXTENDS AuthTokensReuse, AuthTokensProofs

USE DEF Kinds

-----------------------------------------------------------------------------
(* What the histories observe.                                             *)

\* A step that issues no pair and wipes nothing bars no token.
LEMMA NothingBarred ==
  ASSUME Observe, \A r \in Reqs : ~Issues(r) /\ ~RevokeAll(r), NEW u \in Users
  PROVE  Barred(u)' \subseteq Barred(u)
  BY DEF Observe, Exchanged, Signed, Barred

\* The invariant survives a step that bars nothing, lists nothing and leaves
\* each request alone, finished or sound.
LEMMA CalmStep ==
  ASSUME ReuseInv, Observe,
         \A r \in Reqs : ~Issues(r) /\ ~RevokeAll(r),
         \A u \in Users : whitelist'["refresh"][u] \subseteq whitelist["refresh"][u],
         \A r \in Reqs : req[r].pc # "idle" => req[r].user \in Users,
         \A r \in Reqs : \/ req'[r] = req[r] \/ req'[r].pc \in {"idle", "cleanup"}
                         \/ RefreshSound(r)'
  PROVE  ReuseInv'
<1>1. \A u \in Users : Barred(u)' \subseteq Barred(u)
  BY NothingBarred
<1>2. BarredUnlisted'
  BY <1>1 DEF ReuseInv, BarredUnlisted, Listed
<1>3. ASSUME NEW r \in Reqs PROVE RefreshSound(r)'
  <2>1. CASE req'[r] = req[r]
    <3>1. CASE req[r].pc = "idle"
      BY <2>1, <3>1 DEF RefreshSound, Exchanging
    <3>2. CASE req[r].pc # "idle"
      <4>1. req[r].user \in Users
        BY <3>2
      <4>2. RefreshSound(r)
        BY DEF ReuseInv
      <4> QED BY <1>1, <2>1, <4>1, <4>2 DEF RefreshSound, Exchanging, OfToken
    <3> QED BY <3>1, <3>2
  <2>2. CASE req'[r].pc \in {"idle", "cleanup"}
    BY <2>2 DEF RefreshSound, Exchanging
  <2> QED BY <2>1, <2>2
<1> QED BY <1>2, <1>3 DEF ReuseInv

\* The same for a step of one request.
LEMMA CalmMove ==
  ASSUME TypeOK, ReuseInv, Observe, NEW r \in Reqs,
         \A s \in Reqs \ {r} : req'[s] = req[s],
         ~Issues(r), ~RevokeAll(r),
         \A u \in Users : whitelist'["refresh"][u] \subseteq whitelist["refresh"][u],
         \/ req'[r].pc \in {"idle", "cleanup"}
         \/ (\A u \in Users : Barred(u)' \subseteq Barred(u)) => RefreshSound(r)'
  PROVE  ReuseInv'
<1>1. ASSUME NEW s \in Reqs \ {r} PROVE ~Issues(s) /\ ~RevokeAll(s)
  <2>1. ~Issues(s)
    BY DEF Issues, At
  <2>2. ~RevokeAll(s)
    BY DEF RevokeAll, Finish, TypeOK, Idle, At
  <2> QED BY <2>1, <2>2
<1>2. \A s \in Reqs : req[s].pc # "idle" => req[s].user \in Users
  BY ServedType
<1>3. \A u \in Users : Barred(u)' \subseteq Barred(u)
  BY <1>1, NothingBarred
<1> QED BY <1>1, <1>2, <1>3, CalmStep

\* The lists only shrink when entries are removed.
LEMMA SweepShrinks ==
  ASSUME TypeOK, NEW u, NEW seen, RemoveExpired(u, seen), NEW v \in Users
  PROVE  whitelist'["refresh"][v] \subseteq whitelist["refresh"][v]
  BY DEF RemoveExpired, TypeOK

LEMMA RemoveShrinks ==
  ASSUME TypeOK, NEW k \in Kinds, NEW u, NEW entries, NEW target,
         Remove(k, u, entries, target), NEW v \in Users
  PROVE  whitelist'["refresh"][v] \subseteq whitelist["refresh"][v]
  BY DEF Remove, TypeOK

-----------------------------------------------------------------------------
(* The steps of a request.                                                 *)

\* A request whose next place is not on the way to an exchange.
LEMMA PlaceStep ==
  ASSUME TypeOK, ReuseInv, Observe, NEW r \in Reqs,
         \/ LoginCheck(r) \/ LoginMismatch(r) \/ Cleanup(r) \/ AccessValidate(r)
         \/ AccessAuthorize(r) \/ SignoutAccess(r) \/ SignoutRefresh(r)
  PROVE  ReuseInv'
<1>1. ~RevokeAll(r)
  BY DEF RevokeAll, At, LoginCheck, LoginMismatch, Cleanup, AccessValidate,
         AccessAuthorize, SignoutAccess, SignoutRefresh
<1>2. \A s \in Reqs \ {r} : req'[s] = req[s]
  BY DEF LoginCheck, LoginMismatch, Cleanup, AccessValidate, AccessAuthorize,
         SignoutAccess, SignoutRefresh, Goto, Finish, TypeOK
<1>3. req[r].pc # "idle"
  BY DEF At, LoginCheck, LoginMismatch, Cleanup, AccessValidate,
         AccessAuthorize, SignoutAccess, SignoutRefresh
<1>4. req[r] \in Request
  BY <1>3, ServedType
<1>5. CASE LoginCheck(r) \/ LoginMismatch(r) \/ AccessValidate(r) \/ AccessAuthorize(r)
  <2>1. \/ req'[r].pc \in {"idle", "password", "revokeAccess"}
        \/ req'[r].pc = "readUser" /\ req'[r].op # "refresh"
    BY <1>4, <1>5 DEF LoginCheck, LoginMismatch, AccessValidate, AccessAuthorize,
                      Goto, Finish, Idle, Request, TypeOK
  <2>2. whitelist' = whitelist
    BY <1>5 DEF LoginCheck, LoginMismatch, AccessValidate, AccessAuthorize
  <2>3. ~Issues(r) /\ RefreshSound(r)'
    BY <2>1 DEF Issues, RefreshSound, Exchanging
  <2> QED BY <1>1, <1>2, <2>2, <2>3, CalmMove
<1>6. CASE Cleanup(r) \/ SignoutAccess(r) \/ SignoutRefresh(r)
  <2>1. req'[r].pc \in {"idle", "revokeRefresh"}
    BY <1>4, <1>6 DEF Cleanup, SignoutAccess, SignoutRefresh, Goto, Finish, Idle,
                      Request, TypeOK
  <2>2. \A v \in Users : whitelist'["refresh"][v] \subseteq whitelist["refresh"][v]
    BY <1>6, SweepShrinks, RemoveShrinks DEF Cleanup, SignoutAccess, SignoutRefresh
  <2>3. ~Issues(r) /\ RefreshSound(r)'
    BY <2>1 DEF Issues, RefreshSound, Exchanging
  <2> QED BY <1>1, <1>2, <2>2, <2>3, CalmMove
<1> QED BY <1>5, <1>6

\* The strategy lets a refresh in: its token was on the list when it was read.
LEMMA AdmitStep ==
  ASSUME TypeOK, ReuseInv, Observe, NEW r \in Reqs,
         ReadUser(r) \/ RefreshValidate(r)
  PROVE  ReuseInv'
<1>1. ~RevokeAll(r) /\ req[r].pc # "idle"
  BY DEF RevokeAll, ReadUser, RefreshValidate, At
<1>2. req[r] \in Request /\ req[r].user \in Users
  BY <1>1, ServedType
<1>3. /\ req'[r].pc \in {"readUser", "haveUser"}
      /\ req'[r].op = req[r].op /\ req'[r].user = req[r].user
      /\ req'[r].token = req[r].token
      /\ \A s \in Reqs \ {r} : req'[s] = req[s]
  BY <1>2 DEF ReadUser, RefreshValidate, Goto, Request, TypeOK
<1>4. Exchanging(req'[r]) => Exchanging(req[r])
  BY <1>3 DEF ReadUser, RefreshValidate, InWhitelist, Exchanging, At
<1>5. ~Issues(r)
  BY <1>3 DEF Issues
<1>6. (\A u \in Users : Barred(u)' \subseteq Barred(u)) => RefreshSound(r)'
  BY <1>2, <1>3, <1>4 DEF ReuseInv, RefreshSound, Exchanging
<1>7. whitelist' = whitelist
  BY DEF ReadUser, RefreshValidate
<1> QED BY <1>1, <1>3, <1>5, <1>6, <1>7, CalmMove

\* The rotation reads the entries of its token.
LEMMA AuthorizeStep ==
  ASSUME TypeOK, ReuseInv, Observe, NEW r \in Reqs, RefreshAuthorize(r)
  PROVE  ReuseInv'
<1>1. ~RevokeAll(r) /\ req[r].pc = "haveUser" /\ req[r].op = "refresh"
  BY DEF RevokeAll, RefreshAuthorize, At
<1>2. /\ req[r] \in Request /\ req[r].user \in Users
      /\ req[r].seen \in [Kinds -> SUBSET Entry]
  BY <1>1, ServedType
<1>3. /\ whitelist' = whitelist
      /\ \A s \in Reqs \ {r} : req'[s] = req[s]
  BY DEF RefreshAuthorize, Finish, TypeOK
<1>4. CASE req[r].active
  <2>1. /\ req'[r].pc = "revoke"
        /\ req'[r].op = "refresh" /\ req'[r].user = req[r].user
        /\ req'[r].token = req[r].token
        /\ req'[r].seen["refresh"] =
             OfToken(whitelist["refresh"][req[r].user], req[r].token)
    BY <1>1, <1>2, <1>4 DEF RefreshAuthorize, Request, TypeOK
  <2>2. (\A u \in Users : Barred(u)' \subseteq Barred(u)) => RefreshSound(r)'
    BY <1>1, <1>2, <1>3, <2>1 DEF ReuseInv, RefreshSound, Exchanging, OfToken
  <2>3. ~Issues(r)
    BY <2>1 DEF Issues
  <2> QED BY <1>1, <1>3, <2>2, <2>3, CalmMove
<1>5. CASE ~req[r].active
  <2>1. req'[r].pc = "idle"
    BY <1>5 DEF RefreshAuthorize, Finish, Idle, TypeOK
  <2>2. ~Issues(r)
    BY <2>1 DEF Issues
  <2> QED BY <1>1, <1>3, <2>1, <2>2, CalmMove
<1> QED BY <1>4, <1>5

\* The rotation removes what it read, and nothing of the token is left.
LEMMA RevokeStep ==
  ASSUME TypeOK, ReuseInv, Observe, NEW r \in Reqs, RefreshRevoke(r)
  PROVE  ReuseInv'
<1> DEFINE u == req[r].user
           t == req[r].token
<1>1. ~RevokeAll(r) /\ req[r].pc = "revoke"
  BY DEF RevokeAll, RefreshRevoke, At
<1>2. req[r] \in Request /\ u \in Users
  BY <1>1, ServedType
<1>3. /\ req'[r].pc = "issue"
      /\ req'[r].op = req[r].op /\ req'[r].user = u /\ req'[r].token = t
      /\ \A s \in Reqs \ {r} : req'[s] = req[s]
  BY <1>2 DEF RefreshRevoke, Goto, Request, TypeOK
<1>4. whitelist'["refresh"][u] = whitelist["refresh"][u] \ req[r].seen["refresh"]
  BY <1>2 DEF RefreshRevoke, Remove, TypeOK
<1>5. \A v \in Users : whitelist'["refresh"][v] \subseteq whitelist["refresh"][v]
  BY RemoveShrinks DEF RefreshRevoke
<1>6. /\ req[r].op = "refresh"
      /\ OfToken(whitelist["refresh"][u], t) \subseteq req[r].seen["refresh"]
      /\ t \notin Barred(u)
  BY <1>1 DEF ReuseInv, RefreshSound, Exchanging
<1>7. OfToken(whitelist["refresh"][u], t)' = {}
  BY <1>3, <1>4, <1>6 DEF OfToken
<1>8. (\A v \in Users : Barred(v)' \subseteq Barred(v)) => RefreshSound(r)'
  BY <1>2, <1>3, <1>6, <1>7 DEF RefreshSound, Exchanging
<1>9. ~Issues(r)
  BY <1>3 DEF Issues
<1> QED BY <1>1, <1>3, <1>5, <1>8, <1>9, CalmMove

\* The requests of other users, when r is being served and takes a step that
\* touches its own user's list only.
LEMMA OthersUntouched ==
  ASSUME TypeOK, ReuseInv, OneRequestEach, NEW r \in Reqs, ~At(r, "idle"),
         \A v \in Users \ {req[r].user} :
           /\ Barred(v)' \subseteq Barred(v)
           /\ whitelist'["refresh"][v] = whitelist["refresh"][v],
         \A s \in Reqs \ {r} : req'[s] = req[s],
         NEW s \in Reqs \ {r}
  PROVE  RefreshSound(s)'
<1>1. CASE req[s].pc = "idle"
  BY <1>1 DEF RefreshSound, Exchanging
<1>2. CASE req[s].pc # "idle"
  <2>1. req[s].user \in Users \ {req[r].user}
    BY <1>2, ServedType DEF OneRequestEach, At
  <2> QED BY <2>1 DEF ReuseInv, RefreshSound, Exchanging, OfToken
<1> QED BY <1>1, <1>2

\* A pair is signed: the token it replaces is barred and off the list, the
\* token signed is listed and not barred.
LEMMA IssueStep ==
  ASSUME TypeOK, ReuseInv, OneRequestEach, Observe, NEW r \in Reqs,
         PrepareAuthTokens(r)
  PROVE  ReuseInv'
<1>1. req[r].pc \in {"password", "issue"}
  BY DEF PrepareAuthTokens, At
<1>2. PICK u \in Users : u = req[r].user /\ req[r] \in Request
  BY <1>1, ServedType
<1>3. /\ req'[r].pc = "cleanup"
      /\ \A s \in Reqs \ {r} : req'[s] = req[s]
  BY <1>2 DEF PrepareAuthTokens, Request, TypeOK
<1>4. /\ whitelist'["refresh"][u] = whitelist["refresh"][u] \cup {EntryNow("refresh")}
      /\ \A v \in Users \ {u} : whitelist'["refresh"][v] = whitelist["refresh"][v]
  BY <1>2 DEF PrepareAuthTokens, TypeOK
<1>5. /\ Issues(r)
      /\ \A s \in Reqs : Issues(s) => s = r
  BY <1>1, <1>3 DEF Issues, At
<1>6. \A s \in Reqs : ~RevokeAll(s)
  <2>1. \A s \in Reqs \ {r} : ~RevokeAll(s)
    BY <1>3 DEF RevokeAll, Finish, TypeOK, Idle, At
  <2> QED BY <1>1, <2>1 DEF RevokeAll, At
<1>7. \A v \in Users \ {u} : Barred(v)' \subseteq Barred(v)
  BY <1>2, <1>5, <1>6 DEF Observe, Exchanged, Signed, Barred
<1>8. ASSUME NEW t, t \in Barred(u)'
      PROVE  /\ t # SignedNow
             /\ t \in Barred(u) \/ (req[r].pc = "issue" /\ t = req[r].token)
  <2>1. Signed(u) = {SignedNow}
    BY <1>2, <1>5 DEF Signed
  <2>2. \A x \in Exchanged(u) : req[r].pc = "issue" /\ x = req[r].token
    BY <1>5 DEF Exchanged, At
  <2>3. t \in (spent[u] \cup Exchanged(u) \cup wiped[u]) \ Signed(u)
    BY <1>2, <1>6, <1>8 DEF Observe, Barred
  <2> QED BY <2>1, <2>2, <2>3 DEF Barred
<1>9. ASSUME NEW v \in Users, NEW t, t \in Barred(v)'
      PROVE  ~Listed("refresh", v, t)'
  <2>1. CASE v = u
    <3>1. t # SignedNow /\ (t \in Barred(u) \/ (req[r].pc = "issue" /\ t = req[r].token))
      BY <1>8, <1>9, <2>1
    <3>2. ~Listed("refresh", u, t)
      BY <1>2, <3>1 DEF ReuseInv, BarredUnlisted, RefreshSound, OfToken, Listed
    <3>3. EntryNow("refresh").token # t
      BY <3>1 DEF EntryNow
    <3> QED BY <1>4, <2>1, <3>2, <3>3 DEF Listed
  <2>2. CASE v # u
    BY <1>4, <1>7, <1>9, <2>2 DEF ReuseInv, BarredUnlisted, Listed
  <2> QED BY <2>1, <2>2
<1>10. RefreshSound(r)'
  BY <1>3 DEF RefreshSound, Exchanging
<1>11. \A s \in Reqs \ {r} : RefreshSound(s)'
  BY <1>1, <1>2, <1>3, <1>4, <1>7, OthersUntouched DEF At
<1> QED BY <1>9, <1>10, <1>11 DEF ReuseInv, BarredUnlisted

\* A wipe empties the list of its user, so whatever it bars is off it.
LEMMA WipeStep ==
  ASSUME TypeOK, ReuseInv, OneRequestEach, Observe, NEW r \in Reqs, RevokeAll(r)
  PROVE  ReuseInv'
<1>1. req[r].pc = "whitelist"
  BY DEF RevokeAll, At
<1>2. PICK u \in Users : u = req[r].user
  BY <1>1, ServedType
<1>3. /\ req'[r].pc = "idle"
      /\ \A s \in Reqs \ {r} : req'[s] = req[s]
  BY DEF RevokeAll, Finish, Idle, TypeOK
<1>4. /\ whitelist'["refresh"][u] = {}
      /\ \A v \in Users \ {u} : whitelist'["refresh"][v] = whitelist["refresh"][v]
  BY <1>2 DEF RevokeAll, TypeOK
<1>5. \A s \in Reqs : ~Issues(s)
  BY <1>3 DEF Issues, At
<1>6. \A s \in Reqs : RevokeAll(s) => s = r
  BY <1>3 DEF RevokeAll, Finish, TypeOK, Idle, At
<1>7. \A v \in Users \ {u} : Barred(v)' \subseteq Barred(v)
  BY <1>2, <1>5, <1>6 DEF Observe, Exchanged, Signed, Barred
<1>8. BarredUnlisted'
  BY <1>4, <1>7 DEF ReuseInv, BarredUnlisted, Listed
<1>9. RefreshSound(r)'
  BY <1>3 DEF RefreshSound, Exchanging
<1>10. \A s \in Reqs \ {r} : RefreshSound(s)'
  BY <1>1, <1>2, <1>3, <1>4, <1>7, OthersUntouched DEF At
<1> QED BY <1>8, <1>9, <1>10 DEF ReuseInv

LEMMA ServeReuse ==
  ASSUME TypeOK, ReuseInv, OneRequestEach, Observe, NEW r \in Reqs, Serve(r)
  PROVE  ReuseInv'
  BY PlaceStep, AdmitStep, AuthorizeStep, RevokeStep, IssueStep, WipeStep DEF Serve

-----------------------------------------------------------------------------
(* The other steps.                                                        *)

\* A token comes in: one that is barred finds no entry.
LEMMA PresentReuse ==
  ASSUME TypeOK, ReuseInv, Observe, NEW r \in Reqs, NEW op, NEW k \in Kinds,
         op = "refresh" => k = "refresh",
         NEW u \in Users, NEW t, NEW arg, Present(r, op, k, u, t, arg)
  PROVE  ReuseInv'
<1>1. req[r].pc = "idle"
  BY DEF Present, Begin, Idle
<1>2. /\ req'[r].pc = "whitelist" /\ req'[r].op = op
      /\ req'[r].user = u /\ req'[r].token = t
      /\ k = "refresh" => req'[r].seen["refresh"] = OfToken(whitelist["refresh"][u], t)
      /\ \A s \in Reqs \ {r} : req'[s] = req[s]
      /\ whitelist' = whitelist
  BY DEF Present, Begin, TypeOK, NothingSeen
<1>3. ~RevokeAll(r) /\ ~Issues(r)
  BY <1>1 DEF RevokeAll, Issues, At
<1>4. (\A v \in Users : Barred(v)' \subseteq Barred(v)) => RefreshSound(r)'
  BY <1>2 DEF ReuseInv, BarredUnlisted, RefreshSound, Exchanging, OfToken, Listed
<1> QED BY <1>2, <1>3, <1>4, CalmMove

LEMMA ClientReuse ==
  ASSUME TypeOK, ReuseInv, Observe, NEW r \in Reqs, NEW u \in Users,
         ClientStep(r, u)
  PROVE  ReuseInv'
<1>1. CASE LoginStart(r, u)
  <2>1. req[r].pc = "idle"
    BY <1>1 DEF LoginStart, Begin, Idle
  <2>2. /\ req'[r].pc = "readUser" /\ req'[r].op = "login"
        /\ \A s \in Reqs \ {r} : req'[s] = req[s]
        /\ whitelist' = whitelist
    BY <1>1 DEF LoginStart, Begin, TypeOK
  <2>3. ~RevokeAll(r) /\ ~Issues(r) /\ RefreshSound(r)'
    BY <2>1, <2>2 DEF RevokeAll, Issues, At, RefreshSound, Exchanging
  <2> QED BY <2>2, <2>3, CalmMove
<1>2. ASSUME NEW t \in held[u], AccessStart(r, u, t) \/ RefreshStart(r, u, t)
      PROVE  ReuseInv'
  BY <1>2, PresentReuse DEF AccessStart, RefreshStart
<1> QED BY <1>1, <1>2 DEF ClientStep

\* Steps that leave the requests alone, or end them all.
LEMMA OtherReuse ==
  ASSUME TypeOK, ReuseInv, Observe,
         \/ CronStep \/ Tick \/ Crash \/ UNCHANGED vars
         \/ \E u \in Users : ActivateUser(u) \/ BanUser(u)
  PROVE  ReuseInv'
<1>1. \A u \in Users : whitelist'["refresh"][u] \subseteq whitelist["refresh"][u]
  BY SweepShrinks DEF CronStep, CronStart, CronRead, CronCleanup, Tick, Crash,
                      ActivateUser, BanUser, vars
<1>2. \A r \in Reqs : req'[r] = req[r] \/ (req'[r].pc = "idle" /\ Crash)
  BY DEF CronStep, CronStart, CronRead, CronCleanup, Tick, Crash, ActivateUser,
         BanUser, vars, Idle
<1>3. \A r \in Reqs : ~Issues(r)
  BY <1>2 DEF Issues, At
<1>4. \A r \in Reqs : ~RevokeAll(r)
  <2>1. Crash => disruptions' # disruptions
    BY DEF Crash, TypeOK
  <2> QED BY <1>2, <2>1 DEF RevokeAll, Finish, TypeOK, Idle, At
<1>5. \A r \in Reqs : req[r].pc # "idle" => req[r].user \in Users
  BY ServedType
<1> QED BY <1>1, <1>2, <1>3, <1>4, <1>5, CalmStep

-----------------------------------------------------------------------------
(* The theorems.                                                           *)

LEMMA ReuseInvInit == Init /\ spent = Nothing /\ wiped = Nothing => ReuseInv
  BY DEF Init, Nothing, ReuseInv, BarredUnlisted, Barred, RefreshSound,
         Exchanging, Idle

LEMMA ReuseStep ==
  TypeOK /\ OneRequestEach /\ ReuseInv /\ [Next /\ Observe]_ReuseVars => ReuseInv'
<1> SUFFICES ASSUME TypeOK, OneRequestEach, ReuseInv, [Next /\ Observe]_ReuseVars
             PROVE  ReuseInv'
  OBVIOUS
<1>1. CASE Next /\ Observe
  BY <1>1, ServeReuse, ClientReuse, OtherReuse DEF Next
<1>2. CASE UNCHANGED ReuseVars
  BY <1>2 DEF ReuseVars, vars, ReuseInv, BarredUnlisted, Barred, RefreshSound,
              Exchanging, Listed
<1> QED BY <1>1, <1>2

\* While no user has two requests under way, exchanged and wiped tokens are off
\* the list and no refresh that passed the strategy bears one, whatever the
\* requests of other users, the cron and restarts do.
THEOREM ReuseInvariance == ReuseSpec /\ []OneRequestEach => []ReuseInv
<1>1. ReuseSpec => []TypeOK
  <2>1. [Next /\ Observe]_ReuseVars => [Next]_vars
    BY DEF ReuseVars
  <2> QED BY <2>1, TypeCorrect, PTL DEF ReuseSpec, Spec
<1> QED BY <1>1, ReuseInvInit, ReuseStep, PTL DEF ReuseSpec

\* An exchange is of a token neither exchanged nor wiped before.
LEMMA ExchangeFresh ==
  ASSUME ReuseInv, NEW r \in Reqs, At(r, "issue")
  PROVE  /\ req[r].token \notin spent[req[r].user]
         /\ req[r].token \notin wiped[req[r].user]
  BY DEF At, ReuseInv, RefreshSound, Exchanging, Barred

\* A refresh token yields one pair, if the requests of its user do not overlap:
\* the reuse the code misses takes two at once.
THEOREM ReuseNoticed == ReuseSpec /\ []OneRequestEach => ReuseNeverIssues
<1>1. ReuseInv => [\A r \in Reqs : At(r, "issue") /\ Issues(r) =>
                     req[r].token \notin spent[req[r].user]]_ReuseVars
  BY ExchangeFresh
<1> QED BY <1>1, ReuseInvariance, PTL DEF ReuseNeverIssues

\* After a wipe no token that was out yields a pair, if the requests of its
\* user do not overlap.
THEOREM WipesFinal == ReuseSpec /\ []OneRequestEach => WipeIsFinal
<1>1. ReuseInv => [\A r \in Reqs : At(r, "issue") /\ Issues(r) =>
                     req[r].token \notin wiped[req[r].user]]_ReuseVars
  BY ExchangeFresh
<1> QED BY <1>1, ReuseInvariance, PTL DEF WipeIsFinal
=============================================================================
