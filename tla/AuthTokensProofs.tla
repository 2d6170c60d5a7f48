-------------------------- MODULE AuthTokensProofs --------------------------
(***************************************************************************)
(* What AuthTokens guarantees for any users, any number of requests, any   *)
(* lifetimes and any length of run.                                        *)
(***************************************************************************)
EXTENDS AuthTokens, TLAPS

USE DEF Kinds

-----------------------------------------------------------------------------
(* The clock.                                                              *)

LEMMA DivisionFacts ==
  ASSUME NEW n \in Nat
  PROVE  /\ Seconds(n) \in Nat
         /\ TicksPerSecond * Seconds(n) <= n
         /\ n < TicksPerSecond * Seconds(n) + TicksPerSecond
  BY TicksAssumption, SMT DEF Seconds

LEMMA TimesMonotone ==
  ASSUME NEW a \in Nat, NEW b \in Nat, a <= b
  PROVE  a * TicksPerSecond <= b * TicksPerSecond
<1> DEFINE d == b - a
<1>1. d \in Nat /\ b = a + d
  OBVIOUS
<1>2. b * TicksPerSecond = a * TicksPerSecond + d * TicksPerSecond
  BY <1>1, TicksAssumption, SMT
<1>3. d * TicksPerSecond \in Nat /\ a * TicksPerSecond \in Nat
  BY <1>1, TicksAssumption, SMT
<1> QED BY <1>2, <1>3

\* Seconds(n) < s exactly when n is before the instant s seconds.
LEMMA SecondsBefore ==
  ASSUME NEW n \in Nat, NEW s \in Nat
  PROVE  Seconds(n) < s <=> n < s * TicksPerSecond
<1>1. CASE Seconds(n) < s
  <2>1. Seconds(n) + 1 <= s
    BY <1>1, DivisionFacts
  <2>2. TicksPerSecond * (Seconds(n) + 1) <= s * TicksPerSecond
    BY <2>1, DivisionFacts, TicksAssumption, SMT
  <2> QED BY <1>1, <2>2, DivisionFacts, TicksAssumption, SMT
<1>2. CASE ~(Seconds(n) < s)
  <2>1. s * TicksPerSecond <= Seconds(n) * TicksPerSecond
    BY <1>2, DivisionFacts, TimesMonotone
  <2> QED BY <1>2, <2>1, DivisionFacts, TicksAssumption, SMT
<1> QED BY <1>1, <1>2

LEMMA SecondsMonotone ==
  ASSUME NEW n \in Nat
  PROVE  Seconds(n) <= Seconds(n + 1)
<1>1. n < (Seconds(n + 1) + 1) * TicksPerSecond
  BY DivisionFacts, TicksAssumption, SMT
<1> QED BY <1>1, SecondsBefore, DivisionFacts

LEMMA TTLType == ASSUME NEW k PROVE TTL(k) \in Nat \ {0}
  BY TTLAssumption DEF TTL

\* What saveJwtToken stores outlives what sign signed.
LEMMA EntryNowFacts ==
  ASSUME now \in Nat, NEW k \in Kinds
  PROVE  /\ EntryNow(k) \in Entry
         /\ EntryNow(k).token = SignedNow
         /\ SignedNow \in Nat
         /\ Outlives(EntryNow(k), k)
<1>1. SignedNow \in Nat
  BY DivisionFacts DEF SignedNow
<1>2. /\ TTL(k) * TicksPerSecond \in Nat
      /\ (SignedNow + TTL(k)) * TicksPerSecond <= now + TTL(k) * TicksPerSecond
  BY <1>1, TTLType, DivisionFacts, TicksAssumption, SMT DEF SignedNow
<1> QED BY <1>1, <1>2 DEF EntryNow, Entry, Outlives

\* While the JWT of an entry is alive, the entry has not expired.
LEMMA AliveNotExpired ==
  ASSUME now \in Nat, NEW k \in Kinds, NEW e \in Entry, Outlives(e, k),
         JwtAlive(k, e.token)
  PROVE  NotExpired(e)
<1>1. e.token \in Nat /\ e.expiresIn \in Nat /\ e.token + TTL(k) \in Nat
  BY TTLType DEF Entry
<1>2. now < (e.token + TTL(k)) * TicksPerSecond
  BY <1>1, SecondsBefore DEF JwtAlive
<1>3. (e.token + TTL(k)) * TicksPerSecond \in Nat
  BY <1>1, TicksAssumption, SMT
<1> QED BY <1>1, <1>2, <1>3 DEF Outlives, NotExpired

-----------------------------------------------------------------------------
(* Types.                                                                  *)

\* A request that is being served is a full record.
LEMMA ServedType ==
  ASSUME TypeOK, NEW r \in Reqs, req[r].pc # "idle"
  PROVE  /\ req[r] \in Request
         /\ req[r].user \in Users
         /\ req[r].token \in Nat \cup {NoToken}
         /\ req[r].arg \in Nat \cup {NoToken}
         /\ req[r].seen \in [Kinds -> SUBSET Entry]
<1>1. req[r] \in Request
  BY DEF TypeOK, Idle
<1> QED BY <1>1 DEF Request

LEMMA BeginType ==
  ASSUME TypeOK, NEW r \in Reqs, NEW u \in Users, NEW pc \in PCs \ {"cleanup"},
         NEW op \in {"login", "me", "signout", "refresh"},
         NEW t \in Nat \cup {NoToken}, NEW arg \in Nat \cup {NoToken},
         NEW replay \in BOOLEAN, NEW seen \in [Kinds -> SUBSET Entry],
         Begin(r, pc, op, u, t, arg, replay, seen)
  PROVE  /\ req' \in [Reqs -> Request \cup {Idle}]
         /\ \A s \in Reqs : req'[s].pc = "cleanup" => req'[s].token \in Nat
<1> DEFINE q == [pc |-> pc, op |-> op, user |-> u, token |-> t, arg |-> arg,
                 active |-> FALSE, replay |-> replay, seen |-> seen]
<1>1. q \in Request
  BY DEF Request
<1>2. q.pc # "cleanup"
  OBVIOUS
<1>3. req' = [req EXCEPT ![r] = q]
  BY DEF Begin
<1> HIDE DEF q
<1> QED BY <1>1, <1>2, <1>3 DEF TypeOK

LEMMA GotoType ==
  ASSUME TypeOK, NEW r \in Reqs, NEW pc \in PCs \ {"cleanup"},
         req[r].pc # "idle", Goto(r, pc)
  PROVE  /\ req' \in [Reqs -> Request \cup {Idle}]
         /\ \A s \in Reqs : req'[s].pc = "cleanup" => req'[s].token \in Nat
<1>1. [req[r] EXCEPT !.pc = pc] \in Request
  BY ServedType DEF Request
<1> QED BY <1>1 DEF TypeOK, Goto

LEMMA FinishType ==
  ASSUME TypeOK, NEW r \in Reqs, Finish(r)
  PROVE  /\ req' \in [Reqs -> Request \cup {Idle}]
         /\ \A s \in Reqs : req'[s].pc = "cleanup" => req'[s].token \in Nat
<1>1. Idle.pc # "cleanup"
  BY DEF Idle
<1>2. req \in [Reqs -> Request \cup {Idle}]
  BY DEF TypeOK
<1>3. req' \in [Reqs -> Request \cup {Idle}]
  BY <1>2 DEF Finish
<1>4. ASSUME NEW s \in Reqs, req'[s].pc = "cleanup"
      PROVE  req'[s].token \in Nat
  <2>1. s # r
    BY <1>1, <1>2, <1>4 DEF Finish
  <2> QED BY <1>2, <1>4, <2>1 DEF Finish, TypeOK
<1> QED BY <1>3, <1>4

LEMMA PresentType ==
  ASSUME TypeOK, NEW r \in Reqs, NEW u \in Users, NEW k \in Kinds,
         NEW op \in {"me", "signout", "refresh"}, NEW t,
         NEW arg \in Nat \cup {NoToken}, Present(r, op, k, u, t, arg)
  PROVE  TypeOK'
<1> DEFINE replay == t \in revoked[k][u]
           seen == [NothingSeen EXCEPT ![k] = OfToken(whitelist[k][u], t)]
<1>1. t \in Nat \cup {NoToken} /\ replay \in BOOLEAN
  BY DEF TypeOK, Present
<1>2. seen \in [Kinds -> SUBSET Entry]
  BY DEF TypeOK, NothingSeen, OfToken
<1>3. "whitelist" \in PCs \ {"cleanup"} /\ op \in {"login", "me", "signout", "refresh"}
  BY DEF PCs
<1>4. /\ req' \in [Reqs -> Request \cup {Idle}]
      /\ \A s \in Reqs : req'[s].pc = "cleanup" => req'[s].token \in Nat
  <2>1. Begin(r, "whitelist", op, u, t, arg, replay, seen)
    BY DEF Present
  <2> HIDE DEF replay, seen
  <2> QED BY <1>1, <1>2, <1>3, <2>1, BeginType
<1> QED BY <1>4 DEF TypeOK, Present

LEMMA RemoveType ==
  ASSUME TypeOK, NEW k \in Kinds, NEW u \in Users, NEW entries,
         NEW t \in Nat \cup {NoToken}, Remove(k, u, entries, t)
  PROVE  /\ whitelist' \in [Kinds -> [Users -> SUBSET Entry]]
         /\ revoked' \in [Kinds -> [Users -> SUBSET Nat]]
  BY DEF TypeOK, Remove

LEMMA RemoveExpiredType ==
  ASSUME TypeOK, NEW u \in Users, NEW seen, RemoveExpired(u, seen)
  PROVE  whitelist' \in [Kinds -> [Users -> SUBSET Entry]]
  BY DEF TypeOK, RemoveExpired

LEMMA TypeInit == Init => TypeOK
<1> SUFFICES ASSUME Init PROVE TypeOK
  OBVIOUS
<1>1. cron \in CronJob
  BY DEF Init, CronIdle, CronJob, NothingSeen
<1>2. req = [r \in Reqs |-> Idle] /\ Idle.pc # "cleanup"
  BY DEF Init, Idle
<1> QED BY <1>1, <1>2, BoundAssumption DEF Init, TypeOK, Statuses

\* The handlers of a request.
LEMMA ServeType ==
  ASSUME TypeOK, NEW r \in Reqs, Serve(r)
  PROVE  TypeOK'
<1> USE DEF At
<1>1. PCs \ {"cleanup"} = {"whitelist", "readUser", "haveUser", "password",
                           "revokeAccess", "revokeRefresh", "revoke", "issue"}
  BY DEF PCs
<1>2. CASE ReadUser(r)
  <2>1. [req[r] EXCEPT !.pc = "haveUser",
                       !.active = (status[req[r].user] = "ACTIVE")] \in Request
    BY <1>2, ServedType DEF Request, ReadUser, PCs
  <2> QED BY <1>2, <2>1 DEF ReadUser, TypeOK
<1>3. CASE LoginCheck(r)
  BY <1>1, <1>3, GotoType, FinishType DEF LoginCheck, TypeOK
<1>4. CASE LoginMismatch(r)
  BY <1>4, FinishType DEF LoginMismatch, TypeOK
<1>5. CASE PrepareAuthTokens(r)
  <2> DEFINE seen == [k \in Kinds |-> whitelist[k][req[r].user]]
  <2>1. req[r].user \in Users /\ req[r] \in Request
    BY <1>5, ServedType DEF PrepareAuthTokens
  <2>2. seen \in [Kinds -> SUBSET Entry]
    BY <2>1 DEF TypeOK
  <2>3. \A k \in Kinds : EntryNow(k) \in Entry
    BY EntryNowFacts DEF TypeOK
  <2>4. SignedNow \in Nat
    BY EntryNowFacts DEF TypeOK
  <2>5. [req[r] EXCEPT !.pc = "cleanup", !.token = SignedNow, !.seen = seen]
          \in Request
    BY <2>1, <2>2, <2>4 DEF Request, PCs
  <2>6. /\ req' \in [Reqs -> Request \cup {Idle}]
        /\ \A s \in Reqs : req'[s].pc = "cleanup" => req'[s].token \in Nat
    <3>1. req' = [req EXCEPT ![r] = [req[r] EXCEPT !.pc = "cleanup",
                               !.token = SignedNow, !.seen = seen]]
      BY <1>5 DEF PrepareAuthTokens
    <3>2. [req[r] EXCEPT !.pc = "cleanup", !.token = SignedNow,
                         !.seen = seen].token = SignedNow
      BY <2>1 DEF Request
    <3> HIDE DEF seen
    <3> QED BY <3>1, <3>2, <2>4, <2>5 DEF TypeOK
  <2>7. whitelist' \in [Kinds -> [Users -> SUBSET Entry]]
    BY <1>5, <2>1, <2>3 DEF PrepareAuthTokens, TypeOK
  <2>8. revoked' \in [Kinds -> [Users -> SUBSET Nat]]
    BY <1>5, <2>1 DEF PrepareAuthTokens, TypeOK
  <2> QED BY <1>5, <2>6, <2>7, <2>8 DEF PrepareAuthTokens, TypeOK
<1>6. CASE Cleanup(r)
  <2>1. req[r].token \in Nat /\ req[r].user \in Users
    BY <1>6, ServedType DEF Cleanup, TypeOK
  <2>2. held' \in [Users -> SUBSET Nat]
    BY <1>6, <2>1 DEF Cleanup, TypeOK
  <2> QED BY <1>6, <2>1, <2>2, FinishType, RemoveExpiredType DEF Cleanup, TypeOK
<1>7. CASE AccessValidate(r)
  BY <1>1, <1>7, GotoType, FinishType DEF AccessValidate, TypeOK
<1>8. CASE AccessAuthorize(r)
  <2> DEFINE seen == [k \in Kinds |->
                        OfToken(whitelist[k][req[r].user],
                                IF k = "access" THEN req[r].token ELSE req[r].arg)]
  <2>1. req[r].user \in Users /\ req[r] \in Request
    BY <1>8, ServedType DEF AccessAuthorize
  <2>2. seen \in [Kinds -> SUBSET Entry]
    BY <2>1 DEF TypeOK, OfToken
  <2>3. [req[r] EXCEPT !.pc = "revokeAccess", !.seen = seen] \in Request
    BY <2>1, <2>2 DEF Request, PCs
  <2>4. CASE req' = [req EXCEPT ![r].pc = "revokeAccess", ![r].seen = seen]
    <3>1. [req[r] EXCEPT !.pc = "revokeAccess", !.seen = seen].pc # "cleanup"
      BY <2>1 DEF Request
    <3> HIDE DEF seen
    <3> QED BY <1>8, <2>3, <2>4, <3>1 DEF AccessAuthorize, TypeOK
  <2>5. CASE Finish(r)
    BY <1>8, <2>5, FinishType DEF AccessAuthorize, TypeOK
  <2> QED BY <1>8, <2>4, <2>5 DEF AccessAuthorize
<1>9. CASE SignoutAccess(r)
  BY <1>1, <1>9, GotoType, RemoveType, ServedType DEF SignoutAccess, TypeOK
<1>10. CASE SignoutRefresh(r)
  BY <1>10, FinishType, RemoveType, ServedType DEF SignoutRefresh, TypeOK
<1>11. CASE RefreshValidate(r)
  BY <1>1, <1>11, GotoType DEF RefreshValidate, TypeOK
<1>12. CASE RevokeAll(r)
  <2>1. req[r].user \in Users
    BY <1>12, ServedType DEF RevokeAll
  <2>2. \A k \in Kinds : {e.token : e \in whitelist[k][req[r].user]} \subseteq Nat
    BY <2>1 DEF TypeOK, Entry
  <2>3. /\ whitelist' \in [Kinds -> [Users -> SUBSET Entry]]
        /\ revoked' \in [Kinds -> [Users -> SUBSET Nat]]
    BY <1>12, <2>1, <2>2 DEF RevokeAll, TypeOK
  <2> QED BY <1>12, <2>3, FinishType DEF RevokeAll, TypeOK
<1>13. CASE RefreshAuthorize(r)
  <2> DEFINE read == OfToken(whitelist["refresh"][req[r].user], req[r].token)
  <2>1. req[r].user \in Users /\ req[r] \in Request
    BY <1>13, ServedType DEF RefreshAuthorize
  <2>2. read \in SUBSET Entry
    BY <2>1 DEF TypeOK, OfToken
  <2>3. [req[r] EXCEPT !.pc = "revoke", !.seen["refresh"] = read] \in Request
    BY <2>1, <2>2 DEF Request, PCs
  <2>4. CASE req' = [req EXCEPT ![r].pc = "revoke", ![r].seen["refresh"] = read]
    <3>1. [req[r] EXCEPT !.pc = "revoke", !.seen["refresh"] = read].pc # "cleanup"
      BY <2>1 DEF Request
    <3> HIDE DEF read
    <3> QED BY <1>13, <2>3, <2>4, <3>1 DEF RefreshAuthorize, TypeOK
  <2>5. CASE Finish(r)
    BY <1>13, <2>5, FinishType DEF RefreshAuthorize, TypeOK
  <2> QED BY <1>13, <2>4, <2>5 DEF RefreshAuthorize
<1>14. CASE RefreshRevoke(r)
  BY <1>1, <1>14, GotoType, RemoveType, ServedType DEF RefreshRevoke, TypeOK
<1> QED BY <1>2, <1>3, <1>4, <1>5, <1>6, <1>7, <1>8, <1>9, <1>10, <1>11,
           <1>12, <1>13, <1>14 DEF Serve

LEMMA ClientType ==
  ASSUME TypeOK, NEW r \in Reqs, NEW u \in Users, ClientStep(r, u)
  PROVE  TypeOK'
<1>1. CASE LoginStart(r, u)
  <2>1. /\ "readUser" \in PCs \ {"cleanup"}
        /\ NothingSeen \in [Kinds -> SUBSET Entry]
    BY DEF PCs, NothingSeen
  <2> QED BY <1>1, <2>1, BeginType DEF LoginStart, TypeOK
<1>2. ASSUME NEW t \in held[u], AccessStart(r, u, t)
      PROVE  TypeOK'
  <2>1. held[u] \cup {NoToken} \subseteq Nat \cup {NoToken}
    BY DEF TypeOK
  <2> QED BY <1>2, <2>1, PresentType DEF AccessStart
<1>3. ASSUME NEW t \in held[u], RefreshStart(r, u, t)
      PROVE  TypeOK'
  BY <1>3, PresentType DEF RefreshStart
<1> QED BY <1>1, <1>2, <1>3 DEF ClientStep

LEMMA CronType == ASSUME TypeOK, CronStep PROVE TypeOK'
<1>1. CASE CronStart
  BY <1>1 DEF CronStart, TypeOK, CronJob
<1>2. ASSUME NEW u \in Users, CronRead(u) PROVE TypeOK'
  BY <1>2 DEF CronRead, TypeOK, CronJob
<1>3. ASSUME NEW u \in Users, CronCleanup(u) PROVE TypeOK'
  <2>1. CronIdle \in CronJob /\ NothingSeen \in [Kinds -> SUBSET Entry]
    BY DEF CronIdle, CronJob, NothingSeen
  <2>2. cron' \in CronJob
    BY <1>3, <2>1 DEF CronCleanup, TypeOK, CronJob
  <2> QED BY <1>3, <2>2, RemoveExpiredType DEF CronCleanup, TypeOK
<1> QED BY <1>1, <1>2, <1>3 DEF CronStep

LEMMA EnvironmentType ==
  ASSUME TypeOK,
         Tick \/ Crash \/ \E u \in Users : ActivateUser(u) \/ BanUser(u)
  PROVE  TypeOK'
<1>1. CASE Tick
  BY <1>1 DEF Tick, TypeOK
<1>2. CASE Crash
  <2>1. CronIdle \in CronJob /\ Idle.pc # "cleanup"
    BY DEF CronIdle, CronJob, NothingSeen, Idle
  <2> QED BY <1>2, <2>1, BoundAssumption DEF Crash, TypeOK
<1>3. ASSUME NEW u \in Users, ActivateUser(u) \/ BanUser(u) PROVE TypeOK'
  BY <1>3, BoundAssumption DEF ActivateUser, BanUser, TypeOK, Statuses
<1> QED BY <1>1, <1>2, <1>3

LEMMA TypeStep == TypeOK /\ [Next]_vars => TypeOK'
<1> SUFFICES ASSUME TypeOK, [Next]_vars PROVE TypeOK'
  OBVIOUS
<1>1. CASE UNCHANGED vars
  BY <1>1 DEF vars, TypeOK
<1> QED BY <1>1, ServeType, ClientType, CronType, EnvironmentType DEF Next

\* Every variable keeps its type, whatever the constants are.
THEOREM TypeCorrect == Spec => []TypeOK
<1> QED BY TypeInit, TypeStep, PTL DEF Spec

-----------------------------------------------------------------------------
(* The whitelists.  A step is good to them when it keeps every listed      *)
(* entry outliving its JWT, lists no revoked token, and loses none that    *)
(* was accounted for.                                                      *)

ListsKept ==
  /\ ListedOutlive'
  /\ RevokedGone'
  /\ \A k \in Kinds, u \in Users : \A t \in Nat :
       Accounted(k, u, t) => Accounted(k, u, t)'

LEMMA IInvLists ==
  ASSUME IInv
  PROVE  /\ TypeOK
         /\ \A k \in Kinds, u \in Users : \A e \in whitelist[k][u] :
              e \in Entry /\ Outlives(e, k)
         /\ \A k \in Kinds, u \in Users : \A t \in revoked[k][u] :
              ~Listed(k, u, t)
  BY DEF IInv, TypeOK, ListedOutlive, RevokedGone

LEMMA ListsUnchanged ==
  ASSUME IInv, UNCHANGED <<now, whitelist, revoked>>
  PROVE  ListsKept
  BY DEF IInv, ListsKept, ListedOutlive, RevokedGone, Accounted, JwtAlive, Listed

LEMMA ListsTick == ASSUME IInv, Tick PROVE ListsKept
<1>1. Seconds(now) <= Seconds(now') /\ Seconds(now) \in Nat /\ Seconds(now') \in Nat
  BY SecondsMonotone, DivisionFacts DEF IInv, TypeOK, Tick
<1>2. ASSUME NEW k \in Kinds, NEW t \in Nat, JwtAlive(k, t)'
      PROVE  JwtAlive(k, t)
  BY <1>1, <1>2, TTLType DEF JwtAlive
<1> QED BY <1>2 DEF IInv, ListsKept, ListedOutlive, RevokedGone, Accounted,
                    Listed, Tick

LEMMA ListsPrepare ==
  ASSUME IInv, NEW r \in Reqs, PrepareAuthTokens(r),
         NEW u \in Users, u = req[r].user
  PROVE  /\ ListsKept
         /\ \A k \in Kinds : Listed(k, u, SignedNow)'
<1>1. ASSUME NEW k \in Kinds
      PROVE  /\ whitelist'[k][u] = whitelist[k][u] \cup {EntryNow(k)}
             /\ revoked'[k][u] = revoked[k][u] \ {SignedNow}
             /\ \A v \in Users \ {u} : /\ whitelist'[k][v] = whitelist[k][v]
                                       /\ revoked'[k][v] = revoked[k][v]
  BY IInvLists DEF PrepareAuthTokens, TypeOK
<1>2. \A k \in Kinds : /\ EntryNow(k).token = SignedNow
                       /\ Outlives(EntryNow(k), k)
  BY IInvLists, EntryNowFacts DEF TypeOK
<1>3. now' = now /\ SignedNow' = SignedNow
  BY DEF PrepareAuthTokens, SignedNow
<1>4. ListedOutlive'
  <2> SUFFICES ASSUME NEW k \in Kinds, NEW v \in Users, NEW e \in whitelist'[k][v]
               PROVE  Outlives(e, k)
    BY DEF ListedOutlive
  <2>1. CASE v = u
    BY <1>1, <1>2, <2>1, IInvLists
  <2>2. CASE v # u
    BY <1>1, <2>2, IInvLists
  <2> QED BY <2>1, <2>2
<1>5. RevokedGone'
  <2> SUFFICES ASSUME NEW k \in Kinds, NEW v \in Users, NEW t \in revoked'[k][v],
                      NEW e \in whitelist'[k][v], e.token = t
               PROVE  FALSE
    BY DEF RevokedGone, Listed
  <2>1. CASE v = u
    BY <1>1, <1>2, <2>1, IInvLists DEF Listed
  <2>2. CASE v # u
    BY <1>1, <2>2, IInvLists DEF Listed
  <2> QED BY <2>1, <2>2
<1>6. \A k \in Kinds : Listed(k, u, SignedNow)'
  BY <1>1, <1>2, <1>3 DEF Listed
<1>7. ASSUME NEW k \in Kinds, NEW v \in Users, NEW t \in Nat, Accounted(k, v, t)
      PROVE  Accounted(k, v, t)'
  <2>1. Listed(k, v, t) => Listed(k, v, t)'
    BY <1>1 DEF Listed
  <2>2. t \in revoked[k][v] => t \in revoked'[k][v] \/ Listed(k, v, t)'
    BY <1>1, <1>3, <1>6
  <2> QED BY <1>3, <1>7, <2>1, <2>2 DEF Accounted, JwtAlive
<1> QED BY <1>4, <1>5, <1>6, <1>7 DEF ListsKept

\* An entry the clean-up takes has expired, and so has its JWT.
LEMMA ListsRemoveExpired ==
  ASSUME IInv, NEW u \in Users, NEW seen, RemoveExpired(u, seen),
         UNCHANGED <<now, revoked>>
  PROVE  ListsKept
<1>1. ASSUME NEW k \in Kinds, NEW v \in Users
      PROVE  /\ whitelist'[k][v] \subseteq whitelist[k][v]
             /\ \A e \in whitelist[k][v] : NotExpired(e) => e \in whitelist'[k][v]
  BY IInvLists DEF RemoveExpired, TypeOK
<1>2. ListedOutlive'
  BY <1>1, IInvLists DEF ListedOutlive
<1>3. RevokedGone'
  BY <1>1, IInvLists DEF RevokedGone, Listed
<1>4. ASSUME NEW k \in Kinds, NEW v \in Users, NEW t \in Nat, JwtAlive(k, t),
             Listed(k, v, t)
      PROVE  Listed(k, v, t)'
  <2>1. PICK e \in whitelist[k][v] : e.token = t
    BY <1>4 DEF Listed
  <2>2. e \in Entry /\ Outlives(e, k) /\ now \in Nat
    BY IInvLists DEF TypeOK
  <2>3. NotExpired(e)
    BY <1>4, <2>1, <2>2, AliveNotExpired
  <2> QED BY <1>1, <2>1, <2>3 DEF Listed
<1>5. \A k \in Kinds, t \in Nat : JwtAlive(k, t)' <=> JwtAlive(k, t)
  BY DEF JwtAlive
<1> QED BY <1>2, <1>3, <1>4, <1>5 DEF ListsKept, Accounted

\* A revocation touches no token but the one it was asked to remove.
LEMMA ListsRemove ==
  ASSUME IInv, NEW k \in Kinds, NEW u \in Users, NEW entries,
         NEW target \in Nat \cup {NoToken}, AllOfToken(entries, target),
         Remove(k, u, entries, target), UNCHANGED now
  PROVE  ListsKept
<1>1. ASSUME NEW j \in Kinds, NEW v \in Users, ~(j = k /\ v = u)
      PROVE  whitelist'[j][v] = whitelist[j][v] /\ revoked'[j][v] = revoked[j][v]
  BY <1>1, IInvLists DEF Remove, TypeOK
<1>2. /\ whitelist'[k][u] = whitelist[k][u] \ entries
      /\ revoked'[k][u] = IF Listed(k, u, target)'
                          THEN revoked[k][u]
                          ELSE revoked[k][u] \cup ({target} \ {NoToken})
  BY IInvLists DEF Remove, TypeOK, OfToken, Listed
<1>3. ASSUME NEW j \in Kinds, NEW v \in Users
      PROVE  whitelist'[j][v] \subseteq whitelist[j][v]
  BY <1>1, <1>2
<1>4. ListedOutlive'
  BY <1>3, IInvLists DEF ListedOutlive
<1>5. RevokedGone'
  <2> SUFFICES ASSUME NEW j \in Kinds, NEW v \in Users, NEW t \in revoked'[j][v],
                      Listed(j, v, t)'
               PROVE  FALSE
    BY DEF RevokedGone
  <2>1. Listed(j, v, t)
    BY <1>3 DEF Listed
  <2>2. t \notin revoked[j][v]
    BY <2>1, IInvLists
  <2> QED BY <1>1, <1>2, <2>2
<1>6. ASSUME NEW j \in Kinds, NEW v \in Users, NEW t \in Nat, Accounted(j, v, t)
      PROVE  Accounted(j, v, t)'
  <2>1. CASE ~(j = k /\ v = u)
    BY <1>1, <1>6, <2>1 DEF Accounted, JwtAlive, Listed
  <2>2. CASE j = k /\ v = u /\ t = target
    BY <1>2, <2>2 DEF Accounted, NoToken
  <2>3. CASE j = k /\ v = u /\ t # target
    BY <1>2, <1>6, <2>3 DEF Accounted, JwtAlive, Listed, AllOfToken
  <2> QED BY <2>1, <2>2, <2>3
<1> QED BY <1>4, <1>5, <1>6 DEF ListsKept

LEMMA ListsRevokeAll ==
  ASSUME IInv, NEW r \in Reqs, RevokeAll(r)
  PROVE  ListsKept
<1>1. ASSUME NEW k \in Kinds, NEW u \in Users
      PROVE  \/ /\ whitelist'[k][u] = {}
                /\ revoked'[k][u] =
                     revoked[k][u] \cup {e.token : e \in whitelist[k][u]}
             \/ /\ whitelist'[k][u] = whitelist[k][u]
                /\ revoked'[k][u] = revoked[k][u]
  BY IInvLists DEF RevokeAll, TypeOK
<1>2. ListedOutlive'
  BY <1>1, IInvLists DEF ListedOutlive
<1>3. RevokedGone'
  BY <1>1, IInvLists DEF RevokedGone, Listed
<1>4. now' = now
  BY DEF RevokeAll
<1>5. ASSUME NEW k \in Kinds, NEW u \in Users, NEW t \in Nat, Accounted(k, u, t)
      PROVE  Accounted(k, u, t)'
  BY <1>1, <1>4, <1>5 DEF Accounted, Listed, JwtAlive
<1> QED BY <1>2, <1>3, <1>5 DEF ListsKept

-----------------------------------------------------------------------------
(* The inductive invariant.                                                *)

LEMMA IInvInit == Init => IInv
<1> SUFFICES ASSUME Init PROVE IInv
  OBVIOUS
<1>1. RequestSound(Idle) /\ Idle.pc # "cleanup"
  BY DEF RequestSound, BearerSeen, RevocationSeen, ReplayStopped, Idle
<1>2. \A r \in Reqs : req[r] = Idle
  BY DEF Init
<1>3. \A k \in Kinds, u \in Users :
        whitelist[k][u] = {} /\ revoked[k][u] = {} /\ held[u] = {}
  BY DEF Init
<1> QED BY <1>1, <1>2, <1>3, TypeInit
        DEF IInv, ListedOutlive, HeldAccounted, SignedAccounted, RevokedGone, At

LEMMA SignedStep ==
  ASSUME IInv, ListsKept,
         \A s \in Reqs : req'[s].pc = "cleanup" => req'[s] = req[s]
  PROVE  SignedAccounted'
<1> SUFFICES ASSUME NEW k \in Kinds, NEW s \in Reqs, req'[s].pc = "cleanup"
             PROVE  Accounted(k, req[s].user, req[s].token)'
  BY DEF SignedAccounted, At
<1>1. PICK u, t : u = req[s].user /\ t = req[s].token
  OBVIOUS
<1>2. req'[s] = req[s]
  OBVIOUS
<1>3. u \in Users /\ t \in Nat
  BY <1>1, <1>2, ServedType, IInvLists DEF TypeOK
<1>4. Accounted(k, u, t)
  BY <1>1, <1>2 DEF IInv, SignedAccounted, At
<1> QED BY <1>1, <1>2, <1>3, <1>4 DEF ListsKept, Accounted, JwtAlive, Listed

LEMMA HeldStep ==
  ASSUME IInv, ListsKept, UNCHANGED held
  PROVE  HeldAccounted'
<1>1. \A u \in Users : held[u] \subseteq Nat
  BY IInvLists DEF TypeOK
<1> QED BY <1>1 DEF IInv, HeldAccounted, ListsKept

\* A step that changes one request and is good to the lists.
LEMMA RequestStep ==
  ASSUME IInv, TypeOK', ListsKept, UNCHANGED held,
         NEW r \in Reqs, NEW q, req' = [req EXCEPT ![r] = q],
         RequestSound(q), q.pc # "cleanup"
  PROVE  IInv'
<1>1. \A s \in Reqs : req'[s] = IF s = r THEN q ELSE req[s]
  BY IInvLists DEF TypeOK
<1>2. SignedAccounted'
  BY <1>1, SignedStep
<1>3. \A s \in Reqs : RequestSound(req'[s])
  BY <1>1 DEF IInv
<1> QED BY <1>2, <1>3, HeldStep DEF IInv, ListsKept

LEMMA IdleSound == RequestSound(Idle) /\ Idle.pc # "cleanup"
  BY DEF RequestSound, BearerSeen, RevocationSeen, ReplayStopped, Idle

\* A step that touches no request.
LEMMA OtherStep ==
  ASSUME IInv, TypeOK', ListsKept, UNCHANGED <<held, req>>
  PROVE  IInv'
  BY SignedStep, HeldStep DEF IInv, ListsKept

LEMMA FinishStep ==
  ASSUME IInv, TypeOK', ListsKept, UNCHANGED held, NEW r \in Reqs, Finish(r)
  PROVE  IInv'
  BY RequestStep, IdleSound DEF Finish

\* Going on is safe from a request that is sound at the next place.
LEMMA GotoStep ==
  ASSUME IInv, TypeOK', ListsKept, UNCHANGED held, NEW r \in Reqs,
         req[r].pc # "idle", NEW pc \in PCs \ {"cleanup", "whitelist"}, Goto(r, pc),
         ~req[r].replay,
         pc = "revokeRefresh" => AllOfToken(req[r].seen["refresh"], req[r].arg),
         pc \notin {"revokeAccess", "revoke"}
  PROVE  IInv'
<1> DEFINE q == [req[r] EXCEPT !.pc = pc]
<1>1. req[r] \in Request
  BY IInvLists, ServedType
<1>2. q.pc = pc /\ q.seen = req[r].seen /\ q.arg = req[r].arg
        /\ (q.replay <=> req[r].replay)
  BY <1>1 DEF Request
<1>3. RequestSound(q)
  <2> HIDE DEF q
  <2> QED BY <1>2 DEF RequestSound, BearerSeen, RevocationSeen, ReplayStopped, PCs
<1>4. req' = [req EXCEPT ![r] = q]
  BY DEF Goto
<1> HIDE DEF q
<1> QED BY <1>2, <1>3, <1>4, RequestStep

LEMMA NotReplay ==
  ASSUME IInv, NEW r \in Reqs, req[r].pc \notin {"idle", "whitelist"}
  PROVE  ~req[r].replay
  BY DEF IInv, RequestSound, ReplayStopped

\* A reply that holds an unexpired entry is not the reply to a revoked token.
LEMMA ListedNotReplay ==
  ASSUME IInv, NEW r \in Reqs, req[r].pc = "whitelist",
         InWhitelist(r, BearerKind(req[r]))
  PROVE  ~req[r].replay
  BY DEF IInv, RequestSound, BearerSeen, InWhitelist

LEMMA ServeStep ==
  ASSUME IInv, TypeOK', NEW r \in Reqs, Serve(r)
  PROVE  IInv'
<1> USE DEF At
<1>0. PCs \ {"cleanup", "whitelist"} =
        {"readUser", "haveUser", "password", "revokeAccess", "revokeRefresh",
         "revoke", "issue"}
  BY DEF PCs
<1>1. CASE ReadUser(r)
  <2> DEFINE q == [req[r] EXCEPT !.pc = "haveUser",
                                 !.active = (status[req[r].user] = "ACTIVE")]
  <2>1. req[r] \in Request /\ req[r].pc = "readUser" /\ ~req[r].replay
    BY <1>1, IInvLists, ServedType, NotReplay DEF ReadUser
  <2>2. q.pc = "haveUser" /\ (q.replay <=> req[r].replay)
    BY <2>1 DEF Request
  <2>3. req' = [req EXCEPT ![r] = q] /\ ListsKept /\ held' = held
    BY <1>1, ListsUnchanged DEF ReadUser
  <2> HIDE DEF q
  <2>4. RequestSound(q)
    BY <2>1, <2>2 DEF RequestSound, BearerSeen, RevocationSeen, ReplayStopped
  <2> QED BY <2>2, <2>3, <2>4, RequestStep
<1>2. CASE LoginCheck(r)
  BY <1>0, <1>2, ListsUnchanged, GotoStep, FinishStep, NotReplay DEF LoginCheck
<1>3. CASE LoginMismatch(r)
  BY <1>3, ListsUnchanged, FinishStep DEF LoginMismatch
<1>4. CASE PrepareAuthTokens(r)
  <2> DEFINE q == [req[r] EXCEPT !.pc = "cleanup", !.token = SignedNow,
                     !.seen = [k \in Kinds |-> whitelist[k][req[r].user]]]
  <2>1. /\ req[r] \in Request
        /\ req[r].user \in Users
        /\ ~req[r].replay
    BY <1>4, IInvLists, ServedType, NotReplay DEF PrepareAuthTokens
  <2>2. /\ q.pc = "cleanup"
        /\ q.user = req[r].user
        /\ q.token = SignedNow
        /\ q.replay <=> req[r].replay
    BY <2>1 DEF Request
  <2>3. req' = [req EXCEPT ![r] = q] /\ held' = held /\ now' = now
    BY <1>4 DEF PrepareAuthTokens
  <2>4. SignedNow' = SignedNow
    BY <2>3 DEF SignedNow
  <2> HIDE DEF q
  <2>5. RequestSound(q)
    BY <2>1, <2>2 DEF RequestSound, BearerSeen, RevocationSeen, ReplayStopped
  <2>6. \A s \in Reqs : req'[s] = IF s = r THEN q ELSE req[s]
    BY <2>3, IInvLists DEF TypeOK
  <2>7. PICK u \in Users : u = req[r].user
    BY <2>1
  <2>8. ListsKept /\ \A k \in Kinds : Listed(k, u, SignedNow)'
    BY <1>4, <2>7, ListsPrepare
  <2>9. SignedAccounted'
    <3> SUFFICES ASSUME NEW k \in Kinds, NEW s \in Reqs, req'[s].pc = "cleanup"
                 PROVE  Accounted(k, req[s].user, req[s].token)'
      BY DEF SignedAccounted
    <3>1. CASE s = r
      BY <2>2, <2>4, <2>6, <2>7, <2>8, <3>1 DEF Accounted, Listed
    <3>2. CASE s # r
      <4>1. PICK v, t : v = req[s].user /\ t = req[s].token
        OBVIOUS
      <4>2. req'[s] = req[s]
        BY <2>6, <3>2
      <4>3. v \in Users /\ t \in Nat
        BY <4>1, <4>2, ServedType, IInvLists DEF TypeOK
      <4>4. Accounted(k, v, t)
        BY <4>1, <4>2 DEF IInv, SignedAccounted
      <4> QED BY <2>8, <4>1, <4>2, <4>3, <4>4
              DEF ListsKept, Accounted, JwtAlive, Listed
    <3> QED BY <3>1, <3>2
  <2>10. \A s \in Reqs : RequestSound(req'[s])
    BY <2>5, <2>6 DEF IInv
  <2> QED BY <2>3, <2>8, <2>9, <2>10, HeldStep DEF IInv, ListsKept
<1>5. CASE Cleanup(r)
  <2>1. PICK u \in Users, t \in Nat : u = req[r].user /\ t = req[r].token
    BY <1>5, IInvLists, ServedType DEF Cleanup, TypeOK
  <2>2. ListsKept
    BY <1>5, <2>1, ListsRemoveExpired DEF Cleanup
  <2>3. \A s \in Reqs : req'[s] = IF s = r THEN Idle ELSE req[s]
    BY <1>5, IInvLists DEF Cleanup, Finish, TypeOK
  <2>4. SignedAccounted'
    BY <2>2, <2>3, IdleSound, SignedStep
  <2>5. \A v \in Users : held'[v] = IF v = u THEN held[v] \cup {t} ELSE held[v]
    BY <1>5, <2>1, IInvLists DEF Cleanup, TypeOK
  <2>6. \A k \in Kinds : Accounted(k, u, t)
    BY <1>5, <2>1 DEF Cleanup, IInv, SignedAccounted
  <2>7. HeldAccounted'
    <3> SUFFICES ASSUME NEW k \in Kinds, NEW v \in Users, NEW x \in held'[v]
                 PROVE  Accounted(k, v, x)'
      BY DEF HeldAccounted
    <3>1. x \in Nat
      BY <2>5, IInvLists DEF TypeOK
    <3>2. Accounted(k, v, x)
      BY <2>5, <2>6 DEF IInv, HeldAccounted
    <3> QED BY <2>2, <3>1, <3>2 DEF ListsKept
  <2>8. \A s \in Reqs : RequestSound(req'[s])
    BY <2>3, IdleSound DEF IInv
  <2> QED BY <2>2, <2>4, <2>7, <2>8 DEF IInv, ListsKept
<1>6. CASE AccessValidate(r)
  <2>1. CASE InWhitelist(r, "access")
    BY <1>0, <1>6, <2>1, ListsUnchanged, GotoStep, ListedNotReplay
       DEF AccessValidate, BearerKind
  <2>2. CASE ~InWhitelist(r, "access")
    BY <1>6, <2>2, ListsUnchanged, FinishStep DEF AccessValidate
  <2> QED BY <2>1, <2>2
<1>7. CASE AccessAuthorize(r)
  <2> DEFINE q == [req[r] EXCEPT !.pc = "revokeAccess",
                     !.seen = [k \in Kinds |->
                        OfToken(whitelist[k][req[r].user],
                                IF k = "access" THEN req[r].token ELSE req[r].arg)]]
  <2>1. req[r] \in Request /\ ~req[r].replay /\ ListsKept /\ held' = held
    BY <1>7, IInvLists, ServedType, NotReplay, ListsUnchanged DEF AccessAuthorize
  <2>2. /\ q.pc = "revokeAccess"
        /\ q.replay <=> req[r].replay
        /\ AllOfToken(q.seen["access"], q.token)
        /\ AllOfToken(q.seen["refresh"], q.arg)
    BY <2>1 DEF Request, AllOfToken, OfToken
  <2>3. req' = [req EXCEPT ![r] = q] \/ Finish(r)
    BY <1>7 DEF AccessAuthorize
  <2> HIDE DEF q
  <2>4. RequestSound(q)
    BY <2>1, <2>2 DEF RequestSound, BearerSeen, RevocationSeen, ReplayStopped
  <2> QED BY <2>1, <2>2, <2>3, <2>4, RequestStep, FinishStep
<1>8. CASE SignoutAccess(r)
  <2>1. /\ AllOfToken(req[r].seen["access"], req[r].token)
        /\ AllOfToken(req[r].seen["refresh"], req[r].arg)
    BY <1>8 DEF SignoutAccess, IInv, RequestSound, RevocationSeen
  <2>2. ListsKept
    BY <1>8, <2>1, ListsRemove, IInvLists, ServedType DEF SignoutAccess
  <2> QED BY <1>0, <1>8, <2>1, <2>2, GotoStep, NotReplay DEF SignoutAccess
<1>9. CASE SignoutRefresh(r)
  <2>1. AllOfToken(req[r].seen["refresh"], req[r].arg)
    BY <1>9 DEF SignoutRefresh, IInv, RequestSound, RevocationSeen
  <2>2. ListsKept
    BY <1>9, <2>1, ListsRemove, IInvLists, ServedType DEF SignoutRefresh
  <2> QED BY <1>9, <2>2, FinishStep DEF SignoutRefresh
<1>10. CASE RefreshValidate(r)
  BY <1>0, <1>10, ListsUnchanged, GotoStep, ListedNotReplay
     DEF RefreshValidate, BearerKind
<1>11. CASE RevokeAll(r)
  BY <1>11, ListsRevokeAll, FinishStep DEF RevokeAll
<1>12. CASE RefreshAuthorize(r)
  <2> DEFINE q == [req[r] EXCEPT !.pc = "revoke", !.seen["refresh"] =
                     OfToken(whitelist["refresh"][req[r].user], req[r].token)]
  <2>1. req[r] \in Request /\ ~req[r].replay /\ ListsKept /\ held' = held
    BY <1>12, IInvLists, ServedType, NotReplay, ListsUnchanged DEF RefreshAuthorize
  <2>2. /\ q.pc = "revoke"
        /\ q.replay <=> req[r].replay
        /\ AllOfToken(q.seen["refresh"], q.token)
    BY <2>1 DEF Request, AllOfToken, OfToken
  <2>3. req' = [req EXCEPT ![r] = q] \/ Finish(r)
    BY <1>12 DEF RefreshAuthorize
  <2> HIDE DEF q
  <2>4. RequestSound(q)
    BY <2>1, <2>2 DEF RequestSound, BearerSeen, RevocationSeen, ReplayStopped
  <2> QED BY <2>1, <2>2, <2>3, <2>4, RequestStep, FinishStep
<1>13. CASE RefreshRevoke(r)
  <2>1. AllOfToken(req[r].seen["refresh"], req[r].token)
    BY <1>13 DEF RefreshRevoke, IInv, RequestSound, RevocationSeen
  <2>2. ListsKept
    BY <1>13, <2>1, ListsRemove, IInvLists, ServedType DEF RefreshRevoke
  <2> QED BY <1>0, <1>13, <2>2, GotoStep, NotReplay DEF RefreshRevoke
<1> QED BY <1>1, <1>2, <1>3, <1>4, <1>5, <1>6, <1>7, <1>8, <1>9, <1>10,
           <1>11, <1>12, <1>13 DEF Serve

\* A bearer token that was not revoked when sent is in the reply.
LEMMA PresentStep ==
  ASSUME IInv, TypeOK', NEW r \in Reqs, NEW u \in Users, NEW t, NEW arg,
         NEW op \in {"me", "signout", "refresh"}, NEW k \in Kinds,
         k = (IF op = "refresh" THEN "refresh" ELSE "access"),
         Present(r, op, k, u, t, arg)
  PROVE  IInv'
<1> DEFINE q == [pc |-> "whitelist", op |-> op, user |-> u, token |-> t,
                 arg |-> arg, active |-> FALSE, replay |-> t \in revoked[k][u],
                 seen |-> [NothingSeen EXCEPT ![k] = OfToken(whitelist[k][u], t)]]
           found == OfToken(whitelist[k][u], t)
<1>1. t \in revoked[k][u] <=> found = {}
  <2>1. Accounted(k, u, t) /\ JwtAlive(k, t)
    BY DEF Present, IInv, HeldAccounted
  <2>2. t \in revoked[k][u] => ~Listed(k, u, t)
    BY IInvLists
  <2>3. Listed(k, u, t) <=> found # {}
    BY DEF Listed, OfToken
  <2> HIDE DEF found
  <2> QED BY <2>1, <2>2, <2>3 DEF Accounted
<1>2. AllOfToken(found, t) /\ \A e \in found : Outlives(e, k)
  BY IInvLists DEF AllOfToken, OfToken
<1>3. /\ q.pc = "whitelist" /\ q.op = op /\ q.token = t
      /\ q.seen[k] = found
      /\ q.replay <=> t \in revoked[k][u]
  BY DEF NothingSeen
<1>4. BearerKind(q) = k
  BY <1>3 DEF BearerKind
<1>5. req' = [req EXCEPT ![r] = q] /\ ListsKept /\ held' = held
  BY ListsUnchanged DEF Present, Begin
<1> HIDE DEF q, found
<1>6. RequestSound(q)
  BY <1>1, <1>2, <1>3, <1>4
     DEF RequestSound, BearerSeen, RevocationSeen, ReplayStopped
<1> QED BY <1>3, <1>5, <1>6, RequestStep

LEMMA ClientIInv ==
  ASSUME IInv, TypeOK', NEW r \in Reqs, NEW u \in Users, ClientStep(r, u)
  PROVE  IInv'
<1>1. CASE LoginStart(r, u)
  <2> DEFINE q == [pc |-> "readUser", op |-> "login", user |-> u,
                   token |-> NoToken, arg |-> NoToken, active |-> FALSE,
                   replay |-> FALSE, seen |-> NothingSeen]
  <2>1. req' = [req EXCEPT ![r] = q] /\ ListsKept /\ held' = held
    BY <1>1, ListsUnchanged DEF LoginStart, Begin
  <2>2. RequestSound(q) /\ q.pc # "cleanup"
    BY DEF RequestSound, BearerSeen, RevocationSeen, ReplayStopped
  <2> HIDE DEF q
  <2> QED BY <2>1, <2>2, RequestStep
<1>2. ASSUME NEW t \in held[u], AccessStart(r, u, t) \/ RefreshStart(r, u, t)
      PROVE  IInv'
  BY <1>2, PresentStep DEF AccessStart, RefreshStart
<1> QED BY <1>1, <1>2 DEF ClientStep

LEMMA CronIInv == ASSUME IInv, TypeOK', CronStep PROVE IInv'
<1>1. CASE CronStart
  BY <1>1, ListsUnchanged, OtherStep DEF CronStart
<1>2. ASSUME NEW u \in Users, CronRead(u) PROVE IInv'
  BY <1>2, ListsUnchanged, OtherStep DEF CronRead
<1>3. ASSUME NEW u \in Users, CronCleanup(u) PROVE IInv'
  BY <1>3, ListsRemoveExpired, OtherStep DEF CronCleanup
<1> QED BY <1>1, <1>2, <1>3 DEF CronStep

LEMMA EnvironmentIInv ==
  ASSUME IInv, TypeOK',
         Tick \/ Crash \/ \E u \in Users : ActivateUser(u) \/ BanUser(u)
  PROVE  IInv'
<1>1. CASE Tick
  BY <1>1, ListsTick, OtherStep DEF Tick
<1>2. CASE Crash
  <2>1. ListsKept /\ held' = held /\ \A r \in Reqs : req'[r] = Idle
    BY <1>2, ListsUnchanged DEF Crash
  <2>2. SignedAccounted' /\ HeldAccounted'
    BY <2>1, SignedStep, HeldStep, IdleSound
  <2> QED BY <2>1, <2>2, IdleSound DEF IInv, ListsKept
<1>3. ASSUME NEW u \in Users, ActivateUser(u) \/ BanUser(u) PROVE IInv'
  BY <1>3, ListsUnchanged, OtherStep DEF ActivateUser, BanUser
<1> QED BY <1>1, <1>2, <1>3

LEMMA IInvStep == IInv /\ [Next]_vars => IInv'
<1> SUFFICES ASSUME IInv, [Next]_vars PROVE IInv'
  OBVIOUS
<1>1. TypeOK'
  BY TypeStep DEF IInv
<1>2. CASE UNCHANGED vars
  BY <1>1, <1>2, ListsUnchanged, OtherStep DEF vars
<1> QED BY <1>1, <1>2, ServeStep, ClientIInv, CronIInv, EnvironmentIInv DEF Next

\* The entries of each list outlive their JWTs, every signed token is accounted
\* for, and every reply a request holds is one its token justifies.
THEOREM Invariance == Spec => []IInv
<1> QED BY IInvInit, IInvStep, PTL DEF Spec

-----------------------------------------------------------------------------
(* What the invariant gives.                                               *)

\* Clean-up, concurrent requests and restarts lose no session: a token pair
\* the client holds works until it expires or is revoked.
THEOREM SessionsKept == Spec => []NoLiveTokenLost
<1>1. IInv => NoLiveTokenLost
  <2> SUFFICES ASSUME IInv, NEW u \in Users, NEW k \in Kinds, NEW t \in held[u],
                      JwtAlive(k, t), t \notin revoked[k][u]
               PROVE  \E e \in OfToken(whitelist[k][u], t) : NotExpired(e)
    BY DEF NoLiveTokenLost
  <2>1. Listed(k, u, t)
    BY DEF IInv, HeldAccounted, Accounted
  <2>2. PICK e \in whitelist[k][u] : e.token = t
    BY <2>1 DEF Listed
  <2>3. e \in Entry /\ Outlives(e, k) /\ now \in Nat
    BY IInvLists DEF TypeOK
  <2>4. NotExpired(e)
    BY <2>2, <2>3, AliveNotExpired
  <2> QED BY <2>2, <2>4 DEF OfToken
<1> QED BY <1>1, Invariance, PTL

\* A token sent after its revocation never passes the whitelist check of a
\* strategy, so it reaches no resolver and yields no new pair.
THEOREM RevocationHolds == Spec => []RevokedTokenRefused
<1>1. IInv => RevokedTokenRefused
  BY DEF IInv, RequestSound, ReplayStopped, RevokedTokenRefused, At
<1> QED BY <1>1, Invariance, PTL

\* A refusal has its reason.
LEMMA RefusalFollows == IInv => RefusalJustified
<1> SUFFICES ASSUME IInv, NEW r \in Reqs, req[r].pc = "whitelist",
                    ~req[r].replay, JwtAlive(BearerKind(req[r]), req[r].token)
             PROVE  InWhitelist(r, BearerKind(req[r]))
  BY DEF RefusalJustified, At
<1> DEFINE k == BearerKind(req[r])
<1>1. k \in Kinds
  BY DEF BearerKind
<1>2. /\ req[r].seen[k] # {}
      /\ AllOfToken(req[r].seen[k], req[r].token)
      /\ \A e \in req[r].seen[k] : Outlives(e, k)
  BY DEF IInv, RequestSound, BearerSeen
<1>3. PICK e \in req[r].seen[k] : e.token = req[r].token /\ Outlives(e, k)
  BY <1>2 DEF AllOfToken
<1>4. e \in Entry /\ now \in Nat
  BY <1>1, <1>3, IInvLists, ServedType DEF TypeOK
<1>5. NotExpired(e)
  BY <1>1, <1>3, <1>4, AliveNotExpired
<1> QED BY <1>3, <1>5 DEF InWhitelist

\* No refusal, and so no wipe of a user's sessions, without a revoked token or
\* one whose time ran out during the check.
THEOREM RefusalsJustified == Spec => []RefusalJustified
<1> QED BY RefusalFollows, Invariance, PTL

\* Only prepareAuthTokens adds to a list.
LEMMA OnlySigningLists ==
  ASSUME IInv, [Next]_vars, NEW k \in Kinds, NEW u \in Users, NEW t,
         Listed(k, u, t)', ~Listed(k, u, t)
  PROVE  t = SignedNow
<1>1. ASSUME NEW r \in Reqs, PrepareAuthTokens(r)
      PROVE  t = SignedNow
  <2>1. whitelist'[k][u] \subseteq whitelist[k][u] \cup {EntryNow(k)}
    BY <1>1, IInvLists DEF PrepareAuthTokens, TypeOK
  <2>2. EntryNow(k).token = SignedNow
    BY EntryNowFacts, IInvLists DEF TypeOK
  <2> QED BY <2>1, <2>2 DEF Listed
<1>2. ASSUME NEW v \in Users, NEW seen, RemoveExpired(v, seen)
      PROVE  FALSE
  <2>1. whitelist'[k][u] \subseteq whitelist[k][u]
    BY <1>2, IInvLists DEF RemoveExpired, TypeOK
  <2> QED BY <2>1 DEF Listed
<1>3. ASSUME NEW j \in Kinds, NEW v \in Users, NEW entries, NEW target,
             Remove(j, v, entries, target)
      PROVE  FALSE
  <2>1. whitelist'[k][u] \subseteq whitelist[k][u]
    BY <1>3, IInvLists DEF Remove, TypeOK
  <2> QED BY <2>1 DEF Listed
<1>4. ASSUME NEW r \in Reqs, RevokeAll(r)
      PROVE  FALSE
  <2>1. whitelist'[k][u] \subseteq whitelist[k][u]
    BY <1>4, IInvLists DEF RevokeAll, TypeOK
  <2> QED BY <2>1 DEF Listed
<1>5. whitelist' # whitelist
  BY DEF Listed
<1>6. ASSUME NEW r \in Reqs, Serve(r)
      PROVE  t = SignedNow
  <2>1. \/ PrepareAuthTokens(r) \/ Cleanup(r) \/ SignoutAccess(r)
        \/ SignoutRefresh(r) \/ RevokeAll(r) \/ RefreshRevoke(r)
    BY <1>5, <1>6 DEF Serve, ReadUser, LoginCheck, LoginMismatch, AccessValidate,
                      AccessAuthorize, RefreshValidate, RefreshAuthorize
  <2>2. Cleanup(r) => req[r].user \in Users
    BY ServedType, IInvLists DEF Cleanup, At
  <2>3. SignoutAccess(r) \/ SignoutRefresh(r) \/ RefreshRevoke(r) =>
          req[r].user \in Users
    BY ServedType, IInvLists DEF SignoutAccess, SignoutRefresh, RefreshRevoke, At
  <2> QED BY <1>1, <1>2, <1>3, <1>4, <2>1, <2>2, <2>3
          DEF Cleanup, SignoutAccess, SignoutRefresh, RefreshRevoke
<1>7. ASSUME NEW r \in Reqs, NEW v \in Users, ClientStep(r, v)
      PROVE  FALSE
  BY <1>5, <1>7 DEF ClientStep, LoginStart, AccessStart, RefreshStart, Present
<1>8. CASE CronStep
  BY <1>2, <1>5, <1>8 DEF CronStep, CronStart, CronRead, CronCleanup
<1>9. CASE UNCHANGED vars
  BY <1>5, <1>9 DEF vars
<1> QED BY <1>5, <1>6, <1>7, <1>8, <1>9
        DEF Next, Tick, Crash, ActivateUser, BanUser

\* A revoked token is dead for good, but for a signing of the same string
\* within the second of its iat.
THEOREM RevivalBySigning == Spec => RevivedOnlyBySigning
<1>1. IInv /\ [Next]_vars =>
        [\A u \in Users, k \in Kinds : \A t \in revoked[k][u] :
           Listed(k, u, t)' => t = SignedNow]_vars
  BY OnlySigningLists, IInvLists
<1> QED BY <1>1, Invariance, PTL DEF Spec, RevivedOnlyBySigning
=============================================================================
