----------------------- MODULE AuthTokensRegistryProofs -----------------------
(***************************************************************************)
(* AuthTokens implements TokenRegistry, for any users, requests, lifetimes *)
(* and any length of run.                                                  *)
(***************************************************************************)
EXTENDS AuthTokensRegistry, AuthTokensProofs

-----------------------------------------------------------------------------
(* The invariant of the refinement.                                        *)

LEMMA SecondType == ASSUME TypeOK PROVE SignedNow \in Nat
  BY DivisionFacts DEF TypeOK, SignedNow

\* Lists that lose entries, or gain entries signed now, keep a request recorded:
\* a token signed now that a request is to revoke is of the second it came in.
LEMMA RecordedLater ==
  ASSUME NEW q \in Request, NEW second, NEW l, NEW m, NEW n \in Nat, NEW o \in Nat,
         n <= o, Recorded(q, second, l, n),
         \A k \in Kinds, u \in Users : \A e \in m[k][u] : e \in l[k][u] \/ e.token = n
  PROVE  Recorded(q, second, m, o)
<1>1. SUFFICES ASSUME q # Idle PROVE Recorded(q, second, m, o)
  BY DEF Recorded
<1>2. /\ q.user \in Users
      /\ q.token \in Nat \cup {NoToken} /\ q.arg \in Nat \cup {NoToken}
  BY DEF Request
<1>3. /\ q.pc \in PlacesOf(q.op)
      /\ second \in Nat /\ second <= n
      /\ q.op # "login" /\ q.pc # "cleanup" => q.token <= second
      /\ q.pc = "cleanup" => q.token <= n
      /\ q.arg <= second
  BY <1>1 DEF Recorded
<1>4. ASSUME NEW k \in Kinds, Revoking(q, k),
             NEW e \in OfToken(m[k][q.user], Target(q, k)) \ q.seen[k]
      PROVE  e.token = second
  <2>1. CASE e \in l[k][q.user]
    BY <1>1, <1>4, <2>1 DEF Recorded, OfToken
  <2>2. CASE e.token = n
    <3>1. q.op # "login" /\ q.pc # "cleanup"
      BY <1>3, <1>4 DEF Revoking, PlacesOf
    <3>2. Target(q, k) <= second
      BY <1>3, <3>1 DEF Target
    <3>3. e.token = Target(q, k)
      BY <1>4 DEF OfToken
    <3> QED BY <1>3, <2>2, <3>2, <3>3
  <2> QED BY <1>2, <1>4, <2>1, <2>2 DEF OfToken
<1>5. second <= o /\ (q.pc = "cleanup" => q.token <= o)
  BY <1>2, <1>3 DEF NoToken
<1> QED BY <1>3, <1>4, <1>5 DEF Recorded

\* The second to record for a request that is served.
Since(r) == IF req[r] = Idle THEN SignedNow ELSE since[r]

LEMMA SinceFacts ==
  ASSUME RegistryInv, NEW r \in Reqs
  PROVE  Since(r) \in Nat /\ Since(r) <= SignedNow
  BY SecondType DEF RegistryInv, IInv, Since, Recorded

\* What a step has to show for RegistryInv.
LEMMA RegistryStep ==
  ASSUME RegistryInv, IInv', Remember, SignedNow <= SignedNow',
         \A k \in Kinds, u \in Users : \A e \in whitelist'[k][u] :
            e \in whitelist[k][u] \/ e.token = SignedNow,
         \A u \in Users : \A t \in held'[u] : t <= SignedNow,
         \A r \in Reqs : \/ req'[r] = req[r]
                         \/ Recorded(req'[r], Since(r), whitelist, SignedNow)
  PROVE  RegistryInv'
<1>1. SignedNow \in Nat /\ SignedNow' \in Nat
  BY SecondType, DivisionFacts DEF RegistryInv, IInv, TypeOK, SignedNow
<1>2. since' \in [Reqs -> Nat]
  BY <1>1 DEF Remember, RegistryInv
<1>3. \A u \in Users : \A t \in held'[u] : t <= SignedNow'
  <2>1. \A u \in Users : \A t \in held'[u] : t \in Nat
    BY DEF IInv, TypeOK
  <2> QED BY <1>1, <2>1
<1>4. ASSUME NEW r \in Reqs, req'[r] # Idle
      PROVE  Recorded(req'[r], since'[r], whitelist', SignedNow')
  <2>1. since'[r] = Since(r)
    BY <1>4 DEF Remember, Since
  <2>2. req'[r] \in Request
    BY <1>4 DEF IInv, TypeOK
  <2>3. Recorded(req'[r], Since(r), whitelist, SignedNow)
    BY <1>4 DEF RegistryInv, Since
  <2> QED BY <1>1, <2>1, <2>2, <2>3, RecordedLater
<1>5. \A r \in Reqs : Recorded(req'[r], since'[r], whitelist', SignedNow')
  BY <1>4 DEF Recorded
<1> QED BY <1>2, <1>3, <1>5 DEF RegistryInv

LEMMA RegistryInit ==
  ASSUME Init, since = [r \in Reqs |-> 0]
  PROVE  RegistryInv
<1>1. \A r \in Reqs : req[r] = Idle /\ \A u \in Users : held[u] = {}
  BY DEF Init
<1>2. \A u \in Users : held[u] = {}
  BY DEF Init
<1> QED BY <1>1, <1>2, IInvInit DEF RegistryInv, Recorded

\* A step of a request that only moves on.
LEMMA MoveRecorded ==
  ASSUME RegistryInv, NEW r \in Reqs, req[r] # Idle, NEW q,
         q.op = req[r].op, q.user = req[r].user, q.token = req[r].token,
         q.arg = req[r].arg, q.pc \in PlacesOf(q.op), q.pc # "cleanup",
         \A k \in Kinds : Revoking(q, k) =>
            \/ Revoking(req[r], k) /\ q.seen[k] = req[r].seen[k]
            \/ q.seen[k] = OfToken(whitelist[k][q.user], Target(q, k)),
         req[r].pc # "cleanup"
  PROVE  Recorded(q, Since(r), whitelist, SignedNow)
<1>1. Recorded(req[r], since[r], whitelist, SignedNow)
  BY DEF RegistryInv
<1>2. Since(r) = since[r]
  BY DEF Since
<1>3. ASSUME NEW k \in Kinds, Revoking(q, k),
             NEW e \in OfToken(whitelist[k][q.user], Target(q, k)) \ q.seen[k]
      PROVE  e.token = since[r]
  <2>1. Target(q, k) = Target(req[r], k)
    BY DEF Target
  <2>2. Revoking(req[r], k) /\ q.seen[k] = req[r].seen[k]
    BY <1>3
  <2> QED BY <1>1, <1>3, <2>1, <2>2 DEF Recorded
<1> QED BY <1>1, <1>2, <1>3 DEF Recorded

\* A step of one request that signs and hands out nothing.
LEMMA OneStep ==
  ASSUME RegistryInv, IInv', Remember, NEW r \in Reqs,
         UNCHANGED <<now, held>>,
         \A k \in Kinds, u \in Users : whitelist'[k][u] \subseteq whitelist[k][u],
         \A s \in Reqs \ {r} : req'[s] = req[s],
         Recorded(req'[r], Since(r), whitelist, SignedNow)
  PROVE  RegistryInv'
<1>1. SignedNow' = SignedNow /\ SignedNow \in Nat
  BY SecondType DEF SignedNow, RegistryInv, IInv
<1>2. \A u \in Users : \A t \in held'[u] : t <= SignedNow
  BY DEF RegistryInv
<1> QED BY <1>1, <1>2, RegistryStep

LEMMA ServeFacts ==
  ASSUME RegistryInv, NEW r \in Reqs, req[r].pc # "idle"
  PROVE  /\ IInv /\ req \in [Reqs -> Request \cup {Idle}]
         /\ whitelist \in [Kinds -> [Users -> SUBSET Entry]]
         /\ req[r] \in Request /\ req[r] # Idle
         /\ req[r].user \in Users
         /\ req[r].pc \in PlacesOf(req[r].op)
         /\ req[r].op \in {"login", "me", "signout", "refresh"}
         /\ Since(r) = since[r]
         /\ Recorded(req[r], since[r], whitelist, SignedNow)
<1>1. req[r] # Idle
  BY DEF Idle
<1>2. IInv /\ TypeOK
  BY DEF RegistryInv, IInv
<1> QED BY <1>1, <1>2, ServedType DEF RegistryInv, Recorded, Since, TypeOK, Request

LEMMA FinishRecorded ==
  ASSUME RegistryInv, IInv', Remember, NEW r \in Reqs, Finish(r),
         UNCHANGED <<now, held>>,
         \A k \in Kinds, u \in Users : whitelist'[k][u] \subseteq whitelist[k][u]
  PROVE  RegistryInv'
<1>1. \A s \in Reqs : req'[s] = IF s = r THEN Idle ELSE req[s]
  BY DEF Finish, RegistryInv, IInv, TypeOK
<1> QED BY <1>1, OneStep DEF Recorded

LEMMA GotoRecorded ==
  ASSUME RegistryInv, IInv', Remember, NEW r \in Reqs, NEW pc \in PCs, Goto(r, pc),
         req[r].pc \notin {"idle", "cleanup"}, pc # "cleanup",
         pc \in PlacesOf(req[r].op),
         pc = "revokeRefresh" => req[r].pc = "revokeAccess",
         pc \notin {"revokeAccess", "revoke"},
         UNCHANGED <<now, held>>,
         \A k \in Kinds, u \in Users : whitelist'[k][u] \subseteq whitelist[k][u]
  PROVE  RegistryInv'
<1> DEFINE q == [req[r] EXCEPT !.pc = pc]
<1>1. /\ q.op = req[r].op /\ q.user = req[r].user /\ q.token = req[r].token
      /\ q.arg = req[r].arg /\ q.seen = req[r].seen /\ q.pc = pc
  BY ServeFacts DEF Request
<1>2. \A s \in Reqs : req'[s] = IF s = r THEN q ELSE req[s]
  BY ServeFacts DEF Goto
<1> HIDE DEF q
<1>3. \A k \in Kinds : Revoking(q, k) => Revoking(req[r], k) /\ q.seen[k] = req[r].seen[k]
  BY <1>1 DEF Revoking
<1>4. Recorded(q, Since(r), whitelist, SignedNow)
  BY <1>1, <1>3, MoveRecorded, ServeFacts
<1> QED BY <1>2, <1>4, OneStep

LEMMA RemoveShrinks ==
  ASSUME TypeOK, NEW k \in Kinds, NEW v \in Users, NEW entries, NEW t,
         Remove(k, v, entries, t)
  PROVE  \A j \in Kinds, u \in Users : whitelist'[j][u] \subseteq whitelist[j][u]
  BY DEF Remove, TypeOK

LEMMA RemoveExpiredShrinks ==
  ASSUME TypeOK, NEW v \in Users, NEW seen, RemoveExpired(v, seen)
  PROVE  \A j \in Kinds, u \in Users : whitelist'[j][u] \subseteq whitelist[j][u]
  BY DEF RemoveExpired, TypeOK

LEMMA ServeRecorded ==
  ASSUME RegistryInv, IInv', Remember, NEW r \in Reqs, Serve(r)
  PROVE  RegistryInv'
<1> USE DEF At
<1>0. IInv /\ TypeOK
  BY DEF RegistryInv, IInv
<1>00. {"readUser", "haveUser", "password", "revokeAccess", "revokeRefresh",
        "revoke", "issue"} \subseteq PCs
  BY DEF PCs
<1>1. CASE ReadUser(r)
  <2> DEFINE q == [req[r] EXCEPT !.pc = "haveUser",
                                 !.active = (status[req[r].user] = "ACTIVE")]
  <2>1. req[r].pc = "readUser"
    BY <1>1 DEF ReadUser
  <2>2. /\ q.op = req[r].op /\ q.user = req[r].user /\ q.token = req[r].token
        /\ q.arg = req[r].arg /\ q.pc = "haveUser"
    BY <2>1, ServeFacts DEF Request
  <2>3. \A s \in Reqs : req'[s] = IF s = r THEN q ELSE req[s]
    BY <1>1, <2>1, ServeFacts DEF ReadUser
  <2>4. UNCHANGED <<now, held, whitelist>>
    BY <1>1 DEF ReadUser
  <2> HIDE DEF q
  <2>5. "haveUser" \in PlacesOf(req[r].op)
    BY <2>1, ServeFacts DEF PlacesOf
  <2>6. \A k \in Kinds : ~Revoking(q, k)
    BY <2>2 DEF Revoking
  <2>7. Recorded(q, Since(r), whitelist, SignedNow)
    BY <2>1, <2>2, <2>5, <2>6, MoveRecorded, ServeFacts
  <2> QED BY <2>3, <2>4, <2>7, OneStep
<1>2. CASE LoginCheck(r)
  <2>1. "password" \in PlacesOf(req[r].op)
    BY <1>2 DEF LoginCheck, PlacesOf
  <2> QED BY <1>00, <1>2, <2>1, GotoRecorded, FinishRecorded DEF LoginCheck
<1>3. CASE LoginMismatch(r)
  BY <1>3, FinishRecorded DEF LoginMismatch
<1>4. CASE PrepareAuthTokens(r)
  <2> DEFINE q == [req[r] EXCEPT !.pc = "cleanup", !.token = SignedNow,
                     !.seen = [k \in Kinds |-> whitelist[k][req[r].user]]]
  <2>1. req[r].pc \in {"password", "issue"}
    BY <1>4 DEF PrepareAuthTokens
  <2>2. /\ q.op = req[r].op /\ q.user = req[r].user /\ q.token = SignedNow
        /\ q.arg = req[r].arg /\ q.pc = "cleanup"
    BY <2>1, ServeFacts DEF Request
  <2>3. \A s \in Reqs : req'[s] = IF s = r THEN q ELSE req[s]
    BY <1>4, <2>1, ServeFacts DEF PrepareAuthTokens
  <2>4. UNCHANGED <<now, held>> /\ SignedNow' = SignedNow /\ SignedNow \in Nat
    BY <1>0, <1>4, SecondType DEF PrepareAuthTokens, SignedNow
  <2> HIDE DEF q
  <2>5. "cleanup" \in PlacesOf(req[r].op)
    BY <2>1, ServeFacts DEF PlacesOf
  <2>6. \A k \in Kinds : ~Revoking(q, k)
    BY <2>2 DEF Revoking
  <2>7. /\ since[r] \in Nat /\ since[r] <= SignedNow
        /\ req[r].arg <= since[r]
    BY <2>1, ServeFacts DEF Recorded
  <2>8. Recorded(q, Since(r), whitelist, SignedNow)
    BY <2>1, <2>2, <2>4, <2>5, <2>6, <2>7, ServeFacts DEF Recorded
  <2>9. \A k \in Kinds, u \in Users : \A e \in whitelist'[k][u] :
          e \in whitelist[k][u] \/ e.token = SignedNow
    <3>1. \A k \in Kinds, u \in Users :
            whitelist'[k][u] \subseteq whitelist[k][u] \cup {EntryNow(k)}
      BY <1>0, <1>4 DEF PrepareAuthTokens, TypeOK
    <3>2. \A k \in Kinds : EntryNow(k).token = SignedNow
      BY <1>0, EntryNowFacts DEF TypeOK
    <3> QED BY <3>1, <3>2
  <2>10. \A u \in Users : \A t \in held'[u] : t <= SignedNow
    BY <2>4 DEF RegistryInv
  <2> QED BY <2>3, <2>4, <2>8, <2>9, <2>10, RegistryStep
<1>5. CASE Cleanup(r)
  <2>1. req[r].pc = "cleanup"
    BY <1>5 DEF Cleanup
  <2>2. req[r].token <= SignedNow
    BY <2>1, ServeFacts DEF Recorded
  <2>3. \A u \in Users : \A t \in held'[u] : t <= SignedNow
    BY <1>0, <1>5, <2>2 DEF Cleanup, RegistryInv, TypeOK
  <2>4. \A k \in Kinds, u \in Users : whitelist'[k][u] \subseteq whitelist[k][u]
    BY <1>0, <1>5, <2>1, ServeFacts, RemoveExpiredShrinks DEF Cleanup
  <2>5. \A s \in Reqs : req'[s] = IF s = r THEN Idle ELSE req[s]
    BY <1>0, <1>5 DEF Cleanup, Finish, TypeOK
  <2>6. SignedNow' = SignedNow /\ SignedNow \in Nat
    BY <1>0, <1>5, SecondType DEF Cleanup, SignedNow
  <2> QED BY <2>3, <2>4, <2>5, <2>6, RegistryStep DEF Recorded
<1>6. CASE AccessValidate(r)
  <2>1. "readUser" \in PlacesOf(req[r].op)
    BY <1>6 DEF AccessValidate, PlacesOf
  <2> QED BY <1>00, <1>6, <2>1, GotoRecorded, FinishRecorded DEF AccessValidate
<1>7. CASE AccessAuthorize(r)
  <2> DEFINE q == [req[r] EXCEPT !.pc = "revokeAccess",
                     !.seen = [k \in Kinds |->
                        OfToken(whitelist[k][req[r].user],
                                IF k = "access" THEN req[r].token ELSE req[r].arg)]]
  <2>1. req[r].pc = "haveUser" /\ UNCHANGED <<now, held, whitelist>>
    BY <1>7 DEF AccessAuthorize
  <2>2. CASE Finish(r)
    BY <2>1, <2>2, FinishRecorded
  <2>3. CASE ~Finish(r)
    <3>1. req' = [req EXCEPT ![r] = q] /\ req[r].op = "signout"
      BY <1>7, <2>3 DEF AccessAuthorize
    <3>2. /\ q.op = req[r].op /\ q.user = req[r].user /\ q.token = req[r].token
          /\ q.arg = req[r].arg /\ q.pc = "revokeAccess"
          /\ q.seen = [k \in Kinds |->
                OfToken(whitelist[k][req[r].user],
                        IF k = "access" THEN req[r].token ELSE req[r].arg)]
      BY <2>1, ServeFacts DEF Request
    <3> HIDE DEF q
    <3>3. "revokeAccess" \in PlacesOf(req[r].op)
      BY <3>1 DEF PlacesOf
    <3>4. \A k \in Kinds : q.seen[k] = OfToken(whitelist[k][q.user], Target(q, k))
      BY <3>1, <3>2 DEF Target, Kinds
    <3>5. Recorded(q, Since(r), whitelist, SignedNow)
      BY <2>1, <3>2, <3>3, <3>4, MoveRecorded, ServeFacts
    <3>6. \A s \in Reqs : req'[s] = IF s = r THEN q ELSE req[s]
      BY <2>1, <3>1, ServeFacts
    <3> QED BY <2>1, <3>5, <3>6, OneStep
  <2> QED BY <2>2, <2>3
<1>8. CASE SignoutAccess(r)
  <2>1. req[r].pc = "revokeAccess"
    BY <1>8 DEF SignoutAccess
  <2>2. "revokeRefresh" \in PlacesOf(req[r].op)
    BY <2>1, ServeFacts DEF PlacesOf
  <2>3. \A k \in Kinds, u \in Users : whitelist'[k][u] \subseteq whitelist[k][u]
    BY <1>0, <1>8, <2>1, ServeFacts, RemoveShrinks DEF SignoutAccess, Kinds
  <2> QED BY <1>00, <1>8, <2>2, <2>3, GotoRecorded DEF SignoutAccess
<1>9. CASE SignoutRefresh(r)
  <2>1. req[r].pc = "revokeRefresh"
    BY <1>9 DEF SignoutRefresh
  <2>2. \A k \in Kinds, u \in Users : whitelist'[k][u] \subseteq whitelist[k][u]
    BY <1>0, <1>9, <2>1, ServeFacts, RemoveShrinks DEF SignoutRefresh, Kinds
  <2> QED BY <1>9, <2>2, FinishRecorded DEF SignoutRefresh
<1>10. CASE RefreshValidate(r)
  <2>1. "readUser" \in PlacesOf(req[r].op)
    BY <1>10 DEF RefreshValidate, PlacesOf
  <2> QED BY <1>00, <1>10, <2>1, GotoRecorded DEF RefreshValidate
<1>11. CASE RevokeAll(r)
  <2>1. \A k \in Kinds, u \in Users : whitelist'[k][u] \subseteq whitelist[k][u]
    BY <1>0, <1>11 DEF RevokeAll, TypeOK
  <2> QED BY <1>11, <2>1, FinishRecorded DEF RevokeAll
<1>12. CASE RefreshAuthorize(r)
  <2> DEFINE q == [req[r] EXCEPT !.pc = "revoke", !.seen["refresh"] =
                     OfToken(whitelist["refresh"][req[r].user], req[r].token)]
  <2>1. req[r].pc = "haveUser" /\ req[r].op = "refresh" /\ UNCHANGED <<now, held, whitelist>>
    BY <1>12 DEF RefreshAuthorize
  <2>2. CASE Finish(r)
    BY <2>1, <2>2, FinishRecorded
  <2>3. CASE ~Finish(r)
    <3>1. req' = [req EXCEPT ![r] = q]
      BY <1>12, <2>3 DEF RefreshAuthorize
    <3>2. /\ q.op = req[r].op /\ q.user = req[r].user /\ q.token = req[r].token
          /\ q.arg = req[r].arg /\ q.pc = "revoke"
          /\ q.seen["refresh"] =
                OfToken(whitelist["refresh"][req[r].user], req[r].token)
      BY <2>1, ServeFacts DEF Request, Kinds
    <3> HIDE DEF q
    <3>3. "revoke" \in PlacesOf(req[r].op)
      BY <2>1 DEF PlacesOf
    <3>4. \A k \in Kinds : Revoking(q, k) =>
            q.seen[k] = OfToken(whitelist[k][q.user], Target(q, k))
      BY <2>1, <3>2 DEF Target, Revoking
    <3>5. Recorded(q, Since(r), whitelist, SignedNow)
      BY <2>1, <3>2, <3>3, <3>4, MoveRecorded, ServeFacts
    <3>6. \A s \in Reqs : req'[s] = IF s = r THEN q ELSE req[s]
      BY <2>1, <3>1, ServeFacts
    <3> QED BY <2>1, <3>5, <3>6, OneStep
  <2> QED BY <2>2, <2>3
<1>13. CASE RefreshRevoke(r)
  <2>1. req[r].pc = "revoke"
    BY <1>13 DEF RefreshRevoke
  <2>2. "issue" \in PlacesOf(req[r].op)
    BY <2>1, ServeFacts DEF PlacesOf
  <2>3. \A k \in Kinds, u \in Users : whitelist'[k][u] \subseteq whitelist[k][u]
    BY <1>0, <1>13, <2>1, ServeFacts, RemoveShrinks DEF RefreshRevoke, Kinds
  <2> QED BY <1>00, <1>13, <2>2, <2>3, GotoRecorded DEF RefreshRevoke
<1> QED BY <1>1, <1>2, <1>3, <1>4, <1>5, <1>6, <1>7, <1>8, <1>9, <1>10,
           <1>11, <1>12, <1>13 DEF Serve

\* A request comes in.
LEMMA BeginRecorded ==
  ASSUME RegistryInv, IInv', Remember, NEW r \in Reqs, NEW u \in Users, NEW pc,
         NEW op, NEW t, NEW arg, NEW replay, NEW seen,
         Begin(r, pc, op, u, t, arg, replay, seen),
         pc \in {"readUser", "whitelist"}, pc \in PlacesOf(op),
         op # "login" => t <= SignedNow, arg <= SignedNow,
         UNCHANGED <<now, held, whitelist>>
  PROVE  RegistryInv'
<1> DEFINE q == [pc |-> pc, op |-> op, user |-> u, token |-> t, arg |-> arg,
                 active |-> FALSE, replay |-> replay, seen |-> seen]
<1>1. req[r] = Idle /\ req' = [req EXCEPT ![r] = q]
  BY DEF Begin
<1>2. /\ q.pc = pc /\ q.op = op /\ q.token = t /\ q.arg = arg
  OBVIOUS
<1>3. \A s \in Reqs : req'[s] = IF s = r THEN q ELSE req[s]
  BY <1>1 DEF RegistryInv, IInv, TypeOK
<1> HIDE DEF q
<1>4. \A k \in Kinds : ~Revoking(q, k)
  BY <1>2 DEF Revoking
<1>5. SignedNow \in Nat /\ Since(r) = SignedNow
  BY <1>1, SecondType DEF RegistryInv, IInv, Since
<1>6. Recorded(q, Since(r), whitelist, SignedNow)
  BY <1>2, <1>4, <1>5 DEF Recorded
<1> QED BY <1>3, <1>6, OneStep

LEMMA ClientRecorded ==
  ASSUME RegistryInv, IInv', Remember, NEW r \in Reqs, NEW u \in Users, ClientStep(r, u)
  PROVE  RegistryInv'
<1>1. SignedNow \in Nat /\ NoToken <= SignedNow /\ \A t \in held[u] : t <= SignedNow
  BY SecondType DEF RegistryInv, IInv, NoToken
<1>2. CASE LoginStart(r, u)
  <2>1. "readUser" \in PlacesOf("login")
    BY DEF PlacesOf
  <2> QED BY <1>1, <1>2, <2>1, BeginRecorded DEF LoginStart
<1>3. ASSUME NEW op \in {"me", "signout", "refresh"}, NEW k, NEW t \in held[u],
             NEW arg \in held[u] \cup {NoToken}, Present(r, op, k, u, t, arg)
      PROVE  RegistryInv'
  <2>1. "whitelist" \in PlacesOf(op)
    BY DEF PlacesOf
  <2> DEFINE replay == t \in revoked[k][u]
             seen == [NothingSeen EXCEPT ![k] = OfToken(whitelist[k][u], t)]
  <2>2. Begin(r, "whitelist", op, u, t, arg, replay, seen)
    BY <1>3 DEF Present
  <2>3. UNCHANGED <<now, held, whitelist>>
    BY <1>3 DEF Present
  <2>4. t <= SignedNow /\ arg <= SignedNow
    BY <1>1
  <2> HIDE DEF replay, seen
  <2> QED BY <2>1, <2>2, <2>3, <2>4, BeginRecorded
<1> QED BY <1>2, <1>3 DEF ClientStep, AccessStart, RefreshStart

LEMMA OtherRecorded ==
  ASSUME RegistryInv, IInv', Remember,
         \/ CronStep \/ Tick \/ Crash
         \/ \E u \in Users : ActivateUser(u) \/ BanUser(u)
         \/ UNCHANGED vars
  PROVE  RegistryInv'
<1>0. IInv /\ TypeOK
  BY DEF RegistryInv, IInv
<1>1. SignedNow <= SignedNow'
  <2>1. SignedNow \in Nat
    BY <1>0, SecondType
  <2>2. CASE now' = now
    BY <2>1, <2>2 DEF SignedNow
  <2>3. CASE Tick
    BY <1>0, <2>3, SecondsMonotone DEF Tick, TypeOK, SignedNow
  <2> QED BY <2>2, <2>3 DEF CronStep, CronStart, CronRead, CronCleanup, Crash,
                            ActivateUser, BanUser, vars
<1>2. \A j \in Kinds, u \in Users : whitelist'[j][u] \subseteq whitelist[j][u]
  BY <1>0, RemoveExpiredShrinks
  DEF CronStep, CronStart, CronRead, CronCleanup, Crash, Tick, ActivateUser,
      BanUser, vars
<1>3. \A u \in Users : \A t \in held'[u] : t <= SignedNow
  BY DEF RegistryInv, CronStep, CronStart, CronRead, CronCleanup, Crash, Tick,
         ActivateUser, BanUser, vars
<1>4. \A r \in Reqs : req'[r] = req[r] \/ req'[r] = Idle
  BY DEF CronStep, CronStart, CronRead, CronCleanup, Crash, Tick, ActivateUser,
         BanUser, vars
<1> QED BY <1>1, <1>2, <1>3, <1>4, RegistryStep DEF Recorded

LEMMA RegistryInductive ==
  RegistryInv /\ [Next /\ Remember]_RegistryVars => RegistryInv'
<1> SUFFICES ASSUME RegistryInv, [Next /\ Remember]_RegistryVars PROVE RegistryInv'
  OBVIOUS
<1>1. IInv'
  BY IInvStep DEF RegistryInv, RegistryVars
<1>2. CASE Next /\ Remember
  BY <1>1, <1>2, ServeRecorded, ClientRecorded, OtherRecorded DEF Next
<1>3. CASE UNCHANGED RegistryVars
  BY <1>1, <1>3 DEF RegistryVars, vars, RegistryInv, SignedNow
<1> QED BY <1>2, <1>3

\* What a revocation leaves behind was signed again after it read the list,
\* within the second its request came in.
THEOREM RegistryInvariance == RecordedSpec => []RegistryInv
<1> QED BY RegistryInit, RegistryInductive, PTL DEF RecordedSpec, RecordedInit, RecordedNext

-----------------------------------------------------------------------------
(* The steps, as the registry sees them.                                   *)

Later(r, q) == IF q = Idle THEN 0 ELSE Since(r)

LEMMA ServingOne ==
  ASSUME RegistryInv, Remember, NEW r \in Reqs, NEW q, req' = [req EXCEPT ![r] = q]
  PROVE  serving' = [serving EXCEPT ![r] = Served(q, Later(r, q))]
<1>1. \A s \in Reqs : req'[s] = IF s = r THEN q ELSE req[s]
  BY DEF RegistryInv, IInv, TypeOK
<1>2. ASSUME NEW s \in Reqs
      PROVE  Served(req'[s], since'[s]) =
               IF s = r THEN Served(q, Later(r, q)) ELSE Served(req[s], since[s])
  BY <1>1 DEF Remember, Later, Since, Served
<1> QED BY <1>2 DEF serving

LEMMA ServingFinish ==
  ASSUME RegistryInv, Remember, NEW r \in Reqs, Finish(r)
  PROVE  serving' = [serving EXCEPT ![r] = [stage |-> "none"]]
<1>1. Served(Idle, Later(r, Idle)) = [stage |-> "none"]
  BY DEF Served
<1> QED BY <1>1, ServingOne DEF Finish

LEMMA ServingSame ==
  ASSUME Remember, UNCHANGED req
  PROVE  serving' = serving
<1>1. \A s \in Reqs : Served(req'[s], since'[s]) = Served(req[s], since[s])
  BY DEF Remember, Served
<1> QED BY <1>1 DEF serving

LEMMA ServingAt ==
  ASSUME RegistryInv, NEW r \in Reqs, req[r].pc # "idle"
  PROVE  /\ serving[r] = Served(req[r], since[r])
         /\ serving[r].stage = Stage(req[r]) /\ serving[r].op = req[r].op
         /\ serving[r].user = req[r].user /\ serving[r].token = req[r].token
         /\ serving[r].arg = req[r].arg /\ serving[r].since = since[r]
         /\ serving[r].bearer = IF req[r].replay THEN "void" ELSE "valid"
         /\ serving[r] = [serving[r] EXCEPT !.stage = Stage(req[r])]
         /\ \A q : q.pc # "idle" => q # Idle /\ Later(r, q) = since[r]
<1>1. req[r] # Idle
  BY DEF Idle
<1>2. serving[r] = Served(req[r], since[r])
  BY DEF serving
<1>3. \A q : q.pc # "idle" => q # Idle /\ Later(r, q) = since[r]
  BY <1>1 DEF Idle, Later, Since
<1> QED BY <1>1, <1>2, <1>3 DEF Served

LEMMA ServedMove ==
  ASSUME NEW p, NEW q, NEW n, p # Idle, q # Idle, q.op = p.op, q.user = p.user,
         q.token = p.token, q.arg = p.arg, q.replay = p.replay
  PROVE  Served(q, n) = [Served(p, n) EXCEPT !.stage = Stage(q)]
<1>1. PICK b : b = IF p.replay THEN "void" ELSE "valid"
  OBVIOUS
<1>2. b = IF q.replay THEN "void" ELSE "valid"
  BY <1>1
<1>3. Served(p, n) = [stage |-> Stage(p), op |-> p.op, user |-> p.user,
                      token |-> p.token, arg |-> p.arg, bearer |-> b, since |-> n]
  BY <1>1 DEF Served
<1>4. Served(q, n) = [stage |-> Stage(q), op |-> q.op, user |-> q.user,
                      token |-> q.token, arg |-> q.arg, bearer |-> b, since |-> n]
  BY <1>2 DEF Served
<1> QED BY <1>3, <1>4

\* A request that moves on changes its stage only.
Restaged(r, stage) == [serving EXCEPT ![r] = [serving[r] EXCEPT !.stage = stage]]

LEMMA ServingMove ==
  ASSUME RegistryInv, Remember, NEW r \in Reqs, NEW q, req' = [req EXCEPT ![r] = q],
         req[r].pc # "idle", q.pc # "idle", q.op = req[r].op, q.user = req[r].user,
         q.token = req[r].token, q.arg = req[r].arg, q.replay = req[r].replay,
         NEW stage, Stage(q) = stage
  PROVE  /\ serving' = Restaged(r, stage)
         /\ stage = Stage(req[r]) => serving' = serving
<1>1. Served(q, Later(r, q)) = [serving[r] EXCEPT !.stage = stage]
  <2>1. req[r] # Idle /\ q # Idle /\ Later(r, q) = since[r]
    BY ServingAt DEF Idle
  <2>2. Served(q, since[r]) = [Served(req[r], since[r]) EXCEPT !.stage = Stage(q)]
    BY <2>1, ServedMove
  <2> QED BY <2>1, <2>2, ServingAt
<1>2. serving' = [serving EXCEPT ![r] = [serving[r] EXCEPT !.stage = stage]]
  <2> DEFINE x == Served(q, Later(r, q))
             y == [serving[r] EXCEPT !.stage = stage]
  <2>1. serving' = [serving EXCEPT ![r] = x] /\ x = y
    BY <1>1, ServingOne
  <2> HIDE DEF x
  <2>2. serving' = [serving EXCEPT ![r] = y]
    BY <2>1
  <2> QED BY <2>2
<1>3. stage = Stage(req[r]) => serving' = serving
  <2>1. ASSUME stage = Stage(req[r])
        PROVE  serving' = [serving EXCEPT ![r] = serving[r]]
    BY <1>2, <2>1, ServingAt
  <2>2. serving = [serving EXCEPT ![r] = serving[r]]
    BY DEF serving
  <2> QED BY <2>1, <2>2
<1>4. serving' = Restaged(r, stage)
  BY <1>2 DEF Restaged
<1> QED BY <1>3, <1>4

Moved(r, pc) == [req[r] EXCEPT !.pc = pc]

LEMMA GotoMove ==
  ASSUME RegistryInv, Remember, NEW r \in Reqs, NEW pc, Goto(r, pc),
         req[r].pc # "idle", pc # "idle",
         NEW stage, Stage(Moved(r, pc)) = stage
  PROVE  /\ serving' = Restaged(r, stage)
         /\ stage = Stage(req[r]) => serving' = serving
<1> DEFINE q == Moved(r, pc)
<1>1. /\ q.op = req[r].op /\ q.user = req[r].user /\ q.token = req[r].token
      /\ q.arg = req[r].arg /\ q.replay = req[r].replay /\ q.pc = pc
  BY ServeFacts DEF Request, Moved
<1>2. req' = [req EXCEPT ![r] = q] /\ Stage(q) = stage
  BY DEF Goto, Moved
<1> HIDE DEF q
<1> QED BY <1>1, <1>2, ServingMove

LEMMA ValidSame == ASSUME UNCHANGED whitelist PROVE valid' = valid
  BY DEF valid

LEMMA ValidAt ==
  ASSUME NEW k \in Kinds, NEW u \in Users, NEW t
  PROVE  t \in valid[k][u] <=> Listed(k, u, t)
  BY DEF valid, Tokens, Listed

\* What the clean-up removes is over.
LEMMA ValidPurged ==
  ASSUME IInv, NEW u \in Users, NEW seen, RemoveExpired(u, seen), UNCHANGED now
  PROVE  Registry!Purged(u)
<1> DEFINE gone == [k \in Kinds |-> valid[k][u] \ Tokens(whitelist'[k][u])]
<1>1. gone \in [Registry!Kinds -> SUBSET UNION {valid[k][u] : k \in Registry!Kinds}]
  BY DEF Kinds, Registry!Kinds
<1>2. ASSUME NEW k \in Kinds, NEW t \in gone[k]
      PROVE  ~Registry!Alive(k, t)
  <2>1. PICK e \in whitelist[k][u] : e.token = t
    BY <1>2 DEF valid, Tokens
  <2>2. e \notin whitelist'[k][u]
    BY <1>2, <2>1 DEF Tokens
  <2>3. ~NotExpired(e)
    BY <2>1, <2>2, IInvLists DEF RemoveExpired, TypeOK
  <2>4. ~JwtAlive(k, t)
    BY <2>1, <2>3, IInvLists, AliveNotExpired DEF TypeOK
  <2> QED BY <2>4 DEF JwtAlive, SignedNow, TTL, Registry!Alive
<1>3. ASSUME NEW k \in Kinds, NEW v \in Users
      PROVE  valid'[k][v] = IF v = u THEN valid[k][v] \ gone[k] ELSE valid[k][v]
  <2>1. whitelist'[k][v] \subseteq whitelist[k][v]
        /\ (v # u => whitelist'[k][v] = whitelist[k][v])
    BY IInvLists DEF RemoveExpired, TypeOK
  <2>2. valid'[k][v] = Tokens(whitelist'[k][v]) /\ valid[k][v] = Tokens(whitelist[k][v])
    BY DEF valid
  <2> QED BY <2>1, <2>2 DEF Tokens
<1>4. valid' = [k \in Kinds |-> [valid[k] EXCEPT ![u] = @ \ gone[k]]]
  <2>1. \A k \in Kinds : valid'[k] = [valid[k] EXCEPT ![u] = @ \ gone[k]]
    BY <1>3 DEF valid
  <2> QED BY <2>1 DEF valid
<1> HIDE DEF gone
<1> QED BY <1>1, <1>2, <1>4 DEF Registry!Purged, Kinds, Registry!Kinds

\* Entries of one token leave a list: so does the token, unless one stays.
LEMMA TokensRemoved ==
  ASSUME NEW W, NEW entries, NEW t, AllOfToken(entries, t)
  PROVE  /\ OfToken(W, t) \ entries = {} => Tokens(W \ entries) = Tokens(W) \ {t}
         /\ OfToken(W, t) \ entries # {} => Tokens(W \ entries) = Tokens(W)
<1>1. ASSUME OfToken(W, t) \ entries = {}
      PROVE  Tokens(W \ entries) = Tokens(W) \ {t}
  <2>1. \A e \in W : e \in entries <=> e.token = t
    BY <1>1 DEF OfToken, AllOfToken
  <2> QED BY <2>1 DEF Tokens
<1>2. ASSUME NEW e \in OfToken(W, t) \ entries
      PROVE  Tokens(W \ entries) = Tokens(W)
  <2>1. e \in W \ entries /\ e.token = t
    BY <1>2 DEF OfToken
  <2>2. \A d \in W : d \in entries => d.token = e.token
    BY <2>1 DEF AllOfToken
  <2> QED BY <2>1, <2>2 DEF Tokens
<1> QED BY <1>1, <1>2

\* A revocation removes its token, or leaves it because it was signed again.
LEMMA ValidRemove ==
  ASSUME IInv, NEW k \in Kinds, NEW u \in Users, NEW entries, NEW t, NEW second,
         Remove(k, u, entries, t), AllOfToken(entries, t),
         \A e \in OfToken(whitelist[k][u], t) \ entries : e.token = second
  PROVE  \/ valid' = [valid EXCEPT ![k][u] = @ \ {t}]
         \/ t = second /\ valid' = valid
<1>1. /\ whitelist'[k][u] = whitelist[k][u] \ entries
      /\ \A v \in Users : v # u => whitelist'[k][v] = whitelist[k][v]
      /\ \A j \in Kinds, v \in Users : j # k => whitelist'[j][v] = whitelist[j][v]
  BY IInvLists DEF Remove, TypeOK
<1>2. \A j \in Kinds, v \in Users : /\ valid'[j][v] = Tokens(whitelist'[j][v])
                                   /\ valid[j][v] = Tokens(whitelist[j][v])
  BY DEF valid
<1>3. /\ \A v \in Users : v # u => valid'[k][v] = valid[k][v]
      /\ \A j \in Kinds, v \in Users : j # k => valid'[j][v] = valid[j][v]
  <2>1. ASSUME NEW j \in Kinds, NEW v \in Users, whitelist'[j][v] = whitelist[j][v]
        PROVE  valid'[j][v] = valid[j][v]
    BY <1>2, <2>1
  <2> QED BY <1>1, <2>1
<1> DEFINE x == valid'
           y == valid
<1>4. /\ x \in [Kinds -> [Users -> SUBSET {e.token : e \in Entry}]]
      /\ y \in [Kinds -> [Users -> SUBSET {e.token : e \in Entry}]]
  <2>1. \A j \in Kinds, v \in Users : /\ whitelist'[j][v] \subseteq whitelist[j][v]
                                     /\ whitelist[j][v] \subseteq Entry
    BY IInvLists, RemoveShrinks
  <2> QED BY <2>1 DEF valid, Tokens
<1>5. CASE OfToken(whitelist[k][u], t) \ entries = {}
  <2>1. x[k][u] = y[k][u] \ {t}
    BY <1>1, <1>2, <1>5, TokensRemoved
  <2> HIDE DEF x, y
  <2>2. x[k] = [y[k] EXCEPT ![u] = @ \ {t}]
    BY <1>3, <1>4, <2>1 DEF x, y
  <2>3. \A j \in Kinds : j # k => x[j] = y[j]
    BY <1>3, <1>4 DEF x, y
  <2>4. x = [y EXCEPT ![k] = [y[k] EXCEPT ![u] = @ \ {t}]]
    BY <1>4, <2>2, <2>3
  <2> QED BY <2>4 DEF x, y
<1>6. CASE OfToken(whitelist[k][u], t) \ entries # {}
  <2>1. x[k][u] = y[k][u]
    <3>1. Tokens(whitelist[k][u] \ entries) = Tokens(whitelist[k][u])
      BY <1>6, TokensRemoved
    <3>2. x[k][u] = Tokens(whitelist[k][u] \ entries)
      BY <1>1, <1>2
    <3>3. y[k][u] = Tokens(whitelist[k][u])
      BY <1>2
    <3> HIDE DEF x, y
    <3> QED BY <3>1, <3>2, <3>3
  <2>2. t = second
    BY <1>6 DEF OfToken
  <2>3. \A j \in Kinds, v \in Users : x[j][v] = y[j][v]
    BY <1>3, <2>1
  <2> HIDE DEF x, y
  <2>4. x = y
    BY <1>4, <2>3
  <2> QED BY <2>2, <2>4 DEF x, y
<1> QED BY <1>5, <1>6

\* The requests being served.
LEMMA ServeSimulates ==
  ASSUME RegistryInv, Remember, NEW r \in Reqs, Serve(r)
  PROVE  Registry!Next \/ UNCHANGED Registry!vars
<1> USE DEF At
<1>0. IInv /\ TypeOK
  BY DEF RegistryInv, IInv
<1>00. ASSUME Finish(r), UNCHANGED <<now, status, whitelist, held>>
        PROVE  Registry!Next
  <2>1. Registry!Drop(r)
    BY <1>00, ServingFinish, ValidSame DEF Registry!Drop, Registry!None, SignedNow
  <2> QED BY <2>1 DEF Registry!Next
<1>1. CASE ReadUser(r)
  <2> DEFINE q == [req[r] EXCEPT !.pc = "haveUser",
                                 !.active = (status[req[r].user] = "ACTIVE")]
  <2>1. req[r].pc = "readUser" /\ req' = [req EXCEPT ![r] = q]
        /\ UNCHANGED <<now, status, whitelist, held>>
    BY <1>1 DEF ReadUser
  <2>2. /\ q.op = req[r].op /\ q.user = req[r].user /\ q.token = req[r].token
        /\ q.arg = req[r].arg /\ q.replay = req[r].replay /\ q.pc = "haveUser"
        /\ q.active <=> status[req[r].user] = "ACTIVE"
    BY <2>1, ServeFacts DEF Request
  <2> HIDE DEF q
  <2>3. Stage(req[r]) = "asked"
    BY <2>1 DEF Stage
  <2>4. CASE q.active
    <3>1. Stage(q) = "authorised"
      BY <2>2, <2>4 DEF Stage
    <3>2. serving' = Restaged(r, "authorised")
      BY <2>1, <2>2, <3>1, ServingMove
    <3>3. /\ serving[r].stage = "asked" /\ serving[r].bearer = "valid"
          /\ status[serving[r].user] = "ACTIVE"
      BY <1>0, <2>1, <2>2, <2>3, <2>4, ServingAt, NotReplay
    <3>4. Registry!Authorise(r)
      BY <2>1, <3>2, <3>3, ValidSame DEF Registry!Authorise, Restaged, SignedNow
    <3> QED BY <3>4 DEF Registry!Next
  <2>5. CASE ~q.active
    <3>1. Stage(q) = "asked"
      BY <2>2, <2>5 DEF Stage
    <3>2. serving' = serving
      BY <2>1, <2>2, <2>3, <3>1, ServingMove
    <3> QED BY <2>1, <3>2, ValidSame DEF Registry!vars, SignedNow
  <2> QED BY <2>4, <2>5
<1>2. ASSUME NEW pc \in PCs, Goto(r, pc), UNCHANGED <<now, status, whitelist, held>>,
             req[r].pc # "idle", Stage(Moved(r, pc)) = Stage(req[r])
      PROVE  UNCHANGED Registry!vars
  <2>1. serving' = serving
    BY <1>2, GotoMove DEF PCs
  <2> QED BY <1>2, <2>1, ValidSame DEF Registry!vars, SignedNow
<1>3. ASSUME NEW pc
      PROVE  req[r].pc # "idle" =>
               Moved(r, pc).pc = pc /\ Moved(r, pc).active = req[r].active
  BY ServeFacts DEF Request, Moved
<1>4. CASE LoginCheck(r)
  <2>1. CASE Finish(r)
    BY <1>00, <1>4, <2>1 DEF LoginCheck
  <2>2. CASE ~Finish(r)
    <3>1. req[r].pc = "haveUser" /\ req[r].active /\ Goto(r, "password")
          /\ UNCHANGED <<now, status, whitelist, held>>
      BY <1>4, <2>2 DEF LoginCheck
    <3>2. Stage(Moved(r, "password")) = Stage(req[r])
      BY <1>3, <3>1 DEF Stage
    <3> QED BY <1>2, <3>1, <3>2 DEF PCs
  <2> QED BY <2>1, <2>2
<1>5. CASE LoginMismatch(r)
  BY <1>00, <1>5 DEF LoginMismatch
<1>6. CASE PrepareAuthTokens(r)
  <2> DEFINE q == [req[r] EXCEPT !.pc = "cleanup", !.token = SignedNow,
                     !.seen = [k \in Kinds |-> whitelist[k][req[r].user]]]
  <2>1. /\ req[r].pc \in {"password", "issue"} /\ req' = [req EXCEPT ![r] = q]
        /\ UNCHANGED <<now, status, held>>
    BY <1>6 DEF PrepareAuthTokens
  <2>2. /\ q.op = req[r].op /\ q.user = req[r].user /\ q.token = SignedNow
        /\ q.arg = req[r].arg /\ q.replay = req[r].replay /\ q.pc = "cleanup"
    BY <2>1, ServeFacts DEF Request
  <2> HIDE DEF q
  <2>3. Served(q, since[r]) =
          [serving[r] EXCEPT !.stage = "signed", !.token = SignedNow]
    <3>1. PICK b : b = IF req[r].replay THEN "void" ELSE "valid"
      OBVIOUS
    <3>2. q # Idle /\ req[r] # Idle
      BY <2>1, <2>2 DEF Idle
    <3>3. Served(q, since[r]) =
            [stage |-> "signed", op |-> req[r].op, user |-> req[r].user,
             token |-> SignedNow, arg |-> req[r].arg, bearer |-> b, since |-> since[r]]
      BY <2>2, <3>1, <3>2 DEF Served, Stage
    <3>4. serving[r] =
            [stage |-> Stage(req[r]), op |-> req[r].op, user |-> req[r].user,
             token |-> req[r].token, arg |-> req[r].arg, bearer |-> b,
             since |-> since[r]]
      BY <2>1, <3>1, <3>2, ServingAt DEF Served
    <3> HIDE DEF q
    <3> DEFINE z == serving[r]
    <3>5. z = [stage |-> Stage(req[r]), op |-> req[r].op, user |-> req[r].user,
               token |-> req[r].token, arg |-> req[r].arg, bearer |-> b,
               since |-> since[r]]
      BY <3>4
    <3> HIDE DEF z
    <3> DEFINE y == [z EXCEPT !.stage = "signed"]
    <3>6. y = [stage |-> "signed", op |-> req[r].op, user |-> req[r].user,
               token |-> req[r].token, arg |-> req[r].arg, bearer |-> b,
               since |-> since[r]]
      BY <3>5
    <3>7. [z EXCEPT !.stage = "signed", !.token = SignedNow] =
            [y EXCEPT !.token = SignedNow]
      OBVIOUS
    <3> HIDE DEF y
    <3>8. [y EXCEPT !.token = SignedNow] =
            [stage |-> "signed", op |-> req[r].op, user |-> req[r].user,
             token |-> SignedNow, arg |-> req[r].arg, bearer |-> b,
             since |-> since[r]]
      BY <3>6
    <3>9. [z EXCEPT !.stage = "signed", !.token = SignedNow] =
            [stage |-> "signed", op |-> req[r].op, user |-> req[r].user,
             token |-> SignedNow, arg |-> req[r].arg, bearer |-> b,
             since |-> since[r]]
      BY <3>7, <3>8
    <3>10. Served(q, since[r]) = [z EXCEPT !.stage = "signed", !.token = SignedNow]
      BY <3>3, <3>9
    <3> QED BY <3>10 DEF z
  <2>4. serving' = [serving EXCEPT ![r].stage = "signed", ![r].token = SignedNow]
    <3>1. Later(r, q) = since[r]
      BY <2>1, <2>2, ServingAt
    <3>2. serving' = [serving EXCEPT ![r] = Served(q, since[r])]
      BY <2>1, <3>1, ServingOne
    <3> QED BY <2>3, <3>2
  <2>5. \/ serving[r].stage = "authorised" /\ serving[r].op = "login"
        \/ serving[r].stage = "spent"
    <3>1. req[r].pc = "password" => req[r].op = "login"
      BY ServeFacts DEF PlacesOf
    <3> QED BY <2>1, <3>1, ServingAt DEF Stage
  <2>6. valid' = [k \in Registry!Kinds |->
                   [valid[k] EXCEPT ![serving[r].user] = @ \cup {SignedNow}]]
    <3>1. serving[r].user = req[r].user
      BY <2>1, ServingAt
    <3>2. ASSUME NEW k \in Kinds, NEW v \in Users
          PROVE  Tokens(whitelist'[k][v]) =
                   IF v = req[r].user THEN Tokens(whitelist[k][v]) \cup {SignedNow}
                   ELSE Tokens(whitelist[k][v])
      <4>1. whitelist'[k][v] = IF v = req[r].user
                               THEN whitelist[k][v] \cup {EntryNow(k)} ELSE whitelist[k][v]
        BY <1>0, <1>6 DEF PrepareAuthTokens, TypeOK
      <4>2. EntryNow(k).token = SignedNow
        BY <1>0, EntryNowFacts DEF TypeOK
      <4> QED BY <4>1, <4>2 DEF Tokens
    <3>3. \A k \in Kinds : valid'[k] =
                   [valid[k] EXCEPT ![req[r].user] = @ \cup {SignedNow}]
      BY <3>2 DEF valid
    <3> QED BY <3>1, <3>3 DEF valid, Kinds, Registry!Kinds
  <2>7. Registry!Issue(r)
    BY <2>1, <2>4, <2>5, <2>6 DEF Registry!Issue, SignedNow
  <2> QED BY <2>7 DEF Registry!Next
<1>7. CASE Cleanup(r)
  <2>1. req[r].pc = "cleanup" /\ Finish(r) /\ UNCHANGED <<now, status>>
        /\ held' = [held EXCEPT ![req[r].user] = @ \cup {req[r].token}]
    BY <1>7 DEF Cleanup
  <2>2. /\ serving[r].stage = "signed" /\ serving[r].user = req[r].user
        /\ serving[r].token = req[r].token
    BY <2>1, ServingAt DEF Stage
  <2>3. Registry!Purged(req[r].user)
    BY <1>0, <1>7, <2>1, ServeFacts, ValidPurged DEF Cleanup
  <2>4. Registry!Answer(r)
    BY <2>1, <2>2, <2>3, ServingFinish DEF Registry!Answer, Registry!None, SignedNow
  <2> QED BY <2>4 DEF Registry!Next
<1>8. CASE AccessValidate(r)
  <2>1. CASE Finish(r)
    BY <1>00, <1>8, <2>1 DEF AccessValidate
  <2>2. CASE ~Finish(r)
    <3>1. req[r].pc = "whitelist" /\ Goto(r, "readUser")
          /\ UNCHANGED <<now, status, whitelist, held>>
      BY <1>8, <2>2 DEF AccessValidate
    <3>2. Stage(Moved(r, "readUser")) = Stage(req[r])
      BY <1>3, <3>1 DEF Stage
    <3> QED BY <1>2, <3>1, <3>2 DEF PCs
  <2> QED BY <2>1, <2>2
<1>9. CASE RefreshValidate(r)
  <2>1. req[r].pc = "whitelist" /\ Goto(r, "readUser")
        /\ UNCHANGED <<now, status, whitelist, held>>
    BY <1>9 DEF RefreshValidate
  <2>2. Stage(Moved(r, "readUser")) = Stage(req[r])
    BY <1>3, <2>1 DEF Stage
  <2> QED BY <1>2, <2>1, <2>2 DEF PCs
<1>10. CASE AccessAuthorize(r)
  <2>1. CASE Finish(r)
    BY <1>00, <1>10, <2>1 DEF AccessAuthorize
  <2>2. CASE ~Finish(r)
    <3> DEFINE q == [req[r] EXCEPT !.pc = "revokeAccess",
                       !.seen = [k \in Kinds |->
                          OfToken(whitelist[k][req[r].user],
                                  IF k = "access" THEN req[r].token ELSE req[r].arg)]]
    <3>1. /\ req[r].pc = "haveUser" /\ req[r].active /\ req' = [req EXCEPT ![r] = q]
          /\ UNCHANGED <<now, status, whitelist, held>>
      BY <1>10, <2>2 DEF AccessAuthorize
    <3>2. /\ q.op = req[r].op /\ q.user = req[r].user /\ q.token = req[r].token
          /\ q.arg = req[r].arg /\ q.replay = req[r].replay /\ q.pc = "revokeAccess"
      BY <3>1, ServeFacts DEF Request
    <3> HIDE DEF q
    <3>3. Stage(q) = Stage(req[r])
      BY <3>1, <3>2 DEF Stage
    <3>4. serving' = serving
      BY <3>1, <3>2, <3>3, ServingMove
    <3> QED BY <3>1, <3>4, ValidSame DEF Registry!vars, SignedNow
  <2> QED BY <2>1, <2>2
<1>11. CASE RefreshAuthorize(r)
  <2>1. CASE Finish(r)
    BY <1>00, <1>11, <2>1 DEF RefreshAuthorize
  <2>2. CASE ~Finish(r)
    <3> DEFINE q == [req[r] EXCEPT !.pc = "revoke", !.seen["refresh"] =
                       OfToken(whitelist["refresh"][req[r].user], req[r].token)]
    <3>1. /\ req[r].pc = "haveUser" /\ req[r].active /\ req' = [req EXCEPT ![r] = q]
          /\ UNCHANGED <<now, status, whitelist, held>>
      BY <1>11, <2>2 DEF RefreshAuthorize
    <3>2. /\ q.op = req[r].op /\ q.user = req[r].user /\ q.token = req[r].token
          /\ q.arg = req[r].arg /\ q.replay = req[r].replay /\ q.pc = "revoke"
      BY <3>1, ServeFacts DEF Request
    <3> HIDE DEF q
    <3>3. Stage(q) = Stage(req[r])
      BY <3>1, <3>2 DEF Stage
    <3>4. serving' = serving
      BY <3>1, <3>2, <3>3, ServingMove
    <3> QED BY <3>1, <3>4, ValidSame DEF Registry!vars, SignedNow
  <2> QED BY <2>1, <2>2
<1>12. ASSUME NEW k \in Kinds, Revoking(req[r], k), req[r].pc # "idle",
              Remove(k, req[r].user, req[r].seen[k], Target(req[r], k))
       PROVE  \/ valid' = [valid EXCEPT ![k][req[r].user] = @ \ {Target(req[r], k)}]
              \/ Target(req[r], k) = since[r] /\ valid' = valid
  <2>1. AllOfToken(req[r].seen[k], Target(req[r], k))
    <3>1. RevocationSeen(req[r]) /\ req[r].pc \in PlacesOf(req[r].op)
      BY <1>12, ServeFacts DEF IInv, RequestSound
    <3>2. CASE k = "access"
      BY <1>12, <3>1, <3>2 DEF RevocationSeen, Revoking, Target
    <3>3. CASE k = "refresh" /\ req[r].pc = "revoke"
      <4>1. req[r].op = "refresh"
        BY <3>1, <3>3, ServeFacts DEF PlacesOf
      <4> QED BY <3>1, <3>3, <4>1 DEF RevocationSeen, Target
    <3>4. CASE k = "refresh" /\ req[r].pc \in {"revokeAccess", "revokeRefresh"}
      <4>1. req[r].op = "signout"
        BY <3>1, <3>4, ServeFacts DEF PlacesOf
      <4> QED BY <3>1, <3>4, <4>1 DEF RevocationSeen, Target
    <3> QED BY <1>12, <3>2, <3>3, <3>4 DEF Revoking
  <2>2. \A e \in OfToken(whitelist[k][req[r].user], Target(req[r], k)) \ req[r].seen[k] :
          e.token = since[r]
    BY <1>12, ServeFacts DEF Recorded
  <2> DEFINE u == req[r].user
             entries == req[r].seen[k]
             t == Target(req[r], k)
  <2>3. u \in Users /\ AllOfToken(entries, t) /\ Remove(k, u, entries, t)
        /\ \A e \in OfToken(whitelist[k][u], t) \ entries : e.token = since[r]
    BY <1>12, <2>1, <2>2, ServeFacts
  <2> HIDE DEF u, entries, t
  <2>4. \/ valid' = [valid EXCEPT ![k][u] = @ \ {t}]
        \/ t = since[r] /\ valid' = valid
    BY <1>0, <2>3, ValidRemove
  <2> QED BY <2>4 DEF u, t
<1>13. ASSUME req[r].pc # "idle", NEW k \in Kinds
       PROVE  /\ Target(req[r], k) = IF serving[r].op = "signout" /\ k = "refresh"
                                     THEN serving[r].arg ELSE serving[r].token
              /\ serving[r].user = req[r].user /\ serving[r].since = since[r]
              /\ serving[r].op = req[r].op
  BY <1>13, ServingAt DEF Target
<1>14. CASE SignoutAccess(r)
  <2>1. /\ req[r].pc = "revokeAccess" /\ Goto(r, "revokeRefresh")
        /\ Remove("access", req[r].user, req[r].seen["access"], req[r].token)
        /\ UNCHANGED <<now, status, held>>
    BY <1>14 DEF SignoutAccess
  <2>2. req[r].op = "signout" /\ Target(req[r], "access") = req[r].token
    BY <2>1, ServeFacts DEF PlacesOf, Target
  <2>3. /\ Stage(Moved(r, "revokeRefresh")) = "authorised"
        /\ Stage(req[r]) = "authorised"
    BY <1>3, <2>1 DEF Stage
  <2>4. serving' = serving /\ serving[r].stage = "authorised"
    <3>1. PICK pc : pc = "revokeRefresh"
      OBVIOUS
    <3>2. Goto(r, pc) /\ req[r].pc # "idle" /\ pc # "idle"
          /\ Stage(Moved(r, pc)) = Stage(req[r])
      BY <2>1, <2>3, <3>1
    <3>3. serving' = serving
      BY <3>2, GotoMove
    <3> QED BY <2>3, <3>2, <3>3, ServingAt
  <2>5. Registry!Revoke(r, "access")
    BY <1>12, <1>13, <2>1, <2>2, <2>4 DEF Registry!Revoke, Revoking, Kinds, SignedNow
  <2> QED BY <2>5 DEF Registry!Next, Registry!Kinds
<1>15. CASE SignoutRefresh(r)
  <2>1. /\ req[r].pc = "revokeRefresh" /\ Finish(r)
        /\ Remove("refresh", req[r].user, req[r].seen["refresh"], req[r].arg)
        /\ UNCHANGED <<now, status, held>>
    BY <1>15 DEF SignoutRefresh
  <2>2. req[r].op = "signout" /\ Target(req[r], "refresh") = req[r].arg
    BY <2>1, ServeFacts DEF PlacesOf, Target
  <2>3. serving' = [serving EXCEPT ![r] = [stage |-> "none"]]
        /\ serving[r].stage = "authorised"
    BY <2>1, ServingFinish, ServingAt DEF Stage
  <2>4. Registry!Revoke(r, "refresh")
    BY <1>12, <1>13, <2>1, <2>2, <2>3
    DEF Registry!Revoke, Registry!None, Revoking, Kinds, SignedNow
  <2> QED BY <2>4 DEF Registry!Next, Registry!Kinds
<1>16. CASE RefreshRevoke(r)
  <2>1. /\ req[r].pc = "revoke" /\ Goto(r, "issue")
        /\ Remove("refresh", req[r].user, req[r].seen["refresh"], req[r].token)
        /\ UNCHANGED <<now, status, held>>
    BY <1>16 DEF RefreshRevoke
  <2>2. req[r].op = "refresh" /\ Target(req[r], "refresh") = req[r].token
    BY <2>1, ServeFacts DEF PlacesOf, Target
  <2>3. Stage(Moved(r, "issue")) = "spent"
    BY <1>3, <2>1 DEF Stage
  <2>4. serving' = Restaged(r, "spent") /\ serving[r].stage = "authorised"
    <3>1. Stage(req[r]) = "authorised"
      BY <2>1 DEF Stage
    <3>2. PICK pc : pc = "issue"
      OBVIOUS
    <3>3. Goto(r, pc) /\ req[r].pc # "idle" /\ pc # "idle"
          /\ Stage(Moved(r, pc)) = "spent"
      BY <2>1, <2>3, <3>2
    <3>4. serving' = Restaged(r, "spent")
      BY <3>3, GotoMove
    <3> QED BY <3>1, <3>3, <3>4, ServingAt
  <2>5. Registry!Revoke(r, "refresh")
    BY <1>12, <1>13, <2>1, <2>2, <2>4
    DEF Registry!Revoke, Restaged, Revoking, Kinds, SignedNow
  <2> QED BY <2>5 DEF Registry!Next, Registry!Kinds
<1>17. CASE RevokeAll(r)
  <2>1. /\ req[r].pc = "whitelist" /\ req[r].op = "refresh" /\ Finish(r)
        /\ ~InWhitelist(r, "refresh") /\ UNCHANGED <<now, status, held>>
    BY <1>17 DEF RevokeAll
  <2>2. /\ serving[r].stage = "asked" /\ serving[r].op = "refresh"
        /\ serving[r].user = req[r].user /\ serving[r].token = req[r].token
        /\ serving[r].bearer = IF req[r].replay THEN "void" ELSE "valid"
    BY <2>1, ServingAt DEF Stage
  <2>3. req[r].replay \/ ~JwtAlive("refresh", req[r].token)
    BY <1>0, <2>1, RefusalFollows DEF RefusalJustified, BearerKind
  <2>4. valid' = [k \in Kinds |-> [valid[k] EXCEPT ![req[r].user] = {}]]
    <3>1. \A k \in Kinds, v \in Users :
            whitelist'[k][v] = IF v = req[r].user THEN {} ELSE whitelist[k][v]
      BY <1>0, <1>17 DEF RevokeAll, TypeOK
    <3>2. Tokens({}) = {}
      BY DEF Tokens
    <3>3. \A k \in Kinds : valid'[k] = [valid[k] EXCEPT ![req[r].user] = {}]
      BY <3>1, <3>2 DEF valid
    <3> QED BY <3>3 DEF valid
  <2>5. Registry!RevokeAll(r)
    BY <2>1, <2>2, <2>3, <2>4, ServingFinish
    DEF Registry!RevokeAll, Registry!None, Registry!Alive, Registry!Kinds, Kinds,
        JwtAlive, TTL, SignedNow
  <2> QED BY <2>5 DEF Registry!Next
<1> QED BY <1>1, <1>4, <1>5, <1>6, <1>7, <1>8, <1>9, <1>10, <1>11, <1>14, <1>15,
           <1>16, <1>17 DEF Serve

\* A tick moves the second on by one at most.
LEMMA SecondsAdvance ==
  ASSUME NEW n \in Nat
  PROVE  Seconds(n + 1) = Seconds(n) \/ Seconds(n + 1) = Seconds(n) + 1
<1>1. /\ Seconds(n) \in Nat /\ Seconds(n + 1) \in Nat
      /\ Seconds(n) <= Seconds(n + 1)
  BY DivisionFacts, SecondsMonotone
<1>2. n + 1 < (Seconds(n) + 2) * TicksPerSecond
  BY <1>1, DivisionFacts, TicksAssumption, SMT
<1>3. Seconds(n + 1) < Seconds(n) + 2
  BY <1>1, <1>2, SecondsBefore
<1> QED BY <1>1, <1>3

\* A request that comes in.
LEMMA ServingBegin ==
  ASSUME RegistryInv, Remember, NEW r \in Reqs, NEW u, NEW pc, NEW op, NEW t, NEW arg,
         NEW replay, NEW seen, Begin(r, pc, op, u, t, arg, replay, seen),
         pc \in {"readUser", "whitelist"}, NEW bearer,
         bearer = IF replay THEN "void" ELSE "valid"
  PROVE  /\ serving[r] = [stage |-> "none"]
         /\ serving' = [serving EXCEPT ![r] = Registry!Asked(op, u, t, arg, bearer)]
<1> DEFINE q == [pc |-> pc, op |-> op, user |-> u, token |-> t, arg |-> arg,
                 active |-> FALSE, replay |-> replay, seen |-> seen]
<1>1. req[r] = Idle /\ req' = [req EXCEPT ![r] = q]
  BY DEF Begin
<1>2. /\ q.pc = pc /\ q.op = op /\ q.user = u /\ q.token = t /\ q.arg = arg
  OBVIOUS
<1>3. bearer = IF q.replay THEN "void" ELSE "valid"
  OBVIOUS
<1> HIDE DEF q
<1>4. q # Idle /\ Stage(q) = "asked"
  BY <1>2 DEF Idle, Stage
<1>5. Later(r, q) = SignedNow
  BY <1>1, <1>4 DEF Later, Since
<1>6. Served(q, SignedNow) = Registry!Asked(op, u, t, arg, bearer)
  BY <1>2, <1>3, <1>4 DEF Served, Registry!Asked
<1>7. serving[r] = [stage |-> "none"]
  BY <1>1 DEF serving, Served
<1>8. serving' = [serving EXCEPT ![r] = Served(q, SignedNow)]
  BY <1>1, <1>5, ServingOne
<1> QED BY <1>6, <1>7, <1>8

LEMMA ClientSimulates ==
  ASSUME RegistryInv, Remember, NEW r \in Reqs, NEW u \in Users, ClientStep(r, u)
  PROVE  Registry!Next
<1>0. IInv /\ TypeOK
  BY DEF RegistryInv, IInv
<1>1. CASE LoginStart(r, u)
  <2>1. /\ serving[r] = [stage |-> "none"]
        /\ serving' = [serving EXCEPT ![r] =
                         Registry!Asked("login", u, NoToken, NoToken, "valid")]
    <3>1. Begin(r, "readUser", "login", u, NoToken, NoToken, FALSE, NothingSeen)
      BY <1>1 DEF LoginStart
    <3>2. PICK replay : replay = FALSE
      OBVIOUS
    <3>3. PICK bearer : bearer = "valid"
      OBVIOUS
    <3>4. bearer = IF replay THEN "void" ELSE "valid"
      BY <3>2, <3>3
    <3>5. PICK pc : pc = "readUser"
      OBVIOUS
    <3>6. Begin(r, pc, "login", u, NoToken, NoToken, replay, NothingSeen)
      BY <3>1, <3>2, <3>5
    <3>7. /\ serving[r] = [stage |-> "none"]
          /\ serving' = [serving EXCEPT ![r] =
                           Registry!Asked("login", u, NoToken, NoToken, bearer)]
      BY <3>4, <3>5, <3>6, ServingBegin
    <3> QED BY <3>3, <3>7
  <2>2. Registry!Login(r, u)
    BY <1>1, <2>1, ValidSame
    DEF LoginStart, Registry!Login, Registry!None, Registry!NoToken, NoToken, SignedNow
  <2> QED BY <2>2 DEF Registry!Next
<1>2. ASSUME NEW op \in {"me", "signout", "refresh"}, NEW k \in Kinds, NEW t \in held[u],
             NEW arg \in held[u] \cup {NoToken},
             k = Registry!BearerKind(op), arg = NoToken \/ op = "signout",
             Present(r, op, k, u, t, arg)
      PROVE  Registry!Next
  <2> DEFINE replay == t \in revoked[k][u]
             seen == [NothingSeen EXCEPT ![k] = OfToken(whitelist[k][u], t)]
             bearer == IF t \in valid[k][u] THEN "valid" ELSE "void"
  <2>1. /\ Begin(r, "whitelist", op, u, t, arg, replay, seen)
        /\ JwtAlive(k, t) /\ UNCHANGED <<now, status, whitelist, held>>
    BY <1>2 DEF Present
  <2>2. replay <=> t \notin valid[k][u]
    <3>1. Accounted(k, u, t)
      BY <1>0 DEF IInv, HeldAccounted
    <3>2. t \in revoked[k][u] => ~Listed(k, u, t)
      BY <1>0, IInvLists
    <3> QED BY <2>1, <3>1, <3>2, ValidAt DEF Accounted
  <2>3. bearer = IF replay THEN "void" ELSE "valid"
    BY <2>2
  <2> HIDE DEF replay, seen, bearer
  <2>4. /\ serving[r] = [stage |-> "none"]
        /\ serving' = [serving EXCEPT ![r] = Registry!Asked(op, u, t, arg, bearer)]
    BY <2>1, <2>3, ServingBegin
  <2>5. Registry!Alive(k, t)
    BY <2>1 DEF JwtAlive, TTL, Registry!Alive, SignedNow
  <2>6. Registry!Present(r, op, u, t, arg)
    BY <1>2, <2>1, <2>4, <2>5, ValidSame
    DEF Registry!Present, Registry!None, Registry!NoToken, NoToken, SignedNow, bearer
  <2> QED BY <1>2, <2>6 DEF Registry!Next, Registry!NoToken, NoToken
<1>3. ASSUME NEW t \in held[u], RefreshStart(r, u, t)
      PROVE  Registry!Next
  BY <1>2, <1>3 DEF RefreshStart, Registry!BearerKind, Kinds
<1>4. ASSUME NEW t \in held[u], AccessStart(r, u, t)
      PROVE  Registry!Next
  BY <1>2, <1>4 DEF AccessStart, Registry!BearerKind, Kinds
<1> QED BY <1>1, <1>3, <1>4 DEF ClientStep

\* The job, the clock, the restart and the operator.
LEMMA OtherSimulates ==
  ASSUME RegistryInv, Remember,
         CronStep \/ Tick \/ Crash \/ \E u \in Users : ActivateUser(u) \/ BanUser(u)
  PROVE  Registry!Next \/ UNCHANGED Registry!vars
<1>0. IInv /\ TypeOK
  BY DEF RegistryInv, IInv
<1>1. CASE CronStart \/ \E u \in Users : CronRead(u)
  BY <1>1, ServingSame, ValidSame DEF CronStart, CronRead, Registry!vars, SignedNow
<1>2. ASSUME NEW u \in Users, CronCleanup(u)
      PROVE  Registry!Next
  <2>1. Registry!Purged(u)
    BY <1>0, <1>2, ValidPurged DEF CronCleanup
  <2>2. serving' = serving
    BY <1>2, ServingSame DEF CronCleanup
  <2>3. Registry!Purge(u)
    BY <1>2, <2>1, <2>2 DEF CronCleanup, Registry!Purge, SignedNow
  <2> QED BY <2>3 DEF Registry!Next
<1>3. CASE Tick
  <2>1. serving' = serving /\ valid' = valid /\ UNCHANGED <<status, held>>
    BY <1>3, ServingSame, ValidSame DEF Tick
  <2>2. SignedNow' = SignedNow \/ SignedNow' = SignedNow + 1
    BY <1>0, <1>3, SecondsAdvance DEF Tick, TypeOK, SignedNow
  <2>3. CASE SignedNow' = SignedNow
    BY <2>1, <2>3 DEF Registry!vars
  <2>4. CASE SignedNow' = SignedNow + 1
    <3>1. Registry!Tick
      BY <2>1, <2>4 DEF Registry!Tick
    <3> QED BY <3>1 DEF Registry!Next
  <2> QED BY <2>2, <2>3, <2>4
<1>4. CASE Crash
  <2>1. \A r \in Reqs : Served(req'[r], since'[r]) = [stage |-> "none"]
    BY <1>4 DEF Crash, Served
  <2>2. serving' = [r \in Reqs |-> [stage |-> "none"]]
    BY <2>1 DEF serving
  <2>3. Registry!Restart
    BY <1>4, <2>2, ValidSame DEF Crash, Registry!Restart, Registry!None, SignedNow
  <2> QED BY <2>3 DEF Registry!Next
<1>5. ASSUME NEW u \in Users, ActivateUser(u) \/ BanUser(u)
      PROVE  Registry!Next
  <2>1. serving' = serving /\ valid' = valid /\ UNCHANGED <<now, held>>
    BY <1>5, ServingSame, ValidSame DEF ActivateUser, BanUser
  <2>2. \E x \in Registry!Statuses : status' = [status EXCEPT ![u] = x]
    BY <1>5 DEF ActivateUser, BanUser, Registry!Statuses
  <2>3. \E x \in Registry!Statuses : Registry!SetStatus(u, x)
    BY <2>1, <2>2 DEF Registry!SetStatus, SignedNow
  <2> QED BY <2>3 DEF Registry!Next
<1> QED BY <1>1, <1>2, <1>3, <1>4, <1>5 DEF CronStep

LEMMA InitSimulates ==
  ASSUME Init, since = [r \in Reqs |-> 0]
  PROVE  Registry!Init
<1>1. SignedNow = 0
  BY TicksAssumption, SecondsBefore, DivisionFacts DEF Init, SignedNow
<1>2. serving = [r \in Reqs |-> [stage |-> "none"]]
  BY DEF Init, serving, Served
<1>3. valid = [k \in Kinds |-> [u \in Users |-> {}]]
  BY DEF Init, valid, Tokens
<1> QED BY <1>1, <1>2, <1>3 DEF Init, Registry!Init, Registry!None, Registry!Kinds, Kinds

LEMMA StepSimulates ==
  RegistryInv /\ [Next /\ Remember]_RegistryVars => [Registry!Next]_(Registry!vars)
<1> SUFFICES ASSUME RegistryInv, [Next /\ Remember]_RegistryVars
             PROVE  Registry!Next \/ UNCHANGED Registry!vars
  OBVIOUS
<1>1. CASE Next /\ Remember
  BY <1>1, ServeSimulates, ClientSimulates, OtherSimulates DEF Next
<1>2. CASE UNCHANGED RegistryVars
  BY <1>2 DEF RegistryVars, vars, Registry!vars, SignedNow, valid, serving
<1> QED BY <1>1, <1>2

\* The token code implements the registry: whatever it interleaves with the job,
\* restarts and bans, it serves, signs and revokes as if each check, signing and
\* revocation were one step on a set of valid tokens.
THEOREM Refinement == RecordedSpec => ImplementsRegistry
<1>1. Init /\ since = [r \in Reqs |-> 0] => Registry!Init
  BY InitSimulates
<1> QED BY <1>1, StepSimulates, RegistryInvariance, PTL
        DEF RecordedSpec, RecordedInit, RecordedNext, ImplementsRegistry, Registry!Spec
=============================================================================
