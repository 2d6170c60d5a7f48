------------------------- MODULE OtpFlowLedgerProofs -------------------------
(***************************************************************************)
(* OtpFlow implements OtpLedger, for any users, requests, lifetime and     *)
(* length of run.  Only COMMIT, the publication, the sweep and the clock   *)
(* are steps of the ledger; LedgerInv says what the COMMIT of a renewal    *)
(* and of a verification will find.                                        *)
(***************************************************************************)
EXTENDS OtpFlowProofs, OtpFlowLedger

-----------------------------------------------------------------------------
\* Steps that touch one request.

LEMMA LedgerFacts ==
  ASSUME LedgerInv, NEW r \in Running
  PROVE  /\ r \in Reqs /\ req[r] \in Request
         /\ req[r].op \in {"signup", "resend", "verify"} /\ req[r].pc \in PCs
         /\ RequestOK(req[r]) /\ OneRowEach(req[r])
BY RunningOK DEF LedgerInv, Request

\* A step of request r that commits nothing: what it becomes is to be looked at.
LEMMA LedgerLocal ==
  ASSUME LedgerInv, OtpInv', NEW r \in Reqs, NEW q \in Request \cup {Idle},
         req' = [req EXCEPT ![r] = q],
         issued' = issued, mails \subseteq mails',
         q # Idle => OneRowEach(q),
         q # Idle => \A s \in Running \ {r} : IdsApart(q, req[s])
  PROVE  LedgerInv'
<1>1. \A s \in Running' : /\ s = r => req'[s] = q /\ q # Idle
                          /\ s # r => req'[s] = req[s] /\ s \in Running
  BY DEF LedgerInv, OtpInv, TypeOK, Running
<1>2. ASSUME NEW s \in Running' PROVE OneRowEach(req[s])'
  <2>1. OneRowEach(req'[s])
    BY <1>1 DEF LedgerInv
  <2> QED
    BY <2>1 DEF OneRowEach, Single, NewId
<1>3. ASSUME NEW s \in Running', NEW t \in Running', s # t
      PROVE  IdsApart(req'[s], req'[t])
  <2>1. CASE s = r
    BY <1>1, <1>3, <2>1
  <2>2. CASE t = r
    <3>1. IdsApart(q, req[s]) /\ req'[t] = q /\ req'[s] = req[s]
      BY <1>1, <1>3, <2>2
    <3> QED
      BY <3>1 DEF IdsApart
  <2>3. CASE s # r /\ t # r
    BY <1>1, <1>3, <2>3 DEF LedgerInv
  <2> QED
    BY <2>1, <2>2, <2>3
<1> QED
  BY <1>2, <1>3 DEF LedgerInv, IdsApart

LEMMA LedgerFinish ==
  ASSUME LedgerInv, OtpInv', NEW r \in Reqs, Finish(r),
         issued' = issued, mails \subseteq mails'
  PROVE  LedgerInv'
BY LedgerLocal DEF Finish

\* The request begins, with no row yet, ...
LEMMA LedgerBegin ==
  ASSUME LedgerInv, OtpInv', NEW r \in Reqs, NEW q \in Request,
         req' = [req EXCEPT ![r] = q], issued' = issued, mails' = mails,
         q.row = {}, q.del = {}, q.ins = {},
         q.op = "verify" => q.code \subseteq mails
  PROVE  LedgerInv'
<1>1. OneRowEach(q)
  BY DEF OneRowEach, Single
<1>2. \A s \in Running \ {r} : IdsApart(q, req[s])
  BY DEF IdsApart
<1> QED
  BY <1>1, <1>2, LedgerLocal

\* ... goes on with other rows to read or delete, ...
LEMMA LedgerRows ==
  ASSUME LedgerInv, OtpInv', NEW r \in Running, NEW q \in Request,
         req' = [req EXCEPT ![r] = q], issued' = issued, mails \subseteq mails',
         q.ins = req[r].ins, q.op = req[r].op, q.code = req[r].code,
         Single(q.row), Single(q.del), q.op = "verify" => q.del \subseteq q.row
  PROVE  LedgerInv'
<1>1. r \in Reqs /\ OneRowEach(req[r])
  BY LedgerFacts
<1>2. OneRowEach(q)
  BY <1>1 DEF OneRowEach
<1>3. \A s \in Running \ {r} : IdsApart(q, req[s])
  BY DEF LedgerInv, IdsApart
<1> QED
  BY <1>1, <1>2, <1>3, LedgerLocal

\* ... or with the same.
LEMMA LedgerSame ==
  ASSUME LedgerInv, OtpInv', NEW r \in Running, NEW q \in Request,
         req' = [req EXCEPT ![r] = q], issued' = issued, mails \subseteq mails',
         q.ins = req[r].ins, q.op = req[r].op, q.code = req[r].code,
         q.row = req[r].row, q.del = req[r].del
  PROVE  LedgerInv'
<1>1. OneRowEach(req[r])
  BY LedgerFacts
<1> QED
  BY <1>1, LedgerRows DEF OneRowEach

-----------------------------------------------------------------------------
\* The clients.

LEMMA LedgerSignup ==
  ASSUME LedgerInv, OtpInv', NEW r \in Reqs, NEW u \in Users, Signup(r, u)
  PROVE  LedgerInv'
<1> DEFINE q == [NewRequest EXCEPT !.user = u, !.seen = OtpsOf(u),
                   !.pc = IF status[u] = "none" THEN "createUser" ELSE "rate"]
<1>1. q.row = {} /\ q.del = {} /\ q.ins = {} /\ q.op = "signup"
  BY DEF NewRequest
<1>2. q \in Request
  BY NewRequestType DEF NewRequest, Request, PCs, LedgerInv, OtpInv, TypeOK, OtpsOf
<1>3. req' = [req EXCEPT ![r] = q] /\ UNCHANGED <<issued, mails>>
  BY DEF Signup
<1> HIDE DEF q
<1> QED
  BY <1>1, <1>2, <1>3, LedgerBegin

LEMMA LedgerResend ==
  ASSUME LedgerInv, OtpInv', NEW r \in Reqs, NEW o \in mails, Resend(r, o)
  PROVE  LedgerInv'
<1> DEFINE q == [NewRequest EXCEPT !.op = "resend", !.user = o.user,
                   !.token = {o}, !.cutoff = now, !.pc = "readToken"]
<1>1. q.row = {} /\ q.del = {} /\ q.ins = {} /\ q.op = "resend"
  BY DEF NewRequest
<1>2. o \in Otp /\ o.user \in Users /\ now \in Nat
  BY DEF LedgerInv, OtpInv, TypeOK, Otp
<1>3. q \in Request
  BY <1>2, NewRequestType DEF NewRequest, Request, PCs
<1>4. req' = [req EXCEPT ![r] = q] /\ UNCHANGED <<issued, mails>>
  BY DEF Resend
<1> HIDE DEF q
<1> QED
  BY <1>1, <1>3, <1>4, LedgerBegin

LEMMA LedgerVerify ==
  ASSUME LedgerInv, OtpInv', NEW r \in Reqs, NEW t \in mails,
         NEW code \in SUBSET mails, Verify(r, t, code)
  PROVE  LedgerInv'
<1> DEFINE q == [NewRequest EXCEPT !.op = "verify", !.user = t.user,
                   !.token = {t}, !.code = code, !.cutoff = now, !.pc = "readToken"]
<1>1. q.row = {} /\ q.del = {} /\ q.ins = {} /\ q.code \subseteq mails
  BY DEF NewRequest
<1>2. t \in Otp /\ t.user \in Users /\ now \in Nat /\ code \in SUBSET Otp
  BY DEF LedgerInv, OtpInv, TypeOK, Otp
<1>3. q \in Request
  BY <1>2, NewRequestType DEF NewRequest, Request, PCs
<1>4. req' = [req EXCEPT ![r] = q] /\ UNCHANGED <<issued, mails>>
  BY DEF Verify
<1> HIDE DEF q
<1> QED
  BY <1>1, <1>3, <1>4, LedgerBegin

-----------------------------------------------------------------------------
\* The server, up to COMMIT.

\* The statements and awaits that leave the request its rows.
LEMMA LedgerAwait ==
  ASSUME LedgerInv, OtpInv', NEW r \in Running,
         \/ CreateUser(r) \/ RateGranted(r) \/ CreateOtp(r) \/ SignOtp(r)
         \/ ActivateUser(r)
  PROVE  LedgerInv'
<1>1. r \in Reqs /\ req[r] \in Request /\ now \in Nat /\ now + OtpTTL \in Nat
  BY LedgerFacts, TTLAssumption DEF LedgerInv, OtpInv, TypeOK
<1>2. UNCHANGED <<issued, mails>>
  BY DEF CreateUser, RateGranted, CreateOtp, SignOtp, ActivateUser
<1>3. CASE CreateUser(r)
  <2> DEFINE q == [req[r] EXCEPT !.pc = "rate", !.create = TRUE]
  <2>1. /\ q \in Request /\ q.ins = req[r].ins /\ q.op = req[r].op
        /\ q.code = req[r].code /\ q.row = req[r].row /\ q.del = req[r].del
    BY <1>1 DEF Request, PCs
  <2>2. req' = [req EXCEPT ![r] = q]
    BY <1>1, <1>3 DEF CreateUser
  <2> HIDE DEF q
  <2> QED
    BY <1>2, <2>1, <2>2, LedgerSame
<1>4. CASE RateGranted(r)
  <2> DEFINE q == [req[r] EXCEPT !.pc = "readActive", !.cutoff = now]
  <2>1. /\ q \in Request /\ q.ins = req[r].ins /\ q.op = req[r].op
        /\ q.code = req[r].code /\ q.row = req[r].row /\ q.del = req[r].del
    BY <1>1 DEF Request, PCs
  <2>2. req' = [req EXCEPT ![r] = q]
    BY <1>1, <1>4 DEF RateGranted
  <2> HIDE DEF q
  <2> QED
    BY <1>2, <2>1, <2>2, LedgerSame
<1>5. CASE CreateOtp(r)
  <2> DEFINE q == [req[r] EXCEPT !.pc = "sign", !.exp = now + OtpTTL]
  <2>1. /\ q \in Request /\ q.ins = req[r].ins /\ q.op = req[r].op
        /\ q.code = req[r].code /\ q.row = req[r].row /\ q.del = req[r].del
    BY <1>1 DEF Request, PCs
  <2>2. req' = [req EXCEPT ![r] = q]
    BY <1>1, <1>5 DEF CreateOtp
  <2> HIDE DEF q
  <2> QED
    BY <1>2, <2>1, <2>2, LedgerSame
<1>6. CASE SignOtp(r)
  <2> DEFINE q == [req[r] EXCEPT !.pc = "insert", !.iat = now]
  <2>1. /\ q \in Request /\ q.ins = req[r].ins /\ q.op = req[r].op
        /\ q.code = req[r].code /\ q.row = req[r].row /\ q.del = req[r].del
    BY <1>1 DEF Request, PCs
  <2>2. req' = [req EXCEPT ![r] = q]
    BY <1>1, <1>6 DEF SignOtp
  <2> HIDE DEF q
  <2> QED
    BY <1>2, <2>1, <2>2, LedgerSame
<1>7. CASE ActivateUser(r)
  <2> DEFINE q == [Done(r, "activateUser") EXCEPT !.update = TRUE]
  <2>1. /\ q \in Request /\ q.ins = req[r].ins /\ q.op = req[r].op
        /\ q.code = req[r].code /\ q.row = req[r].row /\ q.del = req[r].del
    BY <1>1 DEF Request, PCs, Done, Writes
  <2>2. req' = [req EXCEPT ![r] = q]
    BY <1>1, <1>7 DEF ActivateUser
  <2> HIDE DEF q
  <2> QED
    BY <1>2, <2>1, <2>2, LedgerSame
<1> QED
  BY <1>3, <1>4, <1>5, <1>6, <1>7

LEMMA LedgerResendRead ==
  ASSUME LedgerInv, OtpInv', NEW r \in Running, ResendRead(r)
  PROVE  LedgerInv'
<1> DEFINE q == [req[r] EXCEPT !.pc = "rate", !.token = {}]
<1>1. r \in Reqs /\ req[r] \in Request /\ UNCHANGED <<issued, mails>>
  BY LedgerFacts DEF ResendRead
<1>2. CASE Finish(r)
  BY <1>1, <1>2, LedgerFinish
<1>3. CASE ~Finish(r)
  <2>1. /\ q \in Request /\ q.ins = req[r].ins /\ q.op = req[r].op
        /\ q.code = req[r].code /\ q.row = req[r].row /\ q.del = req[r].del
    BY <1>1 DEF Request, PCs
  <2>2. req' = [req EXCEPT ![r] = q]
    BY <1>1, <1>3 DEF ResendRead
  <2> HIDE DEF q
  <2> QED
    BY <1>1, <2>1, <2>2, LedgerSame
<1> QED
  BY <1>2, <1>3

LEMMA LedgerReadActive ==
  ASSUME LedgerInv, OtpInv', NEW r \in Running, ReadActive(r)
  PROVE  LedgerInv'
<1> DEFINE visible == req[r].seen \cup OtpsOf(req[r].user)
           p == [req[r] EXCEPT !.pc = "createOtp", !.seen = {}, !.cutoff = 0]
           d(o) == [req[r] EXCEPT !.pc = "delete", !.row = {o}, !.seen = {},
                      !.cutoff = 0]
<1>1. /\ r \in Reqs /\ req[r] \in Request /\ RequestOK(req[r])
      /\ OneRowEach(req[r]) /\ req[r].pc = "readActive"
      /\ UNCHANGED <<issued, mails>>
  BY LedgerFacts DEF ReadActive, At
<1>2. req[r].op # "verify"
  BY <1>1 DEF RequestOK, VerificationOK
<1>3. CASE req' = [req EXCEPT ![r].pc = "createOtp", ![r].seen = {}, ![r].cutoff = 0]
  <2>1. /\ p \in Request /\ p.ins = req[r].ins /\ p.op = req[r].op
        /\ p.code = req[r].code /\ p.row = req[r].row /\ p.del = req[r].del
    BY <1>1 DEF Request, PCs
  <2>2. req' = [req EXCEPT ![r] = p]
    BY <1>1, <1>3
  <2> HIDE DEF p
  <2> QED
    BY <1>1, <2>1, <2>2, LedgerSame
<1>4. ASSUME NEW o \in visible,
             req' = [req EXCEPT ![r].pc = "delete", ![r].row = {o},
                       ![r].seen = {}, ![r].cutoff = 0]
      PROVE  LedgerInv'
  <2> DEFINE q == d(o)
  <2>1. o \in Otp
    BY <1>1 DEF Request, OtpsOf, LedgerInv, OtpInv, TypeOK
  <2>2. /\ q \in Request /\ q.ins = req[r].ins /\ q.op = req[r].op
        /\ q.code = req[r].code /\ q.row = {o} /\ q.del = req[r].del
    BY <1>1, <2>1 DEF Request, PCs
  <2>3. req' = [req EXCEPT ![r] = q]
    BY <1>1, <1>4
  <2> HIDE DEF q
  <2>4. Single(q.row) /\ Single(q.del)
    BY <1>1, <2>2 DEF Single, OneRowEach
  <2> QED
    BY <1>1, <1>2, <2>2, <2>3, <2>4, LedgerRows
<1> HIDE DEF p, d
<1> QED
  BY <1>3, <1>4 DEF ReadActive

\* Both DELETEs: the row read, if it is still there.
LEMMA LedgerDelete ==
  ASSUME LedgerInv, OtpInv', NEW r \in Running, DeleteCurrent(r) \/ ConsumeOtp(r)
  PROVE  LedgerInv'
<1>1. /\ r \in Reqs /\ req[r] \in Request /\ RequestOK(req[r])
      /\ Single(req[r].row) /\ Single(req[r].row \cap otps)
      /\ UNCHANGED <<issued, mails>>
  BY LedgerFacts DEF DeleteCurrent, ConsumeOtp, OneRowEach, Single
<1>2. CASE DeleteCurrent(r)
  <2> DEFINE q == [req[r] EXCEPT !.pc = "createOtp",
                     !.del = req[r].row \cap otps, !.row = {}]
  <2>1. /\ q \in Request /\ q.ins = req[r].ins /\ q.op = req[r].op
        /\ q.code = req[r].code /\ q.row = {} /\ q.del = req[r].row \cap otps
    BY <1>1 DEF Request, PCs
  <2>2. req' = [req EXCEPT ![r] = q]
    BY <1>1, <1>2 DEF DeleteCurrent
  <2>3. req[r].op # "verify"
    BY <1>1, <1>2 DEF RequestOK, VerificationOK, DeleteCurrent, At
  <2> HIDE DEF q
  <2>4. Single(q.row) /\ Single(q.del)
    BY <1>1, <2>1 DEF Single
  <2> QED
    BY <1>1, <2>1, <2>2, <2>3, <2>4, LedgerRows
<1>3. CASE ConsumeOtp(r)
  <2> DEFINE q == [Done(r, "deleteOtp") EXCEPT !.del = req[r].row \cap otps]
  <2>1. /\ q \in Request /\ q.ins = req[r].ins /\ q.op = req[r].op
        /\ q.code = req[r].code /\ q.row = req[r].row
        /\ q.del = req[r].row \cap otps
    BY <1>1 DEF Request, PCs, Done, Writes
  <2>2. req' = [req EXCEPT ![r] = q]
    BY <1>1, <1>3 DEF ConsumeOtp
  <2> HIDE DEF q
  <2>3. Single(q.row) /\ Single(q.del) /\ q.del \subseteq q.row
    BY <1>1, <2>1
  <2> QED
    BY <1>1, <2>1, <2>2, <2>3, LedgerRows
<1> QED
  BY <1>2, <1>3

\* AUTO_INCREMENT: ids are below nextId, committed or not, so the next is new.
LEMMA LedgerInsert ==
  ASSUME LedgerInv, OtpInv', NEW r \in Running, InsertOtp(r)
  PROVE  LedgerInv'
<1> DEFINE o == [id |-> nextId, user |-> req[r].user,
                 iat |-> req[r].iat, expiresAt |-> req[r].exp]
           q == [req[r] EXCEPT !.ins = {o}, !.exp = 0, !.iat = 0,
                   !.pc = IF req[r].op = "signup" THEN "publish" ELSE "commit"]
<1>1. /\ r \in Reqs /\ req[r] \in Request /\ RequestOK(req[r])
      /\ OneRowEach(req[r]) /\ nextId \in Nat /\ req[r].pc = "insert"
      /\ UNCHANGED <<issued, mails>>
  BY LedgerFacts DEF InsertOtp, At, LedgerInv, OtpInv, TypeOK
<1>2. o \in Otp /\ o.id = nextId
  BY <1>1 DEF Request, Otp
<1>3. /\ q \in Request /\ q.ins = {o} /\ q.op = req[r].op
      /\ q.code = req[r].code /\ q.row = req[r].row /\ q.del = req[r].del
  BY <1>1, <1>2 DEF Request, PCs
<1>4. req' = [req EXCEPT ![r] = q]
  BY <1>1 DEF InsertOtp
<1>5. req[r].op # "verify"
  BY <1>1 DEF RequestOK, VerificationOK
<1> HIDE DEF o, q
<1>6. NewId(o)
  BY <1>1, <1>2 DEF NewId, LedgerInv, OtpInv, TypeOK, Otp
<1>7. OneRowEach(q)
  BY <1>1, <1>3, <1>5, <1>6 DEF OneRowEach, Single
<1>8. ASSUME NEW s \in Running \ {r} PROVE IdsApart(q, req[s])
  <2>1. req[s] \in Request /\ \A i \in req[s].ins : i.id < nextId
    BY LedgerFacts DEF RequestOK, InsertedNew
  <2>2. \A i \in req[s].ins : i.id \in Nat
    BY <2>1 DEF Request, Otp
  <2> QED
    BY <1>1, <1>2, <1>3, <2>1, <2>2 DEF IdsApart
<1> QED
  BY <1>1, <1>3, <1>4, <1>7, <1>8, LedgerLocal

LEMMA LedgerPublish ==
  ASSUME LedgerInv, OtpInv', NEW r \in Running, Publish(r)
  PROVE  LedgerInv'
<1>1. /\ r \in Reqs /\ req[r] \in Request
      /\ issued' = issued /\ mails \subseteq mails'
  BY LedgerFacts DEF Publish
<1>2. CASE req[r].op # "signup"
  BY <1>1, <1>2, LedgerFinish DEF Publish
<1>3. CASE req[r].op = "signup"
  <2> DEFINE q == [req[r] EXCEPT !.pc = "commit"]
  <2>1. /\ q \in Request /\ q.ins = req[r].ins /\ q.op = req[r].op
        /\ q.code = req[r].code /\ q.row = req[r].row /\ q.del = req[r].del
    BY <1>1 DEF Request, PCs
  <2>2. req' = [req EXCEPT ![r] = q]
    BY <1>1, <1>3 DEF Publish
  <2> HIDE DEF q
  <2> QED
    BY <1>1, <2>1, <2>2, LedgerSame
<1> QED
  BY <1>2, <1>3

LEMMA LedgerVerifyRead ==
  ASSUME LedgerInv, OtpInv', NEW r \in Running, VerifyRead(r)
  PROVE  LedgerInv'
<1> DEFINE q(o) == [req[r] EXCEPT !.pc = "write", !.row = {o}, !.token = {},
                      !.cutoff = 0, !.todo = Writes]
<1>1. /\ r \in Reqs /\ req[r] \in Request /\ RequestOK(req[r])
      /\ OneRowEach(req[r]) /\ req[r].pc = "readToken" /\ req[r].op = "verify"
      /\ UNCHANGED <<issued, mails>>
  BY LedgerFacts DEF VerifyRead, At
<1>2. req[r].del = {}
  BY <1>1 DEF RequestOK, VerificationOK
<1>3. CASE Finish(r)
  BY <1>1, <1>3, LedgerFinish
<1>4. ASSUME NEW o \in otps,
             req' = [req EXCEPT ![r].pc = "write", ![r].row = {o},
                       ![r].token = {}, ![r].cutoff = 0, ![r].todo = Writes]
      PROVE  LedgerInv'
  <2> DEFINE w == q(o)
  <2>1. o \in Otp
    BY DEF LedgerInv, OtpInv, TypeOK
  <2>2. /\ w \in Request /\ w.ins = req[r].ins /\ w.op = req[r].op
        /\ w.code = req[r].code /\ w.row = {o} /\ w.del = {}
    BY <1>1, <1>2, <2>1 DEF Request, PCs
  <2>3. req' = [req EXCEPT ![r] = w]
    BY <1>1, <1>4
  <2> HIDE DEF w
  <2>4. Single(w.row) /\ Single(w.del)
    BY <2>2 DEF Single
  <2> QED
    BY <1>1, <2>2, <2>3, <2>4, LedgerRows
<1> HIDE DEF q
<1> QED
  BY <1>3, <1>4 DEF VerifyRead

-----------------------------------------------------------------------------
\* COMMIT: the ids it commits stay apart from those still to be committed.

LEMMA LedgerCommit ==
  ASSUME LedgerInv, OtpInv', NEW r \in Running, Commit(r)
  PROVE  LedgerInv'
<1> DEFINE q == [req[r] EXCEPT !.pc = "publish", !.row = req[r].ins,
                   !.del = {}, !.ins = {}]
<1>1. /\ r \in Reqs /\ req[r] \in Request /\ OneRowEach(req[r])
      /\ issued' = issued \cup req[r].ins /\ mails' = mails
  BY LedgerFacts DEF Commit
<1>2. \A s \in Running' : /\ s = r => req[r].op = "resend" /\ req'[s] = q
                          /\ s # r => s \in Running /\ req'[s] = req[s]
  BY <1>1 DEF Commit, Finish, Running, LedgerInv, OtpInv, TypeOK
<1>3. req[r].op = "resend" =>
        /\ q.op = "resend" /\ q.row = req[r].ins /\ q.del = {} /\ q.ins = {}
  BY <1>1 DEF Request
<1> HIDE DEF q
<1>4. ASSUME NEW s \in Running' PROVE OneRowEach(req[s])'
  <2>1. CASE s = r
    <3>1. /\ req'[s].op = "resend" /\ req'[s].row = req[r].ins
          /\ req'[s].del = {} /\ req'[s].ins = {}
      BY <1>2, <1>3, <2>1
    <3> QED
      BY <1>1, <3>1 DEF OneRowEach, Single
  <2>2. CASE s # r
    <3>1. /\ req'[s] = req[s] /\ OneRowEach(req[s])
          /\ IdsApart(req[r], req[s])
      BY <1>2, <2>2 DEF LedgerInv
    <3>2. \A o \in req[s].ins : NewId(o)'
      BY <1>1, <3>1 DEF OneRowEach, NewId, IdsApart
    <3> QED
      BY <1>1, <3>1, <3>2 DEF OneRowEach, Single
  <2> QED
    BY <2>1, <2>2
<1>5. ASSUME NEW s \in Running', NEW t \in Running', s # t
      PROVE  IdsApart(req'[s], req'[t])
  <2>1. \A x \in Running' : req'[x].ins = {} \/ (x \in Running /\ req'[x] = req[x])
    BY <1>2, <1>3
  <2> QED
    BY <1>5, <2>1 DEF LedgerInv, IdsApart
<1> QED
  BY <1>4, <1>5 DEF LedgerInv, IdsApart

-----------------------------------------------------------------------------
\* The invariant.

LEMMA LedgerNext ==
  ASSUME LedgerInv, [Next]_vars
  PROVE  LedgerInv'
<1>1. OtpInv'
  BY NextOtpInv DEF LedgerInv
<1>2. ASSUME UNCHANGED <<req, issued, mails>> PROVE LedgerInv'
  BY <1>1, <1>2 DEF LedgerInv, Running, OneRowEach, Single, NewId, IdsApart
<1>3. ASSUME NEW r \in Reqs, Client(r) PROVE LedgerInv'
  BY <1>1, <1>3, LedgerSignup, LedgerResend, LedgerVerify DEF Client
<1>4. ASSUME NEW r \in Reqs, Server(r) PROVE LedgerInv'
  BY <1>1, <1>4, LedgerAwait, LedgerResendRead, LedgerReadActive, LedgerDelete,
     LedgerInsert, LedgerPublish, LedgerVerifyRead, LedgerCommit DEF Server
<1>5. ASSUME NEW r \in Reqs, Fail(r) PROVE LedgerInv'
  BY <1>1, <1>5, LedgerFinish DEF Fail
<1> QED
  BY <1>2, <1>3, <1>4, <1>5 DEF Next, vars, Sweep, Tick

LEMMA LedgerInit == Init => LedgerInv
BY InitOtpInv DEF Init, LedgerInv, Running

\* A transaction of signup, resendOtp or verifyOtp reads, deletes and inserts one
\* OTP at most, with an id no other has, and a verification is of a mailed code.
THEOREM LedgerInvariance == Spec => []LedgerInv
BY LedgerInit, LedgerNext, PTL DEF Spec

-----------------------------------------------------------------------------
\* The refinement: every step is one of the ledger's, or a stutter.

LEMMA InitSimulates == Init => Ledger!Init
BY DEF Init, Ledger!Init, Statuses

\* What the ledger can see.
LEMMA Unseen ==
  ASSUME UNCHANGED <<now, status, otps, mails, issued>>
  PROVE  [Ledger!Next]_Ledger!vars
BY DEF Ledger!vars

LEMMA RenewalSimulates ==
  ASSUME LedgerInv, NEW r \in Running, Commit(r), req[r].op # "verify"
  PROVE  Ledger!Next
<1> DEFINE u == req[r].user
           old == req[r].del \cap otps
<1>1. /\ RequestOK(req[r]) /\ OneRowEach(req[r]) /\ u \in Users
      /\ req[r].ins # {} /\ ~req[r].update /\ req[r].pc = "commit"
      /\ now' = now /\ mails' = mails
      /\ otps' = (otps \ req[r].del) \cup req[r].ins
      /\ issued' = issued \cup req[r].ins
      /\ status \in [Users -> Statuses]
      /\ status' = [status EXCEPT ![u] = StatusAfter(r)]
  BY LedgerFacts, CommitFacts DEF Commit, RequestOK, RenewalOK, LedgerInv, OtpInv, TypeOK
<1>2. PICK o \in req[r].ins : req[r].ins = {o}
  BY <1>1 DEF OneRowEach, Single
<1>3. /\ o.user = u /\ o \notin issued /\ o.expiresAt <= now + OtpTTL
      /\ Ledger!New(o) /\ \A p \in req[r].del : p.expiresAt <= o.expiresAt
  BY <1>1, <1>2 DEF RequestOK, InsertedNew, OneRowEach, NewId, Ledger!New
<1>4. /\ old \in SUBSET {p \in otps : p.user = u}
      /\ \A p, q \in old : p = q
  BY <1>1 DEF RequestOK, RowsIssued, OneRowEach, Single
<1>5. o \in issued' \ issued /\ otps' = (otps \ old) \cup {o}
  BY <1>1, <1>2, <1>3
<1>6. status' = IF status[u] = "none" THEN [status EXCEPT ![u] = "PENDING"]
                ELSE status
  BY <1>1 DEF StatusAfter, RequestOK, RenewalOK
<1>7. Ledger!Renew(u, old)
  BY <1>1, <1>2, <1>3, <1>4, <1>5, <1>6 DEF Ledger!Renew
<1> QED
  BY <1>1, <1>4, <1>7 DEF Ledger!Next

LEMMA VerificationSimulates ==
  ASSUME LedgerInv, NEW r \in Running, Commit(r), req[r].op = "verify"
  PROVE  Ledger!Next
<1>1. /\ RequestOK(req[r]) /\ OneRowEach(req[r])
      /\ req[r].update /\ req[r].ins = {}
      /\ req[r].row \cap otps \subseteq req[r].del
      /\ now' = now /\ mails' = mails
      /\ otps' = otps \ req[r].del /\ issued' = issued
      /\ status' = [status EXCEPT ![req[r].user] = "ACTIVE"]
  BY LedgerFacts, CommitFacts DEF Commit, StatusAfter, LedgerInv
<1>2. PICK o \in req[r].code :
        req[r].row = {o} /\ o.user = req[r].user /\ o \in issued
  BY CommitFacts DEF LedgerInv
<1>3. o \in mails /\ otps' = otps \ {o}
  BY <1>1, <1>2 DEF OneRowEach
<1>4. Ledger!Redeem(o)
  BY <1>1, <1>2, <1>3 DEF Ledger!Redeem
<1> QED
  BY <1>2, <1>4 DEF Ledger!Next

\* signup sends an OTP that is still to be committed, resendOtp one that is.
LEMMA PublishSimulates ==
  ASSUME LedgerInv, NEW r \in Running, Publish(r)
  PROVE  [Ledger!Next]_Ledger!vars
<1> DEFINE rows == IF req[r].op = "signup" THEN req[r].ins ELSE req[r].row
<1>1. /\ UNCHANGED <<now, status, otps, issued>> /\ mails' = mails \cup rows
      /\ RequestOK(req[r]) /\ OneRowEach(req[r])
  BY LedgerFacts DEF Publish
<1>2. /\ Single(rows)
      /\ \A o \in rows : /\ o \in issued \/ Ledger!New(o)
                         /\ o.expiresAt <= now + OtpTTL
  BY <1>1 DEF OneRowEach, RequestOK, RowsIssued, InsertedNew, NewId, Ledger!New,
              LedgerInv, OtpInv
<1>3. CASE rows \subseteq mails
  BY <1>1, <1>3, Unseen
<1>4. CASE ~(rows \subseteq mails)
  <2>1. PICK o \in rows : o \notin mails
    BY <1>4
  <2>2. mails' = mails \cup {o} /\ o \in mails' \ mails
    BY <1>1, <1>2, <2>1 DEF Single
  <2>3. Ledger!Send(o)
    BY <1>1, <1>2, <2>2 DEF Ledger!Send
  <2> QED
    BY <2>2, <2>3 DEF Ledger!Next
<1> QED
  BY <1>3, <1>4

LEMMA StepSimulates ==
  ASSUME LedgerInv, [Next]_vars
  PROVE  [Ledger!Next]_Ledger!vars
<1>1. CASE UNCHANGED vars
  BY <1>1, Unseen DEF vars
<1>2. ASSUME NEW r \in Reqs, Client(r) \/ Fail(r) PROVE [Ledger!Next]_Ledger!vars
  BY <1>2, Unseen DEF Client, Signup, Resend, Verify, Fail
<1>3. ASSUME NEW r \in Reqs, Server(r) PROVE [Ledger!Next]_Ledger!vars
  <2>1. r \in Running
    BY <1>3 DEF Server
  <2>2. CASE Publish(r)
    BY <2>1, <2>2, PublishSimulates
  <2>3. CASE Commit(r)
    BY <2>1, <2>3, RenewalSimulates, VerificationSimulates
  <2>4. CASE ~Publish(r) /\ ~Commit(r)
    BY <1>3, <2>4, Unseen
       DEF Server, CreateUser, ResendRead, RateGranted, ReadActive, DeleteCurrent,
           CreateOtp, SignOtp, InsertOtp, VerifyRead, ConsumeOtp, ActivateUser
  <2> QED
    BY <2>2, <2>3, <2>4
<1>4. CASE Sweep
  BY <1>4 DEF Sweep, Ledger!Next, Ledger!Purge
<1>5. CASE Tick
  BY <1>5 DEF Tick, Ledger!Next, Ledger!Tick
<1> QED
  BY <1>1, <1>2, <1>3, <1>4, <1>5 DEF Next

\* withTransaction in signup, resendOtp and verifyOtp: to accounts, OTPs and mails
\* every transaction is one step or none, whatever runs beside it or fails.
THEOREM Refinement == Spec => ImplementsLedger
<1>1. Init => Ledger!Init
  BY InitSimulates
<1>2. LedgerInv /\ [Next]_vars => [Ledger!Next]_Ledger!vars
  BY StepSimulates
<1> QED
  BY <1>1, <1>2, LedgerInvariance, PTL DEF Spec, ImplementsLedger, Ledger!Spec
=============================================================================
