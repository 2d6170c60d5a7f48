--------------------------- MODULE OtpFlowProofs ---------------------------
(***************************************************************************)
(* Theorems about OtpFlow, for any users, requests, lifetime and length of *)
(* run.  The proof treats the actions that change nothing but their own    *)
(* request together (LocalStep), and the ones that touch the database, the *)
(* mails or the clock one by one.                                          *)
(***************************************************************************)
EXTENDS OtpFlow, TLAPS

\* A request is a record with more fields than Idle.
LEMMA RequestNotIdle == \A q \in Request : q # Idle
BY DEF Request, Idle, PCs

\* What is known of every running request.
LEMMA RunningType ==
  ASSUME TypeOK, NEW r \in Running
  PROVE  r \in Reqs /\ req[r] \in Request
BY DEF TypeOK, Running

\* A step that changes only request r and the mails keeps the invariant when the request it
\* leaves is idle, or well formed and apart from the others.
LEMMA LocalStep ==
  ASSUME OtpInv, NEW r \in Reqs, NEW q \in Request \cup {Idle},
         req' = [req EXCEPT ![r] = q],
         q # Idle => RequestOK(q),
         q # Idle => \A s \in Running \ {r} : Apart(q, req[s]),
         UNCHANGED <<now, status, otps, nextId, issued>>,
         mails' \in SUBSET Otp
  PROVE  OtpInv'
<1>1. TypeOK'
  BY DEF OtpInv, TypeOK
<1>2. (\A s \in Running : RequestOK(req[s]))'
  <2> SUFFICES ASSUME NEW s \in Running' PROVE RequestOK(req[s])'
    OBVIOUS
  <2>1. s \in Reqs /\ req'[s] # Idle
    BY DEF Running
  <2>2. CASE s = r
    <3>1. req'[s] = q
      BY <2>2 DEF OtpInv, TypeOK
    <3> QED
      BY <2>1, <3>1 DEF RequestOK, RowsIssued, InsertedNew, RenewalOK, VerificationOK
  <2>3. CASE s # r
    <3>1. req'[s] = req[s] /\ s \in Running
      BY <2>1, <2>3 DEF OtpInv, TypeOK, Running
    <3>2. RequestOK(req[s])
      BY <3>1 DEF OtpInv
    <3> QED
      BY <3>1, <3>2 DEF RequestOK, RowsIssued, InsertedNew, RenewalOK, VerificationOK
  <2> QED
    BY <2>2, <2>3
<1>3. (\A s, t \in Running : s # t => Apart(req[s], req[t]))'
  <2> SUFFICES ASSUME NEW s \in Running', NEW t \in Running', s # t
               PROVE  Apart(req'[s], req'[t])
    BY DEF Apart
  <2>1. \A x \in Running' : /\ x = r => req'[x] = q /\ q # Idle
                            /\ x # r => req'[x] = req[x] /\ x \in Running
    BY DEF OtpInv, TypeOK, Running
  <2>2. CASE s = r
    BY <2>1, <2>2
  <2>3. CASE t = r
    <3>1. Apart(q, req[s])
      BY <2>1, <2>3
    <3> QED
      BY <2>1, <2>3, <3>1 DEF Apart
  <2>4. CASE s # r /\ t # r
    BY <2>1, <2>4 DEF OtpInv
  <2> QED
    BY <2>2, <2>3, <2>4
<1> QED
  BY <1>1, <1>2, <1>3 DEF OtpInv, OtpUntilActive, Active
\* The common cases: the request ends, ...
LEMMA FinishStep ==
  ASSUME OtpInv, NEW r \in Reqs, Finish(r),
         UNCHANGED <<now, status, otps, nextId, mails, issued>>
  PROVE  OtpInv'
BY LocalStep DEF Finish, OtpInv, TypeOK

\* ... begins, having written nothing, ...
LEMMA BeginStep ==
  ASSUME OtpInv, NEW r \in Reqs, NEW q \in Request,
         req' = [req EXCEPT ![r] = q],
         q.ins = {}, ~q.create, RequestOK(q),
         UNCHANGED <<now, status, otps, nextId, mails, issued>>
  PROVE  OtpInv'
<1>1. \A s \in Running \ {r} : Apart(q, req[s])
  BY DEF Apart
<1> QED
  BY <1>1, LocalStep DEF OtpInv, TypeOK

\* ... or goes on without inserting anything.
LEMMA ContinueStep ==
  ASSUME OtpInv, NEW r \in Running, NEW q \in Request,
         req' = [req EXCEPT ![r] = q],
         q.user = req[r].user, q.ins = req[r].ins, q.create = req[r].create,
         RequestOK(q),
         UNCHANGED <<now, status, otps, nextId, mails, issued>>
  PROVE  OtpInv'
<1>1. r \in Reqs
  BY DEF Running
<1>2. \A s \in Running \ {r} : Apart(q, req[s])
  <2> SUFFICES ASSUME NEW s \in Running \ {r} PROVE Apart(q, req[s])
    OBVIOUS
  <2>1. Apart(req[r], req[s])
    BY DEF OtpInv
  <2> QED
    BY <2>1 DEF Apart
<1> QED
  BY <1>1, <1>2, LocalStep DEF OtpInv, TypeOK

-----------------------------------------------------------------------------
\* The clients.

LEMMA NewRequestType ==
  ASSUME NEW u \in Users
  PROVE  NewRequest \in Request /\ NewRequest.user \in Users
BY DEF NewRequest, Request, PCs, Writes, Otp

LEMMA SignupStep ==
  ASSUME OtpInv, NEW r \in Reqs, NEW u \in Users, Signup(r, u)
  PROVE  OtpInv'
<1> DEFINE q == [NewRequest EXCEPT !.user = u, !.seen = OtpsOf(u),
                   !.pc = IF status[u] = "none" THEN "createUser" ELSE "rate"]
<1>1. /\ q.pc = IF status[u] = "none" THEN "createUser" ELSE "rate"
      /\ q.op = "signup" /\ q.user = u /\ q.seen = OtpsOf(u)
      /\ q.token = {} /\ q.row = {} /\ q.del = {} /\ q.ins = {} /\ q.todo = {}
      /\ ~q.create /\ ~q.update
  BY DEF NewRequest
<1>2. q \in Request
  BY NewRequestType DEF NewRequest, Request, PCs, OtpInv, TypeOK, OtpsOf
<1>3. RequestOK(q)
  <2>1. RowsIssued(q)
    BY <1>1 DEF RowsIssued, OtpsOf, OtpInv
  <2>2. RenewalOK(q)
    BY <1>1 DEF RenewalOK
  <2> QED
    BY <1>1, <2>1, <2>2 DEF RequestOK, InsertedNew
<1> HIDE DEF q
<1> QED
  BY <1>1, <1>2, <1>3, BeginStep DEF Signup, q

LEMMA ResendStep ==
  ASSUME OtpInv, NEW r \in Reqs, NEW o \in mails, Resend(r, o)
  PROVE  OtpInv'
<1> DEFINE q == [NewRequest EXCEPT !.op = "resend", !.user = o.user,
                   !.token = {o}, !.cutoff = now, !.pc = "readToken"]
<1>1. o \in Otp /\ o.user \in Users /\ now \in Nat
  BY DEF OtpInv, TypeOK, Otp
<1>2. /\ q.pc = "readToken" /\ q.op = "resend" /\ q.user = o.user
      /\ q.token = {o} /\ q.seen = {} /\ q.row = {} /\ q.del = {}
      /\ q.ins = {} /\ q.todo = {} /\ ~q.create /\ ~q.update
  BY DEF NewRequest
<1>3. q \in Request
  BY <1>1, NewRequestType DEF NewRequest, Request, PCs
<1>4. RequestOK(q)
  BY <1>2 DEF RequestOK, RowsIssued, InsertedNew, RenewalOK
<1> HIDE DEF q
<1> QED
  BY <1>2, <1>3, <1>4, BeginStep DEF Resend, q

LEMMA VerifyStep ==
  ASSUME OtpInv, NEW r \in Reqs, NEW t \in mails, NEW code \in SUBSET mails,
         Verify(r, t, code)
  PROVE  OtpInv'
<1> DEFINE q == [NewRequest EXCEPT !.op = "verify", !.user = t.user,
                   !.token = {t}, !.code = code, !.cutoff = now,
                   !.pc = "readToken"]
<1>1. t \in Otp /\ t.user \in Users /\ now \in Nat /\ code \in SUBSET Otp
  BY DEF OtpInv, TypeOK, Otp
<1>2. /\ q.pc = "readToken" /\ q.op = "verify" /\ q.user = t.user
      /\ q.token = {t} /\ q.seen = {} /\ q.row = {} /\ q.del = {}
      /\ q.ins = {} /\ q.todo = {} /\ ~q.create /\ ~q.update
  BY DEF NewRequest
<1>3. q \in Request
  BY <1>1, NewRequestType DEF NewRequest, Request, PCs
<1>4. RequestOK(q)
  BY <1>2 DEF RequestOK, RowsIssued, InsertedNew, VerificationOK
<1> HIDE DEF q
<1> QED
  BY <1>2, <1>3, <1>4, BeginStep DEF Verify, q

-----------------------------------------------------------------------------
\* The server, in transactions and outside them, up to COMMIT.

LEMMA RunningOK ==
  ASSUME OtpInv, NEW r \in Running
  PROVE  r \in Reqs /\ req[r] \in Request /\ RequestOK(req[r])
BY RunningType DEF OtpInv

LEMMA CreateUserStep ==
  ASSUME OtpInv, NEW r \in Running, CreateUser(r)
  PROVE  OtpInv'
<1> DEFINE q == [req[r] EXCEPT !.pc = "rate", !.create = TRUE]
<1>1. r \in Reqs /\ req[r] \in Request /\ RequestOK(req[r])
  BY RunningOK
<1>2. q \in Request
  BY <1>1 DEF Request, PCs
<1>3. req[r].op \in {"signup", "resend", "verify"} /\ req[r].pc = "createUser"
  BY <1>1 DEF Request, CreateUser, At
<1>4. req[r].op = "signup"
  \* Only a signup creates a user.
  BY <1>1, <1>3 DEF RequestOK, VerificationOK, RenewalOK
<1>5. RequestOK(q)
  BY <1>1, <1>3, <1>4
     DEF RequestOK, RowsIssued, InsertedNew, RenewalOK, Request, CreateUser
<1>6. \A s \in Running \ {r} : Apart(q, req[s])
  <2> SUFFICES ASSUME NEW s \in Running \ {r} PROVE Apart(q, req[s])
    OBVIOUS
  <2>1. Apart(req[r], req[s])
    BY DEF OtpInv
  <2>2. s \in Others(r) => ~req[s].create
    BY DEF CreateUser
  <2> QED
    BY <1>1, <2>1, <2>2 DEF Apart, Others, Request
<1>7. req' = [req EXCEPT ![r] = q]
  BY <1>1 DEF CreateUser
<1> HIDE DEF q
<1> QED
  BY <1>1, <1>2, <1>5, <1>6, <1>7, LocalStep DEF CreateUser, OtpInv, TypeOK

LEMMA ResendReadStep ==
  ASSUME OtpInv, NEW r \in Running, ResendRead(r)
  PROVE  OtpInv'
<1> DEFINE q == [req[r] EXCEPT !.pc = "rate", !.token = {}]
<1>1. r \in Reqs /\ req[r] \in Request /\ RequestOK(req[r])
  BY RunningOK
<1>2. CASE Finish(r)
  BY <1>1, <1>2, FinishStep DEF ResendRead
<1>3. CASE ~Finish(r)
  <2>1. PICK o \in otps : \E t \in req[r].token : SameToken(o, t)
    BY <1>3 DEF ResendRead
  <2>2. req' = [req EXCEPT ![r] = q]
    BY <1>1, <1>3 DEF ResendRead
  <2>3. status[req[r].user] # "none"
    BY <1>1, <2>1 DEF RequestOK, SameToken, OtpInv
  <2>4. q \in Request
    BY <1>1 DEF Request, PCs
  <2>5. /\ q.pc = "rate" /\ q.op = "resend" /\ q.user = req[r].user
        /\ q.token = {} /\ q.seen = req[r].seen /\ q.row = req[r].row
        /\ q.del = req[r].del /\ q.ins = req[r].ins /\ q.todo = req[r].todo
        /\ q.create = req[r].create /\ q.update = req[r].update
    BY <1>1 DEF Request, ResendRead
  <2> HIDE DEF q
  <2>6. RequestOK(q)
    BY <1>1, <2>3, <2>5
       DEF RequestOK, RowsIssued, InsertedNew, RenewalOK, ResendRead, At
  <2> QED
    BY <2>2, <2>4, <2>5, <2>6, ContinueStep DEF ResendRead
<1> QED
  BY <1>2, <1>3

LEMMA RateGrantedStep ==
  ASSUME OtpInv, NEW r \in Running, RateGranted(r)
  PROVE  OtpInv'
<1> DEFINE q == [req[r] EXCEPT !.pc = "readActive", !.cutoff = now]
<1>1. r \in Reqs /\ req[r] \in Request /\ RequestOK(req[r])
  BY RunningOK
<1>2. q \in Request
  BY <1>1 DEF Request, PCs, OtpInv, TypeOK
<1>3. RequestOK(q)
  BY <1>1 DEF RequestOK, RowsIssued, InsertedNew, RenewalOK, VerificationOK,
              Request, RateGranted, At
<1>4. req' = [req EXCEPT ![r] = q]
  BY <1>1 DEF RateGranted
<1>5. q.user = req[r].user /\ q.ins = req[r].ins /\ q.create = req[r].create
  BY <1>1 DEF Request
<1> HIDE DEF q
<1> QED
  BY <1>2, <1>3, <1>4, <1>5, ContinueStep DEF RateGranted

LEMMA ReadActiveStep ==
  ASSUME OtpInv, NEW r \in Running, ReadActive(r)
  PROVE  OtpInv'
<1> DEFINE p(pc, row) == [req[r] EXCEPT !.pc = pc, !.row = row,
                            !.seen = {}, !.cutoff = 0]
<1>1. r \in Reqs /\ req[r] \in Request /\ RequestOK(req[r])
  BY RunningOK
<1>2. req[r].pc = "readActive" /\ req[r].op \in {"signup", "resend", "verify"}
  BY <1>1 DEF ReadActive, At, Request
<1>3. PICK pc \in {"createOtp", "delete"}, row \in SUBSET Otp :
        /\ req' = [req EXCEPT ![r] = p(pc, row)]
        /\ \A o \in row : o.user = req[r].user /\ o \in issued
  <2>1. \A o \in req[r].seen \cup OtpsOf(req[r].user) :
          o \in Otp /\ o.user = req[r].user /\ o \in issued
    BY <1>1 DEF RequestOK, RowsIssued, OtpsOf, OtpInv, TypeOK
  <2>2. CASE \E o \in req[r].seen \cup OtpsOf(req[r].user) :
               req' = [req EXCEPT ![r].pc = "delete", ![r].row = {o},
                         ![r].seen = {}, ![r].cutoff = 0]
    <3>1. PICK o \in req[r].seen \cup OtpsOf(req[r].user) :
             req' = [req EXCEPT ![r].pc = "delete", ![r].row = {o},
                       ![r].seen = {}, ![r].cutoff = 0]
      BY <2>2
    <3>2. {o} \in SUBSET Otp /\ \A x \in {o} : x.user = req[r].user /\ x \in issued
      BY <2>1
    <3>3. req' = [req EXCEPT ![r] = p("delete", {o})]
      BY <1>1, <3>1 DEF Request
    <3> HIDE DEF p
    <3> QED
      BY <3>2, <3>3
  <2>3. CASE req' = [req EXCEPT ![r].pc = "createOtp",
                       ![r].seen = {}, ![r].cutoff = 0]
    <3>1. req[r].row \in SUBSET Otp
      BY <1>1 DEF Request
    <3>2. req' = [req EXCEPT ![r] = p("createOtp", req[r].row)]
      BY <1>1, <2>3 DEF Request
    <3>3. \A o \in req[r].row : o.user = req[r].user /\ o \in issued
      BY <1>1 DEF RequestOK, RowsIssued
    <3> HIDE DEF p
    <3> QED
      BY <3>1, <3>2, <3>3
  <2> QED
    BY <2>2, <2>3 DEF ReadActive
<1> DEFINE q == p(pc, row)
<1>4. q \in Request
  BY <1>1 DEF Request, PCs
<1>5. /\ q.pc = pc /\ q.op = req[r].op /\ q.user = req[r].user
      /\ q.token = req[r].token /\ q.seen = {} /\ q.row = row
      /\ q.del = req[r].del /\ q.ins = req[r].ins /\ q.todo = req[r].todo
      /\ q.create = req[r].create /\ q.update = req[r].update
  BY <1>1 DEF Request
<1> HIDE DEF q
<1>6. RequestOK(q)
  BY <1>1, <1>2, <1>3, <1>5
     DEF RequestOK, RowsIssued, InsertedNew, RenewalOK, VerificationOK
<1>7. req' = [req EXCEPT ![r] = q]
  BY <1>3 DEF q
<1> QED
  BY <1>4, <1>5, <1>6, <1>7, ContinueStep DEF ReadActive

LEMMA DeleteCurrentStep ==
  ASSUME OtpInv, NEW r \in Running, DeleteCurrent(r)
  PROVE  OtpInv'
<1> DEFINE q == [req[r] EXCEPT !.pc = "createOtp",
                   !.del = req[r].row \cap otps, !.row = {}]
<1>1. r \in Reqs /\ req[r] \in Request /\ RequestOK(req[r])
  BY RunningOK
<1>2. req[r].pc = "delete" /\ req[r].op \in {"signup", "resend", "verify"}
  BY <1>1 DEF DeleteCurrent, At, Request
<1>3. q \in Request
  BY <1>1 DEF Request, PCs
<1>4. /\ q.pc = "createOtp" /\ q.op = req[r].op /\ q.user = req[r].user
      /\ q.token = req[r].token /\ q.seen = req[r].seen /\ q.row = {}
      /\ q.del = req[r].row \cap otps /\ q.ins = req[r].ins
      /\ q.todo = req[r].todo /\ q.create = req[r].create
      /\ q.update = req[r].update
  BY <1>1 DEF Request
<1>5. req' = [req EXCEPT ![r] = q]
  BY <1>1 DEF DeleteCurrent
<1> HIDE DEF q
<1>6. RequestOK(q)
  BY <1>1, <1>2, <1>4
     DEF RequestOK, RowsIssued, InsertedNew, RenewalOK, VerificationOK
<1> QED
  BY <1>3, <1>4, <1>5, <1>6, ContinueStep DEF DeleteCurrent

\* The new OTP lasts as long as any issued so far, so as the one deleted.
LEMMA CreateOtpStep ==
  ASSUME OtpInv, NEW r \in Running, CreateOtp(r)
  PROVE  OtpInv'
<1> DEFINE q == [req[r] EXCEPT !.pc = "sign", !.exp = now + OtpTTL]
<1>1. r \in Reqs /\ req[r] \in Request /\ RequestOK(req[r])
  BY RunningOK
<1>2. /\ req[r].pc = "createOtp" /\ req[r].op \in {"signup", "resend", "verify"}
      /\ now + OtpTTL \in Nat
  BY <1>1, TTLAssumption DEF CreateOtp, At, Request, OtpInv, TypeOK
<1>3. q \in Request
  BY <1>1, <1>2 DEF Request, PCs
<1>4. /\ q.pc = "sign" /\ q.op = req[r].op /\ q.user = req[r].user
      /\ q.token = req[r].token /\ q.seen = req[r].seen /\ q.row = req[r].row
      /\ q.del = req[r].del /\ q.ins = req[r].ins /\ q.exp = now + OtpTTL
      /\ q.todo = req[r].todo /\ q.create = req[r].create
      /\ q.update = req[r].update
  BY <1>1 DEF Request
<1>5. req' = [req EXCEPT ![r] = q]
  BY <1>1 DEF CreateOtp
<1> HIDE DEF q
<1>6. \A d \in q.del : d.expiresAt <= q.exp
  BY <1>1, <1>4 DEF RequestOK, RowsIssued, OtpInv
<1>7. RequestOK(q)
  BY <1>1, <1>2, <1>4, <1>6
     DEF RequestOK, RowsIssued, InsertedNew, RenewalOK, VerificationOK
<1> QED
  BY <1>3, <1>4, <1>5, <1>7, ContinueStep DEF CreateOtp

LEMMA SignOtpStep ==
  ASSUME OtpInv, NEW r \in Running, SignOtp(r)
  PROVE  OtpInv'
<1> DEFINE q == [req[r] EXCEPT !.pc = "insert", !.iat = now]
<1>1. r \in Reqs /\ req[r] \in Request /\ RequestOK(req[r])
  BY RunningOK
<1>2. /\ req[r].pc = "sign" /\ req[r].op \in {"signup", "resend", "verify"}
      /\ now \in Nat
  BY <1>1 DEF SignOtp, At, Request, OtpInv, TypeOK
<1>3. q \in Request
  BY <1>1, <1>2 DEF Request, PCs
<1>4. /\ q.pc = "insert" /\ q.op = req[r].op /\ q.user = req[r].user
      /\ q.token = req[r].token /\ q.seen = req[r].seen /\ q.row = req[r].row
      /\ q.del = req[r].del /\ q.ins = req[r].ins /\ q.exp = req[r].exp
      /\ q.todo = req[r].todo /\ q.create = req[r].create
      /\ q.update = req[r].update
  BY <1>1 DEF Request
<1>5. req' = [req EXCEPT ![r] = q]
  BY <1>1 DEF SignOtp
<1> HIDE DEF q
<1>6. RequestOK(q)
  BY <1>1, <1>2, <1>4
     DEF RequestOK, RowsIssued, InsertedNew, RenewalOK, VerificationOK
<1> QED
  BY <1>3, <1>4, <1>5, <1>6, ContinueStep DEF SignOtp

LEMMA VerifyReadStep ==
  ASSUME OtpInv, NEW r \in Running, VerifyRead(r)
  PROVE  OtpInv'
<1>1. r \in Reqs /\ req[r] \in Request /\ RequestOK(req[r])
  BY RunningOK
<1>2. CASE Finish(r)
  BY <1>1, <1>2, FinishStep DEF VerifyRead
<1>3. CASE ~Finish(r)
  <2>1. PICK o \in otps :
          /\ \E t \in req[r].token : SameToken(o, t)
          /\ o \in req[r].code
          /\ req' = [req EXCEPT ![r].pc = "write", ![r].row = {o},
                       ![r].token = {}, ![r].cutoff = 0, ![r].todo = Writes]
    BY <1>3 DEF VerifyRead, Matches
  <2> DEFINE q == [req[r] EXCEPT !.pc = "write", !.row = {o},
                     !.token = {}, !.cutoff = 0, !.todo = Writes]
  <2>2. req[r].pc = "readToken" /\ req[r].op = "verify" /\ o \in Otp /\ o \in issued
    BY <2>1 DEF VerifyRead, At, OtpInv, TypeOK
  <2>3. o.user = req[r].user
    BY <1>1, <2>1 DEF RequestOK, SameToken
  <2>4. q \in Request
    BY <1>1, <2>2 DEF Request, PCs
  <2>5. /\ q.pc = "write" /\ q.op = "verify" /\ q.user = req[r].user
        /\ q.token = {} /\ q.seen = req[r].seen /\ q.row = {o}
        /\ q.code = req[r].code
        /\ q.del = req[r].del /\ q.ins = req[r].ins /\ q.todo = Writes
        /\ q.create = req[r].create /\ q.update = req[r].update
    BY <1>1, <2>2 DEF Request
  <2>6. req' = [req EXCEPT ![r] = q]
    BY <1>1, <2>1
  <2> HIDE DEF q
  <2>7. VerificationOK(q)
    BY <1>1, <2>1, <2>2, <2>5 DEF RequestOK, VerificationOK, Writes
  <2>8. RequestOK(q)
    BY <1>1, <2>2, <2>3, <2>5, <2>7 DEF RequestOK, RowsIssued, InsertedNew
  <2> QED
    BY <2>4, <2>5, <2>6, <2>8, ContinueStep DEF VerifyRead
<1> QED
  BY <1>2, <1>3

LEMMA ConsumeOtpStep ==
  ASSUME OtpInv, NEW r \in Running, ConsumeOtp(r)
  PROVE  OtpInv'
<1> DEFINE q == [Done(r, "deleteOtp") EXCEPT !.del = req[r].row \cap otps]
<1>1. r \in Reqs /\ req[r] \in Request /\ RequestOK(req[r])
  BY RunningOK
<1>2. /\ req[r].pc = "write" /\ req[r].op \in {"signup", "resend", "verify"}
      /\ req[r].todo \in SUBSET Writes /\ "deleteOtp" \in req[r].todo
  BY <1>1 DEF ConsumeOtp, At, Request
<1>3. req[r].op = "verify"
  BY <1>1, <1>2 DEF RequestOK, RenewalOK
<1>4. q \in Request
  BY <1>1, <1>2 DEF Request, PCs, Done, Writes
<1>5. /\ q.pc \in {"write", "commit"} /\ q.op = "verify" /\ q.user = req[r].user
      /\ q.token = req[r].token /\ q.seen = req[r].seen /\ q.row = req[r].row
      /\ q.code = req[r].code
      /\ q.del = req[r].row \cap otps /\ q.ins = req[r].ins
      /\ q.todo = req[r].todo \ {"deleteOtp"}
      /\ q.create = req[r].create /\ q.update = req[r].update
      /\ q.pc = "commit" => req[r].todo = {"deleteOtp"}
  BY <1>1, <1>3 DEF Request, Done
<1>6. req' = [req EXCEPT ![r] = q]
  BY <1>1 DEF ConsumeOtp
<1> HIDE DEF q
<1>7. VerificationOK(q)
  BY <1>1, <1>2, <1>3, <1>5 DEF RequestOK, VerificationOK
<1>8. RequestOK(q)
  BY <1>1, <1>3, <1>5, <1>7 DEF RequestOK, RowsIssued, InsertedNew, VerificationOK
<1> QED
  BY <1>4, <1>5, <1>6, <1>8, ContinueStep DEF ConsumeOtp

LEMMA ActivateUserStep ==
  ASSUME OtpInv, NEW r \in Running, ActivateUser(r)
  PROVE  OtpInv'
<1> DEFINE q == [Done(r, "activateUser") EXCEPT !.update = TRUE]
<1>1. r \in Reqs /\ req[r] \in Request /\ RequestOK(req[r])
  BY RunningOK
<1>2. /\ req[r].pc = "write" /\ req[r].op \in {"signup", "resend", "verify"}
      /\ req[r].todo \in SUBSET Writes /\ "activateUser" \in req[r].todo
  BY <1>1 DEF ActivateUser, At, Request
<1>3. req[r].op = "verify"
  BY <1>1, <1>2 DEF RequestOK, RenewalOK
<1>4. q \in Request
  BY <1>1, <1>2 DEF Request, PCs, Done, Writes
<1>5. /\ q.pc \in {"write", "commit"} /\ q.op = "verify" /\ q.user = req[r].user
      /\ q.token = req[r].token /\ q.seen = req[r].seen /\ q.row = req[r].row
      /\ q.code = req[r].code
      /\ q.del = req[r].del /\ q.ins = req[r].ins
      /\ q.todo = req[r].todo \ {"activateUser"}
      /\ q.create = req[r].create /\ q.update
      /\ q.pc = "commit" => req[r].todo = {"activateUser"}
  BY <1>1, <1>3 DEF Request, Done
<1>6. req' = [req EXCEPT ![r] = q]
  BY <1>1 DEF ActivateUser
<1> HIDE DEF q
<1>7. VerificationOK(q)
  BY <1>1, <1>2, <1>3, <1>5 DEF RequestOK, VerificationOK
<1>8. RequestOK(q)
  BY <1>1, <1>3, <1>5, <1>7 DEF RequestOK, RowsIssued, InsertedNew
<1> QED
  BY <1>4, <1>5, <1>6, <1>8, ContinueStep DEF ActivateUser

LEMMA FailStep ==
  ASSUME OtpInv, NEW r \in Reqs, Fail(r)
  PROVE  OtpInv'
BY FinishStep DEF Fail

LEMMA PublishStep ==
  ASSUME OtpInv, NEW r \in Running, Publish(r)
  PROVE  OtpInv'
<1>1. r \in Reqs /\ req[r] \in Request /\ RequestOK(req[r])
  BY RunningOK
<1>2. mails' \in SUBSET Otp
  BY <1>1 DEF Publish, Request, OtpInv, TypeOK
<1>3. CASE req[r].op # "signup"
  BY <1>1, <1>2, <1>3, LocalStep DEF Publish, Finish
<1>4. CASE req[r].op = "signup"
  <2> DEFINE q == [req[r] EXCEPT !.pc = "commit"]
  <2>1. q \in Request
    BY <1>1 DEF Request, PCs
  <2>2. /\ q.pc = "commit" /\ q.op = req[r].op /\ q.user = req[r].user
        /\ q.token = req[r].token /\ q.seen = req[r].seen /\ q.row = req[r].row
        /\ q.del = req[r].del /\ q.ins = req[r].ins /\ q.todo = req[r].todo
        /\ q.create = req[r].create /\ q.update = req[r].update
    BY <1>1 DEF Request
  <2>3. req' = [req EXCEPT ![r] = q]
    BY <1>1, <1>4 DEF Publish
  <2> HIDE DEF q
  <2>4. RequestOK(q)
    BY <1>1, <1>4, <2>2
       DEF RequestOK, RowsIssued, InsertedNew, RenewalOK, Publish, At
  <2>5. \A s \in Running \ {r} : Apart(q, req[s])
    <3> SUFFICES ASSUME NEW s \in Running \ {r} PROVE Apart(q, req[s])
      OBVIOUS
    <3>1. Apart(req[r], req[s])
      BY DEF OtpInv
    <3> QED
      BY <2>2, <3>1 DEF Apart
  <2> QED
    BY <1>1, <1>2, <2>1, <2>3, <2>4, <2>5, LocalStep DEF Publish
<1> QED
  BY <1>3, <1>4

\* The row inserted has an id no row had before.
LEMMA InsertOtpStep ==
  ASSUME OtpInv, NEW r \in Running, InsertOtp(r)
  PROVE  OtpInv'
<1> DEFINE o == [id |-> nextId, user |-> req[r].user,
                 iat |-> req[r].iat, expiresAt |-> req[r].exp]
           q == [req[r] EXCEPT !.ins = {o}, !.exp = 0, !.iat = 0,
                   !.pc = IF req[r].op = "signup" THEN "publish" ELSE "commit"]
<1>1. r \in Reqs /\ req[r] \in Request /\ RequestOK(req[r])
  BY RunningOK
<1>2. /\ req[r].pc = "insert" /\ req[r].op \in {"signup", "resend", "verify"}
      /\ nextId \in Nat /\ nextId' = nextId + 1
  BY <1>1 DEF InsertOtp, At, Request, OtpInv, TypeOK
<1>3. o \in Otp
  BY <1>1, <1>2 DEF Request, Otp
<1>4. q \in Request
  BY <1>1, <1>3 DEF Request, PCs
<1>5. /\ q.pc = IF req[r].op = "signup" THEN "publish" ELSE "commit"
      /\ q.op = req[r].op /\ q.user = req[r].user
      /\ q.token = req[r].token /\ q.seen = req[r].seen /\ q.row = req[r].row
      /\ q.del = req[r].del /\ q.ins = {o} /\ q.todo = req[r].todo
      /\ q.create = req[r].create /\ q.update = req[r].update
  BY <1>1 DEF Request
<1>6. req' = [req EXCEPT ![r] = q]
  BY <1>1 DEF InsertOtp
<1>7. o.id = nextId /\ o.user = req[r].user /\ o.expiresAt = req[r].exp
  OBVIOUS
<1> HIDE DEF o, q
<1>8. o \notin issued /\ \A s \in Running \ {r} : o \notin req[s].ins
  <2>1. o \notin issued
    BY <1>2, <1>7 DEF OtpInv
  <2>2. \A s \in Running : o \notin req[s].ins
    BY <1>2, <1>7, RunningOK DEF RequestOK, InsertedNew
  <2> QED
    BY <2>1, <2>2
<1>9. TypeOK'
  <2>1. nextId' \in Nat
    BY <1>2
  <2>2. req' \in [Reqs -> Request \cup {Idle}]
    BY <1>4, <1>6 DEF OtpInv, TypeOK
  <2> QED
    BY <2>1, <2>2 DEF OtpInv, TypeOK, InsertOtp
<1>10. UNCHANGED <<now, status, otps, mails, issued>>
  BY DEF InsertOtp
<1>11. \A s \in Running' : /\ s = r => req'[s] = q
                           /\ s # r => req'[s] = req[s] /\ s \in Running
  BY <1>6 DEF OtpInv, TypeOK, Running
<1>12. (\A s \in Running : RequestOK(req[s]))'
  <2> SUFFICES ASSUME NEW s \in Running' PROVE RequestOK(req[s])'
    OBVIOUS
  <2>1. CASE s = r
    <3>1. req[r].op # "verify" /\ RenewalOK(req[r])
      BY <1>1, <1>2 DEF RequestOK, VerificationOK
    <3>2. InsertedNew(req[s])'
      BY <1>2, <1>5, <1>7, <1>8, <1>10, <1>11, <2>1, <3>1 DEF InsertedNew, RenewalOK
    <3>3. RenewalOK(req[s])'
      BY <1>2, <1>5, <1>10, <1>11, <2>1, <3>1 DEF RenewalOK
    <3>4. RowsIssued(req[s])'
      BY <1>1, <1>5, <1>10, <1>11, <2>1 DEF RequestOK, RowsIssued
    <3> QED
      BY <1>1, <1>5, <1>10, <1>11, <2>1, <3>1, <3>2, <3>3, <3>4 DEF RequestOK
  <2>2. CASE s # r
    <3>1. req'[s] = req[s] /\ req[s] \in Request /\ RequestOK(req[s])
      BY <1>11, <2>2, RunningOK
    <3>2. InsertedNew(req[s])'
      BY <1>2, <1>10, <3>1 DEF RequestOK, InsertedNew, Request, Otp
    <3> QED
      BY <1>10, <3>1, <3>2 DEF RequestOK, RowsIssued, RenewalOK, VerificationOK
  <2> QED
    BY <2>1, <2>2
<1>13. (\A s, t \in Running : s # t => Apart(req[s], req[t]))'
  <2> SUFFICES ASSUME NEW s \in Running', NEW t \in Running', s # t
               PROVE  Apart(req'[s], req'[t])
    BY DEF Apart
  <2>1. \A x \in Running \ {r} : Apart(q, req[x]) /\ Apart(req[x], q)
    <3> SUFFICES ASSUME NEW x \in Running \ {r}
                 PROVE  Apart(q, req[x]) /\ Apart(req[x], q)
      OBVIOUS
    <3>1. Apart(req[r], req[x])
      BY DEF OtpInv
    <3> QED
      BY <1>5, <1>8, <3>1 DEF Apart
  <2>2. CASE s # r /\ t # r
    BY <1>11, <2>2 DEF OtpInv
  <2> QED
    BY <1>11, <2>1, <2>2
<1>14. (\A x \in issued : /\ x.id < nextId
                          /\ x.expiresAt <= now + OtpTTL
                          /\ status[x.user] # "none")'
  BY <1>2, <1>10 DEF OtpInv, TypeOK, Otp
<1> QED
  BY <1>9, <1>10, <1>12, <1>13, <1>14 DEF OtpInv, OtpUntilActive, Active

-----------------------------------------------------------------------------
\* COMMIT.

\* What the committing request knows, and what becomes of its user's status.
LEMMA CommitFacts ==
  ASSUME OtpInv, NEW r \in Running, Commit(r)
  PROVE  /\ r \in Reqs /\ req[r] \in Request /\ RequestOK(req[r])
         /\ req[r].pc = "commit" /\ req[r].user \in Users
         /\ req[r].op = "verify" =>
              /\ req[r].update /\ req[r].ins = {}
              /\ req[r].row \cap otps \subseteq req[r].del
              /\ \E o \in req[r].code : /\ req[r].row = {o}
                                        /\ o.user = req[r].user
                                        /\ o \in issued
         /\ req[r].op # "verify" => ~req[r].update /\ req[r].ins # {}
         /\ req[r].update => status[req[r].user] # "none"
         /\ status' \in [Users -> Statuses]
         /\ status'[req[r].user] = StatusAfter(r)
         /\ \A u \in Users \ {req[r].user} : status'[u] = status[u]
<1>1. r \in Reqs /\ req[r] \in Request /\ RequestOK(req[r])
  BY RunningOK
<1>2. req[r].pc = "commit" /\ req[r].user \in Users
  BY <1>1 DEF Commit, At, Request
<1>3. req[r].op = "verify" =>
        /\ req[r].update /\ req[r].ins = {}
        /\ req[r].row \cap otps \subseteq req[r].del
        /\ \E o \in req[r].code : /\ req[r].row = {o}
                                  /\ o.user = req[r].user
                                  /\ o \in issued
  <2> SUFFICES ASSUME req[r].op = "verify"
               PROVE  /\ req[r].update /\ req[r].ins = {}
                      /\ req[r].row \cap otps \subseteq req[r].del
                      /\ \E o \in req[r].code : /\ req[r].row = {o}
                                                /\ o.user = req[r].user
                                                /\ o \in issued
    OBVIOUS
  <2>1. VerificationOK(req[r]) /\ RowsIssued(req[r])
    BY <1>1 DEF RequestOK
  <2>2. PICK o \in req[r].code : req[r].row = {o}
    BY <1>2, <2>1 DEF VerificationOK
  <2> QED
    BY <1>2, <2>1, <2>2 DEF VerificationOK, RowsIssued
<1>4. req[r].op # "verify" => ~req[r].update /\ req[r].ins # {}
  BY <1>1, <1>2 DEF RequestOK, RenewalOK
<1>5. req[r].update => status[req[r].user] # "none"
  BY <1>3, <1>4 DEF OtpInv
<1>6. StatusAfter(r) \in Statuses
  BY <1>2 DEF StatusAfter, Statuses, OtpInv, TypeOK
<1>7. /\ status' \in [Users -> Statuses]
      /\ status'[req[r].user] = StatusAfter(r)
      /\ \A u \in Users \ {req[r].user} : status'[u] = status[u]
  BY <1>2, <1>6 DEF Commit, OtpInv, TypeOK
<1> QED
  BY <1>1, <1>2, <1>3, <1>4, <1>5, <1>7

\* A committed renewal replaces what it deletes; a committed verification
\* leaves its user active.
LEMMA CommitKeepsOtp ==
  ASSUME OtpInv, NEW r \in Running, Commit(r)
  PROVE  OtpUntilActive'
<1> SUFFICES ASSUME NEW o \in issued', status'[o.user] # "ACTIVE", Active(o, now)
             PROVE  \E p \in otps' : p.user = o.user /\ p.expiresAt >= o.expiresAt
  BY DEF OtpUntilActive, Active, Commit
<1>1. /\ otps' = (otps \ req[r].del) \cup req[r].ins
      /\ issued' = issued \cup req[r].ins
  BY DEF Commit
<1>2. /\ req[r] \in Request /\ RequestOK(req[r])
      /\ req[r].op = "verify" => req[r].update
      /\ req[r].op # "verify" => req[r].ins # {}
      /\ status'[req[r].user] = StatusAfter(r)
      /\ \A u \in Users \ {req[r].user} : status'[u] = status[u]
  BY CommitFacts
<1>3. o \in Otp /\ o.user \in Users /\ o.expiresAt \in Nat
  BY <1>1, <1>2 DEF OtpInv, TypeOK, Request, Otp
<1>4. CASE o \in req[r].ins
  BY <1>1, <1>3, <1>4
<1>5. CASE o \in issued
  <2>1. status[o.user] # "ACTIVE"
    BY <1>2, <1>3 DEF StatusAfter, RequestOK
  <2>2. PICK p \in otps : p.user = o.user /\ p.expiresAt >= o.expiresAt
    BY <1>5, <2>1 DEF OtpInv, OtpUntilActive
  <2>3. CASE p \notin req[r].del
    BY <1>1, <2>2, <2>3
  <2>4. CASE p \in req[r].del
    <3>1. p.user = req[r].user /\ p \in Otp /\ p.expiresAt \in Nat
      BY <1>2, <2>4 DEF RequestOK, RowsIssued, OtpInv, TypeOK, Otp
    <3>2. req[r].op # "verify"
      BY <1>2, <2>2, <3>1 DEF StatusAfter
    <3>3. PICK i \in req[r].ins : TRUE
      BY <1>2, <3>2
    <3>4. i.user = req[r].user /\ p.expiresAt <= i.expiresAt /\ i.expiresAt \in Nat
      BY <1>2, <2>4, <3>3 DEF RequestOK, InsertedNew, Request, Otp
    <3> QED
      BY <1>1, <1>3, <2>2, <3>1, <3>3, <3>4
  <2> QED
    BY <2>3, <2>4
<1> QED
  BY <1>1, <1>4, <1>5

\* The other requests are not disturbed.
LEMMA CommitOthers ==
  ASSUME OtpInv, NEW r \in Running, Commit(r), NEW s \in Running \ {r}
  PROVE  req'[s] = req[s] /\ RequestOK(req[s])'
<1>1. /\ otps' = (otps \ req[r].del) \cup req[r].ins
      /\ issued' = issued \cup req[r].ins
      /\ UNCHANGED <<now, nextId, mails>>
  BY DEF Commit
<1>2. /\ RequestOK(req[r])
      /\ req[r].user \in Users
      /\ req[r].update => status[req[r].user] # "none"
      /\ status'[req[r].user] = StatusAfter(r)
      /\ \A u \in Users \ {req[r].user} : status'[u] = status[u]
  BY CommitFacts
<1>3. s \in Reqs /\ req[s] \in Request /\ RequestOK(req[s]) /\ Apart(req[r], req[s])
  BY RunningOK DEF OtpInv
<1>4. req'[s] = req[s]
  BY <1>3 DEF Commit, Finish, OtpInv, TypeOK
<1>5. req[s].user \in Users
  BY <1>3 DEF Request
<1>6. status[req[s].user] # "none" => status'[req[s].user] # "none"
  BY <1>2, <1>5 DEF StatusAfter
<1>7. req[s].create => status'[req[s].user] = "none"
  BY <1>2, <1>3, <1>5 DEF StatusAfter, RequestOK, Apart
<1>8. RowsIssued(req[s])'
  BY <1>1, <1>3, <1>4 DEF RequestOK, RowsIssued
<1>9. InsertedNew(req[s])'
  BY <1>1, <1>3, <1>4 DEF RequestOK, InsertedNew, Apart
<1>10. req[s].op = "verify" => VerificationOK(req[s])'
  <2> SUFFICES ASSUME req[s].op = "verify" PROVE VerificationOK(req[s])'
    OBVIOUS
  <2>1. VerificationOK(req[s])
    BY <1>3 DEF RequestOK
  <2>2. req[s].row \cap req[r].ins = {}
    BY <1>2, <1>3 DEF RequestOK, RowsIssued, InsertedNew
  <2> QED
    BY <1>1, <1>4, <2>1, <2>2 DEF VerificationOK
<1>11. req[s].op # "verify" => RenewalOK(req[s])'
  BY <1>1, <1>3, <1>4, <1>6 DEF RequestOK, RenewalOK
<1> QED
  BY <1>3, <1>4, <1>7, <1>8, <1>9, <1>10, <1>11 DEF RequestOK

LEMMA CommitStep ==
  ASSUME OtpInv, NEW r \in Running, Commit(r)
  PROVE  OtpInv'
<1> DEFINE q == IF req[r].op = "resend"
                THEN [req[r] EXCEPT !.pc = "publish", !.row = req[r].ins,
                        !.del = {}, !.ins = {}]
                ELSE Idle
<1>1. /\ otps' = (otps \ req[r].del) \cup req[r].ins
      /\ issued' = issued \cup req[r].ins
      /\ UNCHANGED <<now, nextId, mails>>
  BY DEF Commit
<1>2. /\ r \in Reqs /\ req[r] \in Request /\ RequestOK(req[r])
      /\ req[r].pc = "commit" /\ req[r].user \in Users
      /\ req[r].op = "verify" => req[r].ins = {}
      /\ status' \in [Users -> Statuses]
      /\ status'[req[r].user] = StatusAfter(r)
      /\ \A u \in Users \ {req[r].user} : status'[u] = status[u]
  BY CommitFacts
<1>3. q \in Request \cup {Idle}
  BY <1>2 DEF Request, PCs
<1>4. req' = [req EXCEPT ![r] = q]
  BY <1>2 DEF Commit, Finish
<1>5. req[r].op = "resend" =>
        /\ q.pc = "publish" /\ q.op = "resend" /\ q.user = req[r].user
        /\ q.token = req[r].token /\ q.seen = req[r].seen
        /\ q.row = req[r].ins /\ q.del = {} /\ q.ins = {}
        /\ q.todo = req[r].todo /\ q.create = req[r].create
        /\ q.update = req[r].update
  BY <1>2 DEF Request
<1>6. req[r].op # "resend" => q = Idle
  OBVIOUS
<1> HIDE DEF q
<1>7. TypeOK'
  <2>1. req[r].ins \in SUBSET Otp
    BY <1>2 DEF Request
  <2>2. req' \in [Reqs -> Request \cup {Idle}]
    BY <1>3, <1>4 DEF OtpInv, TypeOK
  <2> QED
    BY <1>1, <1>2, <2>1, <2>2 DEF OtpInv, TypeOK
<1>8. otps' \subseteq issued'
  BY <1>1 DEF OtpInv
<1>9. \A o \in issued' : /\ o.id < nextId
                         /\ o.expiresAt <= now + OtpTTL
                         /\ status'[o.user] # "none"
  <2>1. \A o \in req[r].ins : /\ o.user = req[r].user
                              /\ o.id < nextId
                              /\ o.expiresAt <= now + OtpTTL
    BY <1>2 DEF RequestOK, InsertedNew
  <2>2. req[r].ins # {} => StatusAfter(r) # "none"
    BY <1>2 DEF RequestOK, RenewalOK, StatusAfter
  <2>3. \A u \in Users : status[u] # "none" => status'[u] # "none"
    BY <1>2 DEF StatusAfter
  <2>4. \A o \in issued : o.user \in Users
    BY DEF OtpInv, TypeOK, Otp
  <2> QED
    BY <1>1, <1>2, <2>1, <2>2, <2>3, <2>4 DEF OtpInv
<1>10. \A s \in Running' : /\ s = r => req'[s] = q /\ req[r].op = "resend"
                           /\ s # r => req'[s] = req[s] /\ s \in Running
  BY <1>4, <1>6 DEF OtpInv, TypeOK, Running
<1>11. (\A s \in Running : RequestOK(req[s]))'
  <2> SUFFICES ASSUME NEW s \in Running' PROVE RequestOK(req[s])'
    OBVIOUS
  <2>1. CASE s # r
    BY <1>10, <2>1, CommitOthers
  <2>2. CASE s = r
    <3>1. req'[s] = q /\ req[r].op = "resend"
      BY <1>10, <2>2
    <3>2. RenewalOK(req[r])
      BY <1>2, <3>1 DEF RequestOK
    <3>3. RenewalOK(req[s])'
      BY <1>2, <1>5, <3>1, <3>2 DEF RenewalOK, StatusAfter
    <3>4. RowsIssued(req[s])'
      BY <1>1, <1>2, <1>5, <3>1 DEF RequestOK, RowsIssued, InsertedNew
    <3>5. InsertedNew(req[s])'
      BY <1>5, <3>1 DEF InsertedNew
    <3> QED
      BY <1>2, <1>5, <3>1, <3>2, <3>3, <3>4, <3>5 DEF RequestOK, RenewalOK
  <2> QED
    BY <2>1, <2>2
<1>12. (\A s, t \in Running : s # t => Apart(req[s], req[t]))'
  <2> SUFFICES ASSUME NEW s \in Running', NEW t \in Running', s # t
               PROVE  Apart(req'[s], req'[t])
    BY DEF Apart
  <2>1. req[r].op = "resend" => ~q.create
    BY <1>2, <1>5 DEF RequestOK, RenewalOK
  <2>2. CASE s # r /\ t # r
    BY <1>10, <2>2 DEF OtpInv
  <2>3. CASE s = r \/ t = r
    BY <1>5, <1>10, <2>1, <2>3 DEF Apart
  <2> QED
    BY <2>2, <2>3
<1>13. OtpUntilActive'
  BY CommitKeepsOtp
<1> QED
  BY <1>1, <1>7, <1>8, <1>9, <1>11, <1>12, <1>13 DEF OtpInv

-----------------------------------------------------------------------------
\* The cron and the clock.

LEMMA SweepStep ==
  ASSUME OtpInv, Sweep
  PROVE  OtpInv'
<1>1. /\ otps' \subseteq otps
      /\ \A o \in otps : Active(o, now) => o \in otps'
      /\ UNCHANGED <<now, status, nextId, req, mails, issued>>
  BY DEF Sweep, Active
<1>2. TypeOK'
  BY <1>1 DEF OtpInv, TypeOK
<1>3. OtpUntilActive'
  <2> SUFFICES ASSUME NEW o \in issued, status[o.user] # "ACTIVE", Active(o, now)
               PROVE  \E p \in otps' : p.user = o.user /\ p.expiresAt >= o.expiresAt
    BY <1>1 DEF OtpUntilActive, Active
  <2>1. PICK p \in otps : p.user = o.user /\ p.expiresAt >= o.expiresAt
    BY DEF OtpInv, OtpUntilActive
  <2>2. p.expiresAt \in Nat /\ o.expiresAt \in Nat /\ now \in Nat
    BY DEF OtpInv, TypeOK, Otp
  <2>3. Active(p, now)
    BY <2>1, <2>2 DEF Active
  <2> QED
    BY <1>1, <2>1, <2>3
<1>4. (\A r \in Running : RequestOK(req[r]))'
  <2> SUFFICES ASSUME NEW r \in Running PROVE RequestOK(req[r])'
    BY <1>1 DEF Running
  <2>1. RequestOK(req[r])
    BY DEF OtpInv
  <2> QED
    BY <1>1, <2>1 DEF RequestOK, RowsIssued, InsertedNew, RenewalOK, VerificationOK
<1>5. (\A r, s \in Running : r # s => Apart(req[r], req[s]))'
  BY <1>1 DEF OtpInv, Apart, Running
<1> QED
  BY <1>1, <1>2, <1>3, <1>4, <1>5 DEF OtpInv

LEMMA TickStep ==
  ASSUME OtpInv, Tick
  PROVE  OtpInv'
<1>1. /\ now \in Nat /\ now' = now + 1 /\ OtpTTL \in Nat
      /\ UNCHANGED <<status, otps, nextId, req, mails, issued>>
  BY TTLAssumption DEF Tick, OtpInv, TypeOK
<1>2. TypeOK'
  BY <1>1 DEF OtpInv, TypeOK
<1>3. \A n \in Int : n <= now + OtpTTL => n <= now' + OtpTTL
  BY <1>1
<1>4. \A o \in Otp : o.expiresAt \in Int
  BY DEF Otp
<1>5. OtpUntilActive'
  <2>1. \A o \in Otp : Active(o, now)' => Active(o, now)
    BY <1>1, <1>4 DEF Active
  <2> QED
    BY <1>1, <2>1 DEF OtpUntilActive, OtpInv, TypeOK
<1>6. (\A r \in Running : RequestOK(req[r]))'
  <2> SUFFICES ASSUME NEW r \in Running PROVE RequestOK(req[r])'
    BY <1>1 DEF Running
  <2>1. RequestOK(req[r]) /\ req[r] \in Request
    BY RunningOK
  <2>2. InsertedNew(req[r])'
    BY <1>1, <1>3, <1>4, <2>1 DEF RequestOK, InsertedNew, Request
  <2>3. req[r].op # "verify" => RenewalOK(req[r])'
    BY <1>1, <1>3, <2>1 DEF RequestOK, RenewalOK, Request
  <2> QED
    BY <1>1, <2>1, <2>2, <2>3 DEF RequestOK, RowsIssued, VerificationOK
<1>7. (\A r, s \in Running : r # s => Apart(req[r], req[s]))'
  BY <1>1 DEF OtpInv, Apart, Running
<1>8. \A o \in issued : /\ o.id < nextId
                        /\ o.expiresAt <= now' + OtpTTL
                        /\ status[o.user] # "none"
  BY <1>3, <1>4 DEF OtpInv, TypeOK
<1> QED
  BY <1>1, <1>2, <1>5, <1>6, <1>7, <1>8 DEF OtpInv

-----------------------------------------------------------------------------
\* The theorems.

LEMMA InitOtpInv == Init => OtpInv
BY DEF Init, OtpInv, TypeOK, OtpUntilActive, Running, Otp

LEMMA NextOtpInv == OtpInv /\ [Next]_vars => OtpInv'
<1> SUFFICES ASSUME OtpInv, [Next]_vars PROVE OtpInv'
  OBVIOUS
<1>1. CASE UNCHANGED vars
  BY <1>1 DEF vars, OtpInv, TypeOK, OtpUntilActive, Active, Running, RequestOK,
              RowsIssued, InsertedNew, RenewalOK, VerificationOK, Apart
<1>2. ASSUME NEW r \in Reqs, Client(r) PROVE OtpInv'
  BY <1>2, SignupStep, ResendStep, VerifyStep DEF Client
<1>3. ASSUME NEW r \in Reqs, Server(r) PROVE OtpInv'
  BY <1>3, CreateUserStep, ResendReadStep, RateGrantedStep, ReadActiveStep,
     DeleteCurrentStep, CreateOtpStep, SignOtpStep, InsertOtpStep, PublishStep,
     VerifyReadStep, ConsumeOtpStep, ActivateUserStep, CommitStep DEF Server
<1>4. ASSUME NEW r \in Reqs, Fail(r) PROVE OtpInv'
  BY <1>4, FailStep
<1>5. CASE Sweep
  BY <1>5, SweepStep
<1>6. CASE Tick
  BY <1>6, TickStep
<1> QED
  BY <1>1, <1>2, <1>3, <1>4, <1>5, <1>6 DEF Next

\* Every OTP on record is dated, every request's writes fit what it has read,
\* and no two transactions insert the same: the invariant the others rest on.
THEOREM Invariance == Spec => []OtpInv
BY InitOtpInv, NextOtpInv, PTL DEF Spec

\* Every variable keeps its type.
THEOREM TypeCorrect == Spec => []TypeOK
<1>1. OtpInv => TypeOK
  BY DEF OtpInv
<1> QED
  BY <1>1, Invariance, PTL

\* renewOtp and verifyOtp: whatever fails and whatever runs at the same time, a
\* user who is not active keeps an OTP as lasting as any he was issued.
THEOREM OtpKept == Spec => []OtpUntilActive
<1>1. OtpInv => OtpUntilActive
  BY DEF OtpInv
<1> QED
  BY <1>1, Invariance, PTL

\* Only COMMIT changes the status of a user.
LEMMA StatusChange ==
  ASSUME OtpInv, Next, NEW u \in Users, status'[u] # status[u]
  PROVE  \E r \in Running : Commit(r) /\ u = req[r].user
<1>1. PICK r \in Running : Commit(r)
  BY DEF Next, Client, Server, Signup, Resend, Verify, CreateUser, ResendRead,
         RateGranted, ReadActive, DeleteCurrent, CreateOtp, SignOtp, InsertOtp,
         Publish, VerifyRead, ConsumeOtp, ActivateUser, Fail, Sweep, Tick
<1>2. u = req[r].user
  BY <1>1, CommitFacts
<1> QED
  BY <1>1, <1>2

\* verifyOtp: an account becomes active only together with the consumption of
\* an OTP issued to it, for a request that sent its code.
THEOREM ActivationByCode == Spec => ActivatedByCode
<1> DEFINE A == \A u \in Users : status[u] # "ACTIVE" /\ status'[u] = "ACTIVE" =>
                  \E r \in Running : \E o \in req[r].code \cap issued :
                    o.user = u /\ o \notin otps'
<1>1. ASSUME OtpInv, [Next]_vars PROVE [A]_vars
  <2> SUFFICES ASSUME Next, NEW u \in Users,
                      status[u] # "ACTIVE", status'[u] = "ACTIVE"
               PROVE  \E r \in Running : \E o \in req[r].code \cap issued :
                        o.user = u /\ o \notin otps'
    BY <1>1
  <2>1. PICK r \in Running : Commit(r) /\ u = req[r].user
    BY <1>1, StatusChange
  <2>2. req[r].op = "verify"
    BY <1>1, <2>1, CommitFacts DEF StatusAfter
  <2>3. PICK o \in req[r].code :
          req[r].row = {o} /\ o.user = req[r].user /\ o \in issued
    BY <1>1, <2>1, <2>2, CommitFacts
  <2>4. otps' = otps \ req[r].del /\ req[r].row \cap otps \subseteq req[r].del
    BY <1>1, <2>1, <2>2, CommitFacts DEF Commit
  <2> QED
    BY <2>1, <2>3, <2>4
<1> QED
  BY <1>1, Invariance, PTL DEF Spec, ActivatedByCode

-----------------------------------------------------------------------------
(* renewOtp keeps one active OTP to a user who has one renewal under way at *)
(* a time, whatever fails, expires or is swept in between.  With two it     *)
(* does not (OtpFlow_active.cfg).                                           *)

\* What is known of the rows and of a running renewal.
LEMMA SerialFacts ==
  ASSUME SerialInv, NEW r \in Running
  PROVE  /\ r \in Reqs /\ req[r] \in Request /\ RequestOK(req[r])
         /\ req[r].op \in {"signup", "resend", "verify"}
         /\ req[r].op # "verify" => Replacing(req[r])
         /\ now \in Nat /\ \A o \in otps : o.expiresAt \in Nat
BY RunningOK DEF SerialInv, OtpInv, TypeOK, Request, Otp

\* A renewal that makes no step itself: rows of its user may leave the table or
\* run out, and none may come.
LEMMA SerialKept ==
  ASSUME SerialInv, NEW s \in Running, req[s].op # "verify", req'[s] = req[s],
         now' = now \/ now' = now + 1,
         OtpsOf(req[s].user)' \subseteq OtpsOf(req[s].user)
  PROVE  Replacing(req[s])'
<1>1. req[s] \in Request /\ Replacing(req[s]) /\ now \in Nat
  BY SerialFacts
<1>2. req[s].seen \subseteq Otp /\ req[s].cutoff \in Nat
  BY <1>1 DEF Request
<1>3. \A o \in Otp : o.expiresAt > now' => o.expiresAt > now
  BY <1>1 DEF Otp
<1>4. otps \subseteq Otp
  BY DEF SerialInv, OtpInv, TypeOK
<1>5. ActiveOf(req[s].user)' \subseteq ActiveOf(req[s].user)
  BY <1>3, <1>4 DEF ActiveOf, OtpsOf, Active
<1>6. OneActive(req[s].seen, now) => OneActive(req[s].seen, now)'
  BY <1>2, <1>3 DEF OneActive, Active
<1>7. OneActive(req[s].seen \cup OtpsOf(req[s].user), req[s].cutoff) =>
        OneActive(req[s].seen \cup OtpsOf(req[s].user), req[s].cutoff)'
  BY DEF OneActive, Active
<1>8. req[s].cutoff <= now => req[s].cutoff <= now'
  BY <1>1, <1>2
<1> QED
  BY <1>1, <1>5, <1>6, <1>7, <1>8 DEF Replacing

\* A step of request r that leaves the rows and the clock alone: what r becomes
\* is to be looked at, the other requests are as they were.
LEMMA SerialLocal ==
  ASSUME SerialInv, OtpInv', NEW r \in Reqs, NEW q \in Request \cup {Idle},
         req' = [req EXCEPT ![r] = q],
         UNCHANGED <<now, otps>>,
         q # Idle /\ q.op # "verify" => Replacing(q)
  PROVE  SerialInv'
<1>1. AtMostOneActiveOtp'
  BY DEF SerialInv, AtMostOneActiveOtp, Active
<1>2. ASSUME NEW s \in Running', req'[s].op # "verify"
      PROVE  Replacing(req[s])'
  <2>1. CASE s = r
    <3>1. req'[s] = q /\ q # Idle
      BY <2>1 DEF Running, SerialInv, OtpInv, TypeOK
    <3>2. Replacing(q)
      BY <1>2, <3>1
    <3> QED
      BY <3>1, <3>2 DEF Replacing, OneActive, ActiveOf, OtpsOf, Active
  <2>2. CASE s # r
    <3>1. s \in Running /\ req'[s] = req[s]
      BY <2>2 DEF Running, SerialInv, OtpInv, TypeOK
    <3>2. OtpsOf(req[s].user)' \subseteq OtpsOf(req[s].user)
      BY <3>1 DEF OtpsOf
    <3> QED
      BY <1>2, <3>1, <3>2, SerialKept
  <2> QED
    BY <2>1, <2>2
<1> QED
  BY <1>1, <1>2 DEF SerialInv

LEMMA SerialFinish ==
  ASSUME SerialInv, OtpInv', NEW r \in Reqs, Finish(r),
         UNCHANGED <<now, otps>>
  PROVE  SerialInv'
BY SerialLocal DEF Finish

-----------------------------------------------------------------------------
\* The clients.

LEMMA SerialSignup ==
  ASSUME SerialInv, OtpInv', NEW r \in Reqs, NEW u \in Users, Signup(r, u)
  PROVE  SerialInv'
<1> DEFINE q == [NewRequest EXCEPT !.user = u, !.seen = OtpsOf(u),
                   !.pc = IF status[u] = "none" THEN "createUser" ELSE "rate"]
<1>1. /\ q.pc \in {"createUser", "rate"} /\ q.op = "signup" /\ q.user = u
      /\ q.seen = OtpsOf(u) /\ q.ins = {}
  BY DEF NewRequest
<1>2. q \in Request
  BY NewRequestType DEF NewRequest, Request, PCs, SerialInv, OtpInv, TypeOK, OtpsOf
<1>3. req' = [req EXCEPT ![r] = q] /\ UNCHANGED <<now, otps>>
  BY DEF Signup
<1> HIDE DEF q
<1>4. OneActive(q.seen, now)
  BY <1>1 DEF OneActive, OtpsOf, SerialInv, AtMostOneActiveOtp
<1>5. Replacing(q)
  BY <1>1, <1>4 DEF Replacing
<1> QED
  BY <1>2, <1>3, <1>5, SerialLocal

LEMMA SerialResend ==
  ASSUME SerialInv, OtpInv', NEW r \in Reqs, NEW o \in mails, Resend(r, o)
  PROVE  SerialInv'
<1> DEFINE q == [NewRequest EXCEPT !.op = "resend", !.user = o.user,
                   !.token = {o}, !.cutoff = now, !.pc = "readToken"]
<1>1. q.pc = "readToken" /\ q.op = "resend" /\ q.seen = {} /\ q.ins = {}
  BY DEF NewRequest
<1>2. o \in Otp /\ o.user \in Users /\ now \in Nat
  BY DEF SerialInv, OtpInv, TypeOK, Otp
<1>3. q \in Request
  BY <1>2, NewRequestType DEF NewRequest, Request, PCs
<1>4. req' = [req EXCEPT ![r] = q] /\ UNCHANGED <<now, otps>>
  BY DEF Resend
<1> HIDE DEF q
<1>5. Replacing(q)
  BY <1>1 DEF Replacing
<1> QED
  BY <1>3, <1>4, <1>5, SerialLocal

LEMMA SerialVerify ==
  ASSUME SerialInv, OtpInv', NEW r \in Reqs, NEW t \in mails,
         NEW code \in SUBSET mails, Verify(r, t, code)
  PROVE  SerialInv'
<1> DEFINE q == [NewRequest EXCEPT !.op = "verify", !.user = t.user,
                   !.token = {t}, !.code = code, !.cutoff = now, !.pc = "readToken"]
<1>1. q.op = "verify"
  BY DEF NewRequest
<1>2. t \in Otp /\ t.user \in Users /\ now \in Nat /\ code \in SUBSET Otp
  BY DEF SerialInv, OtpInv, TypeOK, Otp
<1>3. q \in Request
  BY <1>2, NewRequestType DEF NewRequest, Request, PCs
<1>4. req' = [req EXCEPT ![r] = q] /\ UNCHANGED <<now, otps>>
  BY DEF Verify
<1> HIDE DEF q
<1> QED
  BY <1>1, <1>3, <1>4, SerialLocal

-----------------------------------------------------------------------------
\* The server, up to COMMIT.

\* A step of a verification: nothing is asked of one.
LEMMA SerialVerifying ==
  ASSUME SerialInv, OtpInv', NEW r \in Running, UNCHANGED <<now, otps>>,
         VerifyRead(r) \/ ConsumeOtp(r) \/ ActivateUser(r)
  PROVE  SerialInv'
<1>1. /\ r \in Reqs /\ req[r] \in Request /\ RequestOK(req[r])
      /\ req \in [Reqs -> Request \cup {Idle}]
      /\ req' \in [Reqs -> Request \cup {Idle}]
  BY SerialFacts DEF SerialInv, OtpInv, TypeOK
<1>2. CASE Finish(r)
  BY <1>1, <1>2, SerialFinish
<1>3. CASE VerifyRead(r) /\ ~Finish(r)
  <2>1. PICK o \in otps :
          req' = [req EXCEPT ![r].pc = "write", ![r].row = {o},
                    ![r].token = {}, ![r].cutoff = 0, ![r].todo = Writes]
    BY <1>3 DEF VerifyRead
  <2> DEFINE q == [req[r] EXCEPT !.pc = "write", !.row = {o},
                     !.token = {}, !.cutoff = 0, !.todo = Writes]
  <2>2. req' = [req EXCEPT ![r] = q]
    BY <1>1, <2>1
  <2>3. q \in Request \cup {Idle}
    BY <1>1, <2>2
  <2>4. q.op = "verify"
    BY <1>1, <1>3 DEF VerifyRead, Request
  <2> HIDE DEF q
  <2> QED
    BY <1>1, <2>2, <2>3, <2>4, SerialLocal
<1>4. CASE ConsumeOtp(r) \/ ActivateUser(r)
  <2>1. req[r].op = "verify"
    <3>1. req[r].todo # {} /\ req[r].op \in {"signup", "resend", "verify"}
      BY <1>1, <1>4 DEF ConsumeOtp, ActivateUser, Request
    <3> QED
      BY <1>1, <3>1 DEF RequestOK, RenewalOK
  <2>2. req'[r].op = "verify" /\ req' = [req EXCEPT ![r] = req'[r]]
    <3>1. CASE ConsumeOtp(r)
      BY <1>1, <2>1, <3>1 DEF ConsumeOtp, Done, Request
    <3>2. CASE ActivateUser(r)
      BY <1>1, <2>1, <3>2 DEF ActivateUser, Done, Request
    <3> QED
      BY <1>4, <3>1, <3>2
  <2>3. req'[r] \in Request \cup {Idle}
    BY <1>1
  <2> QED
    BY <1>1, <2>2, <2>3, SerialLocal
<1> QED
  BY <1>2, <1>3, <1>4

LEMMA SerialCreateUser ==
  ASSUME SerialInv, OtpInv', NEW r \in Running, CreateUser(r)
  PROVE  SerialInv'
<1> DEFINE q == [req[r] EXCEPT !.pc = "rate", !.create = TRUE]
<1>1. /\ r \in Reqs /\ req[r] \in Request /\ req[r].pc = "createUser"
      /\ req[r].op # "verify" => Replacing(req[r])
  BY SerialFacts DEF CreateUser, At
<1>2. q \in Request
  BY <1>1 DEF Request, PCs
<1>3. req' = [req EXCEPT ![r] = q] /\ UNCHANGED <<now, otps>>
  BY <1>1 DEF CreateUser
<1>4. /\ q.pc = "rate" /\ q.op = req[r].op /\ q.user = req[r].user
      /\ q.seen = req[r].seen /\ q.ins = req[r].ins
  BY <1>1 DEF Request
<1> HIDE DEF q
<1>5. q.op # "verify" => Replacing(q)
  BY <1>1, <1>4 DEF Replacing
<1> QED
  BY <1>1, <1>2, <1>3, <1>5, SerialLocal

LEMMA SerialResendRead ==
  ASSUME SerialInv, OtpInv', NEW r \in Running, ResendRead(r)
  PROVE  SerialInv'
<1> DEFINE q == [req[r] EXCEPT !.pc = "rate", !.token = {}]
<1>1. /\ r \in Reqs /\ req[r] \in Request /\ req[r].op = "resend"
      /\ Replacing(req[r])
  BY SerialFacts DEF ResendRead
<1>2. UNCHANGED <<now, otps>>
  BY DEF ResendRead
<1>3. CASE Finish(r)
  BY <1>1, <1>2, <1>3, SerialFinish
<1>4. CASE ~Finish(r)
  <2>1. req' = [req EXCEPT ![r] = q]
    BY <1>1, <1>4 DEF ResendRead
  <2>2. q \in Request
    BY <1>1 DEF Request, PCs
  <2>3. /\ q.pc = "rate" /\ q.op = "resend" /\ q.user = req[r].user
        /\ q.seen = req[r].seen /\ q.ins = req[r].ins
    BY <1>1 DEF Request
  <2> HIDE DEF q
  <2>4. Replacing(q)
    BY <1>1, <2>3 DEF Replacing, OneActive
  <2> QED
    BY <1>1, <1>2, <2>1, <2>2, <2>4, SerialLocal
<1> QED
  BY <1>3, <1>4

\* The rows of the user that signup's snapshot does not show are none.
LEMMA SerialRateGranted ==
  ASSUME SerialInv, OtpInv', NEW r \in Running, RateGranted(r)
  PROVE  SerialInv'
<1> DEFINE q == [req[r] EXCEPT !.pc = "readActive", !.cutoff = now]
<1>1. /\ r \in Reqs /\ req[r] \in Request /\ req[r].pc = "rate"
      /\ req[r].op \in {"signup", "resend", "verify"} /\ now \in Nat
      /\ req[r].op # "verify" => Replacing(req[r])
  BY SerialFacts DEF RateGranted, At
<1>2. q \in Request
  BY <1>1 DEF Request, PCs
<1>3. req' = [req EXCEPT ![r] = q] /\ UNCHANGED <<now, otps>>
  BY <1>1 DEF RateGranted
<1>4. /\ q.pc = "readActive" /\ q.op = req[r].op /\ q.user = req[r].user
      /\ q.seen = req[r].seen /\ q.ins = req[r].ins /\ q.cutoff = now
  BY <1>1 DEF Request
<1> HIDE DEF q
<1>5. OneActive(OtpsOf(q.user), now)
  BY DEF OneActive, OtpsOf, SerialInv, AtMostOneActiveOtp
<1>6. q.op # "verify" => OneActive(q.seen \cup OtpsOf(q.user), q.cutoff)
  BY <1>1, <1>4, <1>5 DEF Replacing, OneActive
<1>7. q.op # "verify" => Replacing(q)
  BY <1>1, <1>4, <1>6 DEF Replacing
<1> QED
  BY <1>1, <1>2, <1>3, <1>7, SerialLocal

\* What is active now was active at the new Date() of the query.
LEMMA SerialReadActive ==
  ASSUME SerialInv, OtpInv', NEW r \in Running, ReadActive(r)
  PROVE  SerialInv'
<1> DEFINE u == req[r].user
           visible == IF req[r].op = "signup" THEN req[r].seen ELSE OtpsOf(u)
           active == {o \in visible : Active(o, req[r].cutoff)}
           p == [req[r] EXCEPT !.pc = "createOtp", !.seen = {}, !.cutoff = 0]
           d(o) == [req[r] EXCEPT !.pc = "delete", !.row = {o}, !.seen = {}, !.cutoff = 0]
<1>1. /\ r \in Reqs /\ req[r] \in Request /\ RequestOK(req[r])
      /\ req[r].pc = "readActive" /\ req[r].cutoff \in Nat /\ now \in Nat
      /\ \A o \in otps : o.expiresAt \in Nat
      /\ req[r].op # "verify" => Replacing(req[r])
  BY SerialFacts DEF ReadActive, At, Request
<1>2. req[r].op # "verify"
  BY <1>1 DEF RequestOK, VerificationOK
<1>3. /\ req[r].cutoff <= now
      /\ OneActive(req[r].seen \cup OtpsOf(u), req[r].cutoff)
      /\ OtpsOf(u) \subseteq visible
      /\ \A o, i \in req[r].ins : o = i
      /\ req[r].op = "resend" => req[r].seen = {}
  BY <1>1, <1>2 DEF Replacing
<1>4. \A o \in ActiveOf(u) : o \in active /\ o \in OtpsOf(u)
  BY <1>1, <1>3 DEF ActiveOf, OtpsOf, Active
<1>5. UNCHANGED <<now, otps>>
  BY DEF ReadActive
<1>6. CASE active = {} /\ req' = [req EXCEPT ![r] = p]
  <2>1. p \in Request
    BY <1>1 DEF Request, PCs
  <2>2. /\ p.pc = "createOtp" /\ p.user = u /\ p.seen = {}
        /\ p.ins = req[r].ins
    BY <1>1 DEF Request
  <2>3. ActiveOf(u) = {}
    BY <1>4, <1>6
  <2> HIDE DEF p, u
  <2>4. Replacing(p)
    BY <1>3, <2>2, <2>3 DEF Replacing
  <2> QED
    BY <1>1, <1>5, <1>6, <2>1, <2>4, SerialLocal
<1>7. ASSUME NEW o \in active, req' = [req EXCEPT ![r] = d(o)]
      PROVE  SerialInv'
  <2> DEFINE q == d(o)
  <2>1. o \in Otp
    BY <1>1 DEF Request, OtpsOf, SerialInv, OtpInv, TypeOK
  <2>2. q \in Request
    BY <1>1, <2>1 DEF Request, PCs
  <2>3. /\ q.pc = "delete" /\ q.user = u /\ q.seen = {} /\ q.row = {o}
        /\ q.ins = req[r].ins
    BY <1>1 DEF Request
  <2>4. ActiveOf(u) \subseteq {o}
    BY <1>3, <1>4 DEF OneActive
  <2>5. req' = [req EXCEPT ![r] = q]
    BY <1>7
  <2> HIDE DEF q, u
  <2>6. Replacing(q)
    BY <1>3, <2>3, <2>4 DEF Replacing
  <2> QED
    BY <1>1, <1>5, <2>2, <2>5, <2>6, SerialLocal
<1>8. \/ active = {} /\ req' = [req EXCEPT ![r] = p]
      \/ \E o \in active : req' = [req EXCEPT ![r] = d(o)]
  <2>1. CASE active = {} /\ req' = [req EXCEPT ![r].pc = "createOtp",
                                     ![r].seen = {}, ![r].cutoff = 0]
    <3>1. req' = [req EXCEPT ![r] = p]
      BY <1>1, <2>1 DEF Request
    <3> QED
      BY <2>1, <3>1
  <2>2. ASSUME NEW o \in active,
               req' = [req EXCEPT ![r].pc = "delete", ![r].row = {o},
                         ![r].seen = {}, ![r].cutoff = 0]
        PROVE  req' = [req EXCEPT ![r] = d(o)]
    BY <1>1, <2>2 DEF Request
  <2> HIDE DEF p, d
  <2> QED
    BY <2>1, <2>2 DEF ReadActive
<1> QED
  BY <1>6, <1>7, <1>8

LEMMA SerialDeleteCurrent ==
  ASSUME SerialInv, OtpInv', NEW r \in Running, DeleteCurrent(r)
  PROVE  SerialInv'
<1> DEFINE q == [req[r] EXCEPT !.pc = "createOtp",
                   !.del = req[r].row \cap otps, !.row = {}]
<1>1. /\ r \in Reqs /\ req[r] \in Request /\ req[r].pc = "delete"
      /\ req[r].op # "verify" => Replacing(req[r])
  BY SerialFacts DEF DeleteCurrent, At
<1>2. q \in Request
  BY <1>1 DEF Request, PCs
<1>3. req' = [req EXCEPT ![r] = q] /\ UNCHANGED <<now, otps>>
  BY <1>1 DEF DeleteCurrent
<1>4. /\ q.pc = "createOtp" /\ q.op = req[r].op /\ q.user = req[r].user
      /\ q.seen = req[r].seen /\ q.ins = req[r].ins
      /\ q.del = req[r].row \cap otps
  BY <1>1 DEF Request
<1> HIDE DEF q
<1>5. q.op # "verify" => Replacing(q)
  BY <1>1, <1>4 DEF Replacing, ActiveOf, OtpsOf
<1> QED
  BY <1>1, <1>2, <1>3, <1>5, SerialLocal

\* createOtp and, for signup, the publication: what is deleted stays so.
LEMMA SerialGoOn ==
  ASSUME SerialInv, OtpInv', NEW r \in Running, NEW q \in Request,
         req' = [req EXCEPT ![r] = q], UNCHANGED <<now, otps>>,
         \/ req[r].pc \in {"createOtp", "sign", "insert"}
         \/ req[r].pc = "publish" /\ req[r].op = "signup",
         \/ q.pc \in {"sign", "insert", "commit"}
         \/ q.pc = "publish" /\ q.op = "signup",
         q.op = req[r].op, q.user = req[r].user, q.seen = req[r].seen,
         q.del = req[r].del, \A o, i \in q.ins : o = i
  PROVE  SerialInv'
<1>1. r \in Reqs /\ (req[r].op # "verify" => Replacing(req[r]))
  BY SerialFacts
<1>2. q.op # "verify" => Replacing(q)
  BY <1>1 DEF Replacing
<1> QED
  BY <1>1, <1>2, SerialLocal

LEMMA SerialCreateOtp ==
  ASSUME SerialInv, OtpInv', NEW r \in Running,
         CreateOtp(r) \/ SignOtp(r) \/ InsertOtp(r)
  PROVE  SerialInv'
<1>1. /\ r \in Reqs /\ req[r] \in Request /\ RequestOK(req[r]) /\ now \in Nat
      /\ req[r].pc \in {"createOtp", "sign", "insert"} /\ nextId \in Nat
  BY SerialFacts DEF CreateOtp, SignOtp, InsertOtp, At, SerialInv, OtpInv, TypeOK
<1>2. req[r].op # "verify" /\ req[r].ins = {}
  BY <1>1 DEF RequestOK, VerificationOK, RenewalOK
<1>3. UNCHANGED <<now, otps>>
  BY DEF CreateOtp, SignOtp, InsertOtp
<1>4. CASE CreateOtp(r)
  <2> DEFINE q == [req[r] EXCEPT !.pc = "sign", !.exp = now + OtpTTL]
  <2>1. q \in Request
    <3>1. now + OtpTTL \in Nat
      BY <1>1, TTLAssumption
    <3> QED
      BY <1>1, <3>1 DEF Request, PCs
  <2>2. /\ q.pc = "sign" /\ q.op = req[r].op /\ q.user = req[r].user
        /\ q.seen = req[r].seen /\ q.del = req[r].del /\ q.ins = req[r].ins
    BY <1>1 DEF Request
  <2>3. req' = [req EXCEPT ![r] = q]
    BY <1>1, <1>4 DEF CreateOtp
  <2> HIDE DEF q
  <2> QED
    BY <1>1, <1>2, <1>3, <2>1, <2>2, <2>3, SerialGoOn
<1>5. CASE SignOtp(r)
  <2> DEFINE q == [req[r] EXCEPT !.pc = "insert", !.iat = now]
  <2>1. q \in Request
    BY <1>1 DEF Request, PCs
  <2>2. /\ q.pc = "insert" /\ q.op = req[r].op /\ q.user = req[r].user
        /\ q.seen = req[r].seen /\ q.del = req[r].del /\ q.ins = req[r].ins
    BY <1>1 DEF Request
  <2>3. req' = [req EXCEPT ![r] = q]
    BY <1>1, <1>5 DEF SignOtp
  <2> HIDE DEF q
  <2> QED
    BY <1>1, <1>2, <1>3, <2>1, <2>2, <2>3, SerialGoOn
<1>6. CASE InsertOtp(r)
  <2> DEFINE o == [id |-> nextId, user |-> req[r].user,
                   iat |-> req[r].iat, expiresAt |-> req[r].exp]
             q == [req[r] EXCEPT !.ins = {o}, !.exp = 0, !.iat = 0,
                     !.pc = IF req[r].op = "signup" THEN "publish" ELSE "commit"]
  <2>1. o \in Otp
    BY <1>1 DEF Request, Otp
  <2>2. q \in Request
    BY <1>1, <2>1 DEF Request, PCs
  <2>3. /\ q.pc = IF req[r].op = "signup" THEN "publish" ELSE "commit"
        /\ q.op = req[r].op /\ q.user = req[r].user
        /\ q.seen = req[r].seen /\ q.del = req[r].del /\ q.ins = {o}
    BY <1>1 DEF Request
  <2>4. req' = [req EXCEPT ![r] = q]
    BY <1>1, <1>6 DEF InsertOtp
  <2> HIDE DEF q, o
  <2> QED
    BY <1>1, <1>3, <2>2, <2>3, <2>4, SerialGoOn
<1> QED
  BY <1>4, <1>5, <1>6

LEMMA SerialPublish ==
  ASSUME SerialInv, OtpInv', NEW r \in Running, Publish(r)
  PROVE  SerialInv'
<1>1. /\ r \in Reqs /\ req[r] \in Request /\ req[r].pc = "publish"
      /\ req[r].op # "verify" => Replacing(req[r])
      /\ UNCHANGED <<now, otps>>
  BY SerialFacts DEF Publish, At
<1>2. CASE req[r].op # "signup"
  BY <1>1, <1>2, SerialFinish DEF Publish
<1>3. CASE req[r].op = "signup"
  <2> DEFINE q == [req[r] EXCEPT !.pc = "commit"]
  <2>1. q \in Request
    BY <1>1 DEF Request, PCs
  <2>2. /\ q.pc = "commit" /\ q.op = req[r].op /\ q.user = req[r].user
        /\ q.seen = req[r].seen /\ q.del = req[r].del /\ q.ins = req[r].ins
    BY <1>1 DEF Request
  <2>3. req' = [req EXCEPT ![r] = q]
    BY <1>1, <1>3 DEF Publish
  <2> HIDE DEF q
  <2>4. \A o, i \in q.ins : o = i
    BY <1>1, <1>3, <2>2 DEF Replacing
  <2> QED
    BY <1>1, <1>3, <2>1, <2>2, <2>3, <2>4, SerialGoOn
<1> QED
  BY <1>2, <1>3

-----------------------------------------------------------------------------
\* COMMIT: the row inserted replaces the one that was active.

LEMMA SerialCommit ==
  ASSUME OneRenewalEach, SerialInv, OtpInv', NEW r \in Running, Commit(r)
  PROVE  SerialInv'
<1>1. /\ r \in Reqs /\ req[r] \in Request /\ RequestOK(req[r])
      /\ req[r].pc = "commit"
      /\ req[r].op = "verify" => req[r].ins = {}
      /\ req[r].op # "verify" => Replacing(req[r])
  BY CommitFacts, SerialFacts DEF SerialInv
<1>2. now' = now /\ otps' = (otps \ req[r].del) \cup req[r].ins
  BY DEF Commit
<1>3. AtMostOneActiveOtp'
  <2>1. \A o, i \in req[r].ins : o = i
    BY <1>1 DEF Replacing
  <2>2. \A i \in req[r].ins, o \in otps \ req[r].del :
          i.user = o.user => ~Active(o, now)
    <3> SUFFICES ASSUME NEW i \in req[r].ins, NEW o \in otps \ req[r].del,
                        i.user = o.user, Active(o, now)
                 PROVE  FALSE
      OBVIOUS
    <3>1. i.user = req[r].user
      BY <1>1 DEF RequestOK, InsertedNew
    <3>2. o \in ActiveOf(req[r].user)
      BY <3>1 DEF ActiveOf, OtpsOf
    <3>3. ActiveOf(req[r].user) \subseteq req[r].del
      BY <1>1 DEF Replacing
    <3> QED
      BY <3>2, <3>3
  <2>3. \A o, p \in otps : o.user = p.user /\ Active(o, now) /\ Active(p, now) => o = p
    BY DEF SerialInv, AtMostOneActiveOtp
  <2>4. \A o : Active(o, now)' <=> Active(o, now)
    BY <1>2 DEF Active
  <2> SUFFICES ASSUME NEW o \in otps', NEW p \in otps', o.user = p.user,
                      Active(o, now), Active(p, now)
               PROVE  o = p
    BY <1>2, <2>4 DEF AtMostOneActiveOtp, Active
  <2> QED
    BY <1>2, <2>1, <2>2, <2>3
<1>4. ASSUME NEW s \in Running', req'[s].op # "verify", s = r
      PROVE  Replacing(req[s])'
  <2> DEFINE q == [req[r] EXCEPT !.pc = "publish", !.row = req[r].ins,
                     !.del = {}, !.ins = {}]
  <2>1. req[r].op = "resend"
    BY <1>1, <1>4 DEF Commit, Finish, Running, SerialInv, OtpInv, TypeOK
  <2>2. req'[s] = q
    BY <1>1, <1>4, <2>1 DEF Commit, SerialInv, OtpInv, TypeOK
  <2>3. q.pc = "publish" /\ q.op = "resend" /\ q.seen = req[r].seen /\ q.ins = {}
    BY <1>1, <2>1 DEF Request
  <2> HIDE DEF q
  <2>4. req[r].seen = {}
    BY <1>1, <2>1 DEF Replacing
  <2> QED
    BY <2>2, <2>3, <2>4 DEF Replacing
<1>5. ASSUME NEW s \in Running', req'[s].op # "verify", s # r
      PROVE  Replacing(req[s])'
  <2>1. s \in Running /\ req'[s] = req[s]
    BY <1>1, <1>5 DEF Commit, Finish, Running, SerialInv, OtpInv, TypeOK
  <2>2. \/ req[r].op = "verify"
        \/ req[s].user # req[r].user
    BY <1>5, <2>1 DEF OneRenewalEach
  <2>3. \A o \in req[r].ins : o.user = req[r].user
    BY <1>1 DEF RequestOK, InsertedNew
  <2>4. OtpsOf(req[s].user)' \subseteq OtpsOf(req[s].user)
    BY <1>1, <1>2, <2>1, <2>2, <2>3 DEF OtpsOf
  <2> QED
    BY <1>2, <1>5, <2>1, <2>4, SerialKept
<1> QED
  BY <1>3, <1>4, <1>5 DEF SerialInv

-----------------------------------------------------------------------------
\* The cron and the clock: rows leave the table or run out, and none comes.

LEMMA SerialAge ==
  ASSUME SerialInv, OtpInv', req' = req, otps' \subseteq otps,
         now' = now \/ now' = now + 1
  PROVE  SerialInv'
<1>1. /\ now \in Nat /\ now' \in Nat /\ now <= now'
      /\ \A o \in otps : o.expiresAt \in Nat
  BY DEF SerialInv, OtpInv, TypeOK, Otp
<1>2. \A o \in Otp : o.expiresAt > now' => o.expiresAt > now
  BY <1>1 DEF Otp
<1>3. otps \subseteq Otp
  BY DEF SerialInv, OtpInv, TypeOK
<1>4. AtMostOneActiveOtp'
  BY <1>2, <1>3 DEF SerialInv, AtMostOneActiveOtp, Active
<1>5. ASSUME NEW r \in Running', req'[r].op # "verify"
      PROVE  Replacing(req[r])'
  <2>1. r \in Running /\ OtpsOf(req[r].user)' \subseteq OtpsOf(req[r].user)
    BY DEF Running, OtpsOf
  <2> QED
    BY <1>5, <2>1, SerialKept
<1> QED
  BY <1>4, <1>5 DEF SerialInv

-----------------------------------------------------------------------------
\* The theorem.

LEMMA SerialInit == Init => SerialInv
BY InitOtpInv DEF Init, SerialInv, AtMostOneActiveOtp, Running

LEMMA SerialNext ==
  ASSUME OneRenewalEach, SerialInv, [Next]_vars
  PROVE  SerialInv'
<1>1. OtpInv'
  BY NextOtpInv DEF SerialInv
<1>2. CASE UNCHANGED vars
  BY <1>1, <1>2, SerialAge DEF vars
<1>3. ASSUME NEW r \in Reqs, Client(r) PROVE SerialInv'
  BY <1>1, <1>3, SerialSignup, SerialResend, SerialVerify DEF Client
<1>4. ASSUME NEW r \in Reqs, Server(r) PROVE SerialInv'
  <2>1. r \in Running
    BY <1>4 DEF Server
  <2>2. CASE VerifyRead(r) \/ ConsumeOtp(r) \/ ActivateUser(r)
    BY <1>1, <2>1, <2>2, SerialVerifying DEF VerifyRead, ConsumeOtp, ActivateUser
  <2> QED
    BY <1>1, <1>4, <2>1, <2>2, SerialCreateUser, SerialResendRead,
       SerialRateGranted, SerialReadActive, SerialDeleteCurrent,
       SerialCreateOtp, SerialPublish, SerialCommit DEF Server
<1>5. ASSUME NEW r \in Reqs, Fail(r) PROVE SerialInv'
  BY <1>1, <1>5, SerialFinish DEF Fail
<1>6. CASE Sweep
  BY <1>1, <1>6, SerialAge DEF Sweep
<1>7. CASE Tick
  BY <1>1, <1>7, SerialAge DEF Tick
<1> QED
  BY <1>2, <1>3, <1>4, <1>5, <1>6, <1>7 DEF Next

\* renewOtp follows the user's one active OTP from its query to its deletion and
\* replacement: the invariant behind OneActiveOtp.
THEOREM SerialInvariance == Spec /\ []OneRenewalEach => []SerialInv
<1>1. Init => SerialInv
  BY SerialInit
<1>2. SerialInv /\ OneRenewalEach /\ [Next]_vars => SerialInv'
  BY SerialNext
<1> QED
  BY <1>1, <1>2, PTL DEF Spec

\* renewOtp: as long as the OTP of a user is renewed by one request at a time,
\* its deletion and its insertion leave one active, whatever fails in between
\* and whatever other users do or the same one verifies.
THEOREM OneActiveOtp == Spec /\ []OneRenewalEach => []AtMostOneActiveOtp
<1>1. SerialInv => AtMostOneActiveOtp
  BY DEF SerialInv
<1> QED
  BY <1>1, SerialInvariance, PTL
=============================================================================
