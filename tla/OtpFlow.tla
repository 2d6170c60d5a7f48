------------------------------ MODULE OtpFlow ------------------------------
(***************************************************************************)
(* signup, resendOtp, verifyOtp of app/auth, the OTPs of app/otp and their *)
(* clean-up at one o'clock, over MySQL transactions.                       *)
(*                                                                         *)
(* withTransaction opens an interactive Prisma transaction: BEGIN, the     *)
(* statements of the handler one by one, COMMIT; any exception is a        *)
(* ROLLBACK.  InnoDB runs it at REPEATABLE READ: the first SELECT fixes    *)
(* the snapshot later ones see, while INSERT, UPDATE and DELETE work on    *)
(* the rows as they are and hold their locks to the end.  An action is one *)
(* statement (or one other await) with the code up to the next.            *)
(*                                                                         *)
(* One tick is one second, the unit of JWT.  A user row stands for the row *)
(* and the profile created with it; email being unique, it is its user.    *)
(***************************************************************************)
EXTENDS Integers, FiniteSets

CONSTANTS
  Users,    \* the emails
  Reqs,     \* requests the server may be serving at one time
  OtpTTL,   \* otpExpiresIn, in seconds
  MaxNow,   \* bound: the clock stops here
  MaxOtps   \* bound: rows ever inserted into Otp

ASSUME TTLAssumption   == OtpTTL \in Nat \ {0}
ASSUME BoundAssumption == MaxNow \in Nat /\ MaxOtps \in Nat

VARIABLES
  now,     \* the clock, in seconds
  status,  \* committed: the status column of each user's row, or "none"
  otps,    \* committed: the rows of Otp
  nextId,  \* its AUTO_INCREMENT, which a rollback does not undo
  req,     \* req[r]: what the server and the database know about request r
  mails,   \* OTPs published for mailing
  issued   \* history: every row ever committed to Otp

vars == <<now, status, otps, nextId, req, mails, issued>>

Statuses == {"none", "PENDING", "ACTIVE", "BANNED"}

Otp == [id : Nat, user : Users, iat : Nat, expiresAt : Nat]

\* otpToken is signed over the user and the second: equal when both are.
SameToken(o, p) == o.user = p.user /\ o.iat = p.iat

\* jwtService.verifyAsync accepts the token of o.
JwtAlive(o) == now < o.iat + OtpTTL

\* getActiveOtp's where clause, t being its new Date().
Active(o, t) == o.expiresAt > t

Idle == [pc |-> "idle"]

PCs == {"createUser", "rate", "readActive", "delete", "createOtp", "sign",
        "insert", "publish", "readToken", "write", "commit"}

Writes == {"deleteOtp", "activateUser"}

Request ==
  [pc      : PCs,
   op      : {"signup", "resend", "verify"},
   user    : Users,
   token   : SUBSET Otp,     \* an OTP with the token the client sent
   code    : SUBSET Otp,     \* the OTP whose code it sent; none: a wrong code
   seen    : SUBSET Otp,     \* the user's OTPs in the snapshot
   row     : SUBSET Otp,     \* the OTP read and about to be used; none or one
   cutoff  : Nat,            \* new Date() of the last getActiveOtp
   exp     : Nat,            \* createOtp's expiresAt
   iat     : Nat,            \* createOtp's token
   todo    : SUBSET Writes,  \* verifyOtp: statements of Promise.all to come
   create  : BOOLEAN,        \* uncommitted: the user's row inserted
   del     : SUBSET Otp,     \* uncommitted: rows deleted
   ins     : SUBSET Otp,     \* uncommitted: rows inserted
   update  : BOOLEAN]        \* uncommitted: the user set to ACTIVE

NewRequest ==
  [pc |-> "rate", op |-> "signup", user |-> CHOOSE u \in Users : TRUE,
   token |-> {}, code |-> {}, seen |-> {}, row |-> {}, cutoff |-> 0, exp |-> 0, iat |-> 0,
   todo |-> {}, create |-> FALSE, del |-> {}, ins |-> {}, update |-> FALSE]

Init ==
  /\ now = 0
  /\ status \in [Users -> Statuses]
  /\ otps = {}
  /\ nextId = 0
  /\ req = [r \in Reqs |-> Idle]
  /\ mails = {}
  /\ issued = {}

-----------------------------------------------------------------------------
\* Requests, rows and locks.

Running == {r \in Reqs : req[r] # Idle}
At(r, pc) == req[r].pc = pc
Finish(r) == req' = [req EXCEPT ![r] = Idle]
OtpsOf(u) == {o \in otps : o.user = u}

\* Other requests whose transactions touch the user or its OTPs.
Others(r) == {s \in Running \ {r} : req[s].user = req[r].user}

\* No other transaction holds the row o: a DELETE of it may go on.
RowFree(r, o) == \A s \in Others(r) : o \notin req[s].del

\* The user's row can be locked exclusively (UPDATE), and shared (the foreign
\* key of an INSERT into Otp).
NoReference(r) == \A s \in Others(r) : req[s].ins = {}
NoUpdate(r)    == \A s \in Others(r) : ~req[s].update

\* Bound: a request that may insert an OTP starts only if there is room.
Room == nextId + Cardinality({r \in Running : req[r].op # "verify"}) < MaxOtps

-----------------------------------------------------------------------------
\* signup up to renewOtp.

\* BEGIN and findUserByEmail, which fixes the snapshot.  An active user is
\* refused: nothing was written.
Signup(r, u) ==
  /\ req[r] = Idle
  /\ Room
  /\ status[u] # "ACTIVE"
  /\ req' = [req EXCEPT ![r] =
       [NewRequest EXCEPT !.user = u, !.seen = OtpsOf(u),
          !.pc = IF status[u] = "none" THEN "createUser" ELSE "rate"]]
  /\ UNCHANGED <<now, status, otps, nextId, mails, issued>>

\* signupNewUser: the INSERT waits for another one of the same email, and
\* fails (see Fail) when that has committed.
CreateUser(r) ==
  /\ At(r, "createUser")
  /\ status[req[r].user] = "none"
  /\ \A s \in Others(r) : ~req[s].create
  /\ req' = [req EXCEPT ![r].pc = "rate", ![r].create = TRUE]
  /\ UNCHANGED <<now, status, otps, nextId, mails, issued>>

\* resendOtp: the token's JWT is verified, then its active OTP looked up,
\* outside any transaction.
Resend(r, o) ==
  /\ req[r] = Idle
  /\ Room
  /\ o \in mails
  /\ JwtAlive(o)
  /\ req' = [req EXCEPT ![r] =
       [NewRequest EXCEPT !.op = "resend", !.user = o.user, !.token = {o},
          !.cutoff = now, !.pc = "readToken"]]
  /\ UNCHANGED <<now, status, otps, nextId, mails, issued>>

ResendRead(r) ==
  /\ At(r, "readToken") /\ req[r].op = "resend"
  /\ IF \E o \in otps : /\ \E t \in req[r].token : SameToken(o, t)
                        /\ Active(o, req[r].cutoff)
     THEN req' = [req EXCEPT ![r].pc = "rate", ![r].token = {}]
     ELSE Finish(r)
  /\ UNCHANGED <<now, status, otps, nextId, mails, issued>>

-----------------------------------------------------------------------------
\* renewOtp: in signup's transaction, or in one of its own for resendOtp.

\* bucket() lets the request through (or else the request fails).
RateGranted(r) ==
  /\ At(r, "rate")
  /\ req' = [req EXCEPT ![r].pc = "readActive", ![r].cutoff = now]
  /\ UNCHANGED <<now, status, otps, nextId, mails, issued>>

\* Mutant: lte for gt in getActiveOtp.
ReadActive_Expired(r) ==
  LET visible == IF req[r].op = "signup" THEN req[r].seen ELSE OtpsOf(req[r].user)
      expired == {o \in visible : ~Active(o, req[r].cutoff)}
  IN
  /\ At(r, "readActive")
  /\ \/ /\ expired = {}
        /\ req' = [req EXCEPT ![r].pc = "createOtp",
                     ![r].seen = {}, ![r].cutoff = 0]
     \/ \E o \in expired :
          req' = [req EXCEPT ![r].pc = "delete", ![r].row = {o},
                    ![r].seen = {}, ![r].cutoff = 0]
  /\ UNCHANGED <<now, status, otps, nextId, mails, issued>>

\* getActiveOtp: findFirst, of no order, among the active OTPs of signup's
\* snapshot; resendOtp's transaction begins its snapshot here.
ReadActive(r) ==
  LET visible == IF req[r].op = "signup" THEN req[r].seen ELSE OtpsOf(req[r].user)
      active  == {o \in visible : Active(o, req[r].cutoff)}
  IN
  /\ At(r, "readActive")
  /\ \/ /\ active = {}
        /\ req' = [req EXCEPT ![r].pc = "createOtp",
                     ![r].seen = {}, ![r].cutoff = 0]
     \/ \E o \in active :
          req' = [req EXCEPT ![r].pc = "delete", ![r].row = {o},
                    ![r].seen = {}, ![r].cutoff = 0]
  /\ UNCHANGED <<now, status, otps, nextId, mails, issued>>

\* Mutant: deleteOtp called without the transaction.
DeleteCurrent_NoTx(r) ==
  /\ At(r, "delete")
  /\ \A o \in req[r].row : RowFree(r, o)
  /\ otps' = otps \ req[r].row
  /\ req' = [req EXCEPT ![r].pc = "createOtp", ![r].row = {}]
  /\ UNCHANGED <<now, status, nextId, mails, issued>>

\* Mutant: every OTP of the user is deleted.
DeleteCurrent_Many(r) ==
  /\ At(r, "delete")
  /\ \A o \in OtpsOf(req[r].user) : RowFree(r, o)
  /\ req' = [req EXCEPT ![r].pc = "createOtp",
               ![r].del = OtpsOf(req[r].user), ![r].row = {}]
  /\ UNCHANGED <<now, status, otps, nextId, mails, issued>>

\* DELETE of the active OTP, waiting for its lock.  A row that is gone by then
\* is no error here, or it is one (Fail): Prisma's choice.
DeleteCurrent(r) ==
  /\ At(r, "delete")
  /\ \A o \in req[r].row : RowFree(r, o)
  /\ req' = [req EXCEPT ![r].pc = "createOtp",
               ![r].del = req[r].row \cap otps, ![r].row = {}]
  /\ UNCHANGED <<now, status, otps, nextId, mails, issued>>

\* Mutant: the lifetime is subtracted.
CreateOtp_Past(r) ==
  /\ At(r, "createOtp")
  /\ req' = [req EXCEPT ![r].pc = "sign", ![r].exp = now - OtpTTL]
  /\ UNCHANGED <<now, status, otps, nextId, mails, issued>>

\* createOtp: expiresAt is fixed before the user is queried, ...
CreateOtp(r) ==
  /\ At(r, "createOtp")
  /\ req' = [req EXCEPT ![r].pc = "sign", ![r].exp = now + OtpTTL]
  /\ UNCHANGED <<now, status, otps, nextId, mails, issued>>

\* ... the token is signed after it, and the code hashed, ...
SignOtp(r) ==
  /\ At(r, "sign")
  /\ req' = [req EXCEPT ![r].pc = "insert", ![r].iat = now]
  /\ UNCHANGED <<now, status, otps, nextId, mails, issued>>

\* ... and the row is inserted, with a shared lock on the user's.
InsertOtp(r) ==
  LET o == [id |-> nextId, user |-> req[r].user,
            iat |-> req[r].iat, expiresAt |-> req[r].exp]
  IN
  /\ At(r, "insert")
  /\ NoUpdate(r)
  /\ nextId' = nextId + 1
  /\ req' = [req EXCEPT ![r].ins = {o}, ![r].exp = 0, ![r].iat = 0,
               ![r].pc = IF req[r].op = "signup" THEN "publish" ELSE "commit"]
  /\ UNCHANGED <<now, status, otps, mails, issued>>

\* Both publish the OTP: signup before its COMMIT, resendOtp after it.
Publish(r) ==
  /\ At(r, "publish")
  /\ IF req[r].op = "signup"
     THEN /\ mails' = mails \cup req[r].ins
          /\ req' = [req EXCEPT ![r].pc = "commit"]
     ELSE /\ mails' = mails \cup req[r].row
          /\ Finish(r)
  /\ UNCHANGED <<now, status, otps, nextId, issued>>

-----------------------------------------------------------------------------
\* verifyOtp.

\* The client sends a token with the code of some mail, or with a wrong one.
Verify(r, t, code) ==
  /\ req[r] = Idle
  /\ t \in mails
  /\ JwtAlive(t)
  /\ req' = [req EXCEPT ![r] =
       [NewRequest EXCEPT !.op = "verify", !.user = t.user, !.token = {t},
          !.code = code, !.cutoff = now, !.pc = "readToken"]]
  /\ UNCHANGED <<now, status, otps, nextId, mails, issued>>

\* Mutant: isOtpMatch is ignored.
Matches_Any(r, o) == TRUE

\* passwordService.verify: the code sent is that of the row read.
Matches(r, o) == o \in req[r].code

\* getActiveOtp by token: any of the rows with this token.  If its code is
\* not the one sent, or there is no row, the transaction ends with nothing done.
VerifyRead(r) ==
  LET active == {o \in otps : /\ \E t \in req[r].token : SameToken(o, t)
                              /\ Active(o, req[r].cutoff)}
  IN
  /\ At(r, "readToken") /\ req[r].op = "verify"
  /\ \/ \E o \in active :
          /\ Matches(r, o)
          /\ req' = [req EXCEPT ![r].pc = "write", ![r].row = {o},
                       ![r].token = {}, ![r].cutoff = 0, ![r].todo = Writes]
     \/ /\ active = {} \/ \E o \in active : ~Matches(r, o)
        /\ Finish(r)
  /\ UNCHANGED <<now, status, otps, nextId, mails, issued>>

\* Promise.all sends both statements at once; they may run in either order.
Done(r, w) ==
  [req[r] EXCEPT !.todo = @ \ {w},
                 !.pc = IF req[r].todo = {w} THEN "commit" ELSE "write"]

\* deleteOtp, as in DeleteCurrent.
ConsumeOtp(r) ==
  /\ At(r, "write") /\ "deleteOtp" \in req[r].todo
  /\ \A o \in req[r].row : RowFree(r, o)
  /\ req' = [req EXCEPT ![r] =
               [Done(r, "deleteOtp") EXCEPT !.del = req[r].row \cap otps]]
  /\ UNCHANGED <<now, status, otps, nextId, mails, issued>>

\* Mutant: activateUser called without the transaction.
ActivateUser_NoTx(r) ==
  /\ At(r, "write") /\ "activateUser" \in req[r].todo
  /\ NoUpdate(r) /\ NoReference(r)
  /\ status' = [status EXCEPT ![req[r].user] = "ACTIVE"]
  /\ req' = [req EXCEPT ![r] = Done(r, "activateUser")]
  /\ UNCHANGED <<now, otps, nextId, mails, issued>>

\* activateUser, whatever the status was.
ActivateUser(r) ==
  /\ At(r, "write") /\ "activateUser" \in req[r].todo
  /\ NoUpdate(r) /\ NoReference(r)
  /\ req' = [req EXCEPT ![r] = [Done(r, "activateUser") EXCEPT !.update = TRUE]]
  /\ UNCHANGED <<now, status, otps, nextId, mails, issued>>

-----------------------------------------------------------------------------
\* The end of transactions, the cron and time.

\* What COMMIT leaves in the user's row.
StatusAfter(r) == IF req[r].update THEN "ACTIVE"
                  ELSE IF req[r].create THEN "PENDING"
                  ELSE status[req[r].user]

Commit(r) ==
  /\ At(r, "commit")
  /\ status' = [status EXCEPT ![req[r].user] = StatusAfter(r)]
  /\ otps' = (otps \ req[r].del) \cup req[r].ins
  /\ issued' = issued \cup req[r].ins
  /\ IF req[r].op = "resend"
     THEN req' = [req EXCEPT ![r].pc = "publish", ![r].row = req[r].ins,
                    ![r].del = {}, ![r].ins = {}]
     ELSE Finish(r)
  /\ UNCHANGED <<now, nextId, mails>>

\* An exception at any await: the rate limit (which is counted all the same),
\* a duplicate email, a row gone, a deadlock, the time-out of a Prisma
\* transaction, the broker, or a restart of the server.  The transaction rolls
\* back; what was published stays published.
Fail(r) ==
  /\ req[r] # Idle
  /\ Finish(r)
  /\ UNCHANGED <<now, status, otps, nextId, mails, issued>>

\* Mutant: lt for lte.
Sweep_Lt ==
  /\ \A r \in Running : req[r].del = {} /\ req[r].ins = {}
  /\ otps' = {o \in otps : o.expiresAt >= now}
  /\ UNCHANGED <<now, status, nextId, req, mails, issued>>

\* deleteExpiredOtps: one statement, which scans (and so locks) every row.
Sweep ==
  /\ \A r \in Running : req[r].del = {} /\ req[r].ins = {}
  /\ otps' = {o \in otps : o.expiresAt > now}
  /\ UNCHANGED <<now, status, nextId, req, mails, issued>>

Tick ==
  /\ now < MaxNow
  /\ now' = now + 1
  /\ UNCHANGED <<status, otps, nextId, req, mails, issued>>

-----------------------------------------------------------------------------
\* What the server and the database do of themselves for a running request.
Server(r) ==
  /\ r \in Running
  /\ \/ CreateUser(r) \/ ResendRead(r)
     \/ RateGranted(r) \/ ReadActive(r) \/ DeleteCurrent(r)
     \/ CreateOtp(r) \/ SignOtp(r) \/ InsertOtp(r) \/ Publish(r)
     \/ VerifyRead(r) \/ ConsumeOtp(r) \/ ActivateUser(r)
     \/ Commit(r)

Client(r) ==
  \/ \E u \in Users : Signup(r, u)
  \/ \E o \in mails : Resend(r, o)
  \/ \E t \in mails, code \in {{}} \cup {{c} : c \in mails} : Verify(r, t, code)

Next ==
  \/ \E r \in Reqs : Client(r) \/ Server(r) \/ Fail(r)
  \/ Sweep
  \/ Tick

Spec == Init /\ [][Next]_vars

\* A request gets its replies and locks, or its exception (InnoDB breaks deadlocks,
\* Prisma ends transactions that take too long), and the cron comes again.
Fairness == (\A r \in Reqs : WF_vars(Server(r) \/ Fail(r))) /\ SF_vars(Sweep)

-----------------------------------------------------------------------------
TypeOK ==
  /\ now \in Nat
  /\ status \in [Users -> Statuses]
  /\ otps \in SUBSET Otp
  /\ nextId \in Nat
  /\ req \in [Reqs -> Request \cup {Idle}]
  /\ mails \in SUBSET Otp
  /\ issued \in SUBSET Otp

\* renewOtp deletes one OTP and inserts another in one transaction, verifyOtp
\* deletes one and activates in one: whatever runs beside them or fails, a user
\* who is not active keeps an OTP that lasts as long as any he was issued.
OtpUntilActive ==
  \A o \in issued : status[o.user] # "ACTIVE" /\ Active(o, now) =>
    \E p \in otps : p.user = o.user /\ p.expiresAt >= o.expiresAt

\* verifyOtp: an account becomes active only in the step that consumes an OTP
\* issued to it, for a request that sent the code of that OTP.
ActivatedByCode ==
  [][\A u \in Users : status[u] # "ACTIVE" /\ status'[u] = "ACTIVE" =>
       \E r \in Running : \E o \in req[r].code \cap issued :
         o.user = u /\ o \notin otps']_vars

\* renewOtp (150): "remove current active otp".
AtMostOneActiveOtp ==
  \A o, p \in otps :
    o.user = p.user /\ Active(o, now) /\ Active(p, now) => o = p

\* The one o'clock cron: an OTP that is no longer active leaves the table, for
\* all the locks of the requests around it.
ExpiredOtpsPurged ==
  \A i \in 0..(MaxOtps - 1) :
    (\E o \in otps : o.id = i /\ ~Active(o, now)) ~> (\A o \in otps : o.id # i)

\* The inductive invariant behind OtpUntilActive and ActivatedByCode.

\* An OTP a request has read or deleted was issued to its user.
RowsIssued(q) ==
  \A o \in q.seen \cup q.row \cup q.del : o.user = q.user /\ o \in issued

\* A row not yet committed is new, and outlasts those deleted for it.
InsertedNew(q) ==
  \A o \in q.ins : /\ o.user = q.user
                   /\ o.id < nextId
                   /\ o \notin issued
                   /\ o.expiresAt <= now + OtpTTL
                   /\ \A d \in q.del : d.expiresAt <= o.expiresAt

\* signup and resendOtp: nothing is deleted before the new OTP is on its way,
\* and nothing committed without it; the user exists when one is inserted.
RenewalOK(q) ==
  /\ q.todo = {} /\ ~q.update
  /\ q.pc \notin {"readToken", "createUser"} => q.create \/ status[q.user] # "none"
  /\ q.pc \in {"sign", "insert"} =>
       q.exp <= now + OtpTTL /\ \A d \in q.del : d.expiresAt <= q.exp
  /\ q.pc = "commit" \/ (q.pc = "publish" /\ q.op = "signup") => q.ins # {}
  /\ q.pc \notin {"publish", "commit"} => q.ins = {}
  /\ q.op = "resend" => ~q.create /\ q.pc # "createUser"

\* verifyOtp: it works on the OTP whose code was sent, and what it has done of
\* the two statements shows in its writes.
VerificationOK(q) ==
  /\ q.pc \in {"readToken", "write", "commit"}
  /\ q.ins = {} /\ ~q.create
  /\ q.pc = "readToken" => ~q.update /\ q.del = {}
  /\ q.pc # "readToken" =>
       /\ \E o \in q.code : q.row = {o}
       /\ "deleteOtp" \notin q.todo => q.row \cap otps \subseteq q.del
       /\ "activateUser" \notin q.todo => q.update
  /\ q.pc = "commit" => q.todo = {}

RequestOK(q) ==
  /\ RowsIssued(q)
  /\ \A t \in q.token : t.user = q.user
  /\ InsertedNew(q)
  /\ q.create => status[q.user] = "none"
  /\ IF q.op = "verify" THEN VerificationOK(q) ELSE RenewalOK(q)

\* Two transactions insert different rows, and different users.
Apart(p, q) ==
  /\ p.ins \cap q.ins = {}
  /\ p.create /\ q.create => p.user # q.user

OtpInv ==
  /\ TypeOK
  /\ otps \subseteq issued
  /\ \A o \in issued : /\ o.id < nextId
                       /\ o.expiresAt <= now + OtpTTL
                       /\ status[o.user] # "none"
  /\ OtpUntilActive
  /\ \A r \in Running : RequestOK(req[r])
  /\ \A r, s \in Running : r # s => Apart(req[r], req[s])

\* The inductive invariant behind AtMostOneActiveOtp when no two requests renew
\* the OTP of one user at a time.
OneRenewalEach ==
  \A r, s \in Running : /\ req[r].op # "verify" /\ req[s].op # "verify"
                        /\ req[r].user = req[s].user
                        => r = s

\* All but at most one of the rows are out of time by t.
OneActive(rows, t) == \A o, p \in rows : Active(o, t) /\ Active(p, t) => o = p

ActiveOf(u) == {o \in OtpsOf(u) : Active(o, now)}

\* Up to getActiveOtp the request sees every row of its user; from there on the
\* active one is the row it read or has deleted.
Replacing(q) ==
  /\ q.pc \in {"createUser", "rate"} => OneActive(q.seen, now)
  /\ q.pc = "readActive" =>
       q.cutoff <= now /\ OneActive(q.seen \cup OtpsOf(q.user), q.cutoff)
  /\ q.op = "signup" /\ q.pc \in {"createUser", "rate", "readActive"} =>
       OtpsOf(q.user) \subseteq q.seen
  /\ q.pc = "delete" => ActiveOf(q.user) \subseteq q.row
  /\ q.pc \in {"createOtp", "sign", "insert", "commit"} \/ (q.pc = "publish" /\ q.op = "signup")
       => ActiveOf(q.user) \subseteq q.del
  /\ q.op = "resend" => q.seen = {}
  /\ \A o, p \in q.ins : o = p

SerialInv ==
  /\ OtpInv
  /\ AtMostOneActiveOtp
  /\ \A r \in Running : req[r].op # "verify" => Replacing(req[r])
=============================================================================
