------------------------ MODULE RequestPipelineProofs ------------------------
(* The safety properties of RequestPipeline, for any number of requests.   *)
EXTENDS RequestPipeline, TLAPS

-----------------------------------------------------------------------------
\* Errors.

LEMMA GraphqlFormat ==
  ASSUME NEW e, e.kind = "graphql"
  PROVE  FormatError(e) = e.code
<1>1. e # Http("401") /\ e # Http("403")
  BY DEF Http, Error
<1>2. QED
  BY <1>1 DEF FormatError

\* What the interceptor makes of an error, an error of the API made by the
\* services included, is answered with a code the API declares.
LEMMA CaughtKnown ==
  ASSUME NEW e \in Errors,
         e.kind = "graphql" => e.code \in ApolloServerErrorCode
  PROVE  FormatError(CatchError(e)) \in ApolloServerErrorCode
<1>1. \A c : GraphQLException(c).kind = "graphql"
             /\ GraphQLException(c).code \in ApolloServerErrorCode
  BY DEF GraphQLException, Own, Error, ApolloServerErrorCode
<1>2. \A x : x.kind = "graphql" => FormatError(x) = x.code
  BY GraphqlFormat
<1>3. FormatError(Other) \in ApolloServerErrorCode
  BY DEF FormatError, Other, Error, Http, ApolloServerErrorCode
<1>4. CASE e.kind = "graphql"
  BY <1>2, <1>4 DEF CatchError
<1>5. CASE e.kind = "prisma"
  BY <1>1, <1>2, <1>3, <1>5
  DEF CatchError, ConvertPrismaClientError, ConvertCommonError
<1>6. CASE e.kind \notin {"graphql", "prisma"}
  BY <1>1, <1>2, <1>6 DEF CatchError, ConvertCommonError
<1>7. QED
  BY <1>4, <1>5, <1>6

\* An error of the services is answered with its own code.
LEMMA CaughtOwn ==
  ASSUME NEW e, e.kind = "graphql"
  PROVE  FormatError(CatchError(e)) = e.code
<1>1. CatchError(e) = e
  BY DEF CatchError
<1>2. QED
  BY <1>1, GraphqlFormat

\* The guards' errors: known codes, too.
LEMMA DeniedKnown ==
  ASSUME NEW e \in GuardErrors
  PROVE  /\ e \in Errors /\ e # NoError
         /\ FormatError(e) \in ApolloServerErrorCode
         /\ e.kind = "graphql" => e.code \in ApolloServerErrorCode /\ FormatError(e) = e.code
<1>1. CASE e = Http("401")
  BY <1>1 DEF FormatError, Http, Error, Errors, NoError, ApolloServerErrorCode
<1>2. CASE e = Own("UNAUTHORIZED")
  <2>1. e.kind = "graphql" /\ e.code = "UNAUTHORIZED"
    BY <1>2 DEF Own, Error
  <2>2. "UNAUTHORIZED" \in ApolloServerErrorCode
    BY DEF ApolloServerErrorCode
  <2>3. e \in Errors /\ e # NoError
    BY <1>2, <2>2 DEF Own, Error, Errors, NoError, Codes
  <2>4. QED
    BY <2>1, <2>2, <2>3, GraphqlFormat
<1>3. CASE e = Other
  BY <1>3 DEF FormatError, Other, Http, Error, Errors, NoError, ApolloServerErrorCode
<1>4. QED
  BY <1>1, <1>2, <1>3 DEF GuardErrors

\* So are the errors of the handlers.
LEMMA RaisedKnown ==
  ASSUME NEW op, NEW pc, NEW e \in Raises(op, pc)
  PROVE  /\ e \in Errors /\ e # NoError
         /\ e.kind = "graphql" => e.code \in ApolloServerErrorCode
<1>1. CASE e = Other
  BY <1>1 DEF Other, Error, Errors, NoError
<1>2. CASE e = Http("503")
  BY <1>2 DEF Http, Error, Errors, NoError
<1>3. ASSUME NEW c \in OwnErrors(op), e = Own(c)
      PROVE  e \in Errors /\ e # NoError /\ e.code \in ApolloServerErrorCode
  <2>1. c \in {"BAD_REQUEST", "TOO_MANY_REQUESTS", "INTERNAL_SERVER_ERROR"}
    BY <1>3 DEF OwnErrors
  <2>2. c \in ApolloServerErrorCode
    BY <2>1 DEF ApolloServerErrorCode
  <2>3. QED
    BY <1>3, <2>2 DEF Own, Error, Errors, NoError, Codes
<1>4. ASSUME NEW p \in {"P2025", "P2034", "P2028"}, e = Prisma(p)
      PROVE  e \in Errors /\ e # NoError /\ e.kind # "graphql"
  BY <1>4 DEF Prisma, Error, Errors, NoError
<1>5. QED
  BY <1>1, <1>2, <1>3, <1>4 DEF Raises, PrismaErrors, Other, Http, Error

\* An error that has no code of the API, nor one ErrorCodesStatusMapping gives it,
\* is answered INTERNAL_SERVER_ERROR.
LEMMA CaughtVague ==
  ASSUME NEW e, e \in {Other, Prisma("P2034"), Prisma("P2028")}
  PROVE  FormatError(CatchError(e)) = "INTERNAL_SERVER_ERROR"
<1>1. e.kind \in {"other", "prisma"} /\ e.code \in {"", "P2034", "P2028"}
  <2>1. CASE e = Other
    BY <2>1 DEF Other, Error
  <2>2. ASSUME NEW p \in {"P2034", "P2028"}, e = Prisma(p)
        PROVE  e.kind = "prisma" /\ e.code = p
    BY <2>2 DEF Prisma, Error
  <2>3. QED
    BY <2>1, <2>2
<1>2. e.code \notin DOMAIN ErrorCodesStatusMapping
  BY <1>1 DEF ErrorCodesStatusMapping
<1>3. CatchError(e) = GraphQLException(e.code)
  BY <1>1, <1>2 DEF CatchError, ConvertPrismaClientError, ConvertCommonError
<1>4. e.code \notin ApolloServerErrorCode
  BY <1>1 DEF ApolloServerErrorCode
<1>5. CatchError(e) = Own("INTERNAL_SERVER_ERROR")
  BY <1>3, <1>4 DEF GraphQLException
<1>6. CatchError(e).kind = "graphql" /\ CatchError(e).code = "INTERNAL_SERVER_ERROR"
  BY <1>5 DEF Own, Error
<1>7. QED
  BY <1>6, GraphqlFormat

\* What is raised at an await that does more than count is such an error.
LEMMA RaisedVague ==
  ASSUME NEW op, NEW pc \in {"publish", "commit", "write"}, NEW e \in Raises(op, pc),
         op # "healthReady"
  PROVE  FormatError(CatchError(e)) = "INTERNAL_SERVER_ERROR"
<1>1. e \in {Other, Prisma("P2034"), Prisma("P2028")}
  BY DEF Raises, PrismaErrors
<1>2. QED
  BY <1>1, CaughtVague

-----------------------------------------------------------------------------
\* IInv is inductive: a step changes one request, and what IInv says it says of
\* each request apart.

Good(q) ==
  /\ RequestOK(q)
  /\ q.answer \in ApolloServerErrorCode \cup {"none", "OK"}
  /\ q.pc = "done" /\ q.error.kind = "graphql" =>
       q.answer = q.error.code \/ q.answer = "REQUEST_TIMEOUT"
  /\ q.answer = "OK" => q.did = Promised(q.op)
  /\ q.answer \in Refusals => q.did \subseteq {"count"}

\* An answer that is none yet, or the time-out's, says nothing of the handler: a
\* request that is not over is as it should be when its place says so.
LEMMA NotDone ==
  ASSUME NEW q, RequestOK(q), q.pc # "done"
  PROVE  Good(q)
<1>1. q.answer \in {"none", "REQUEST_TIMEOUT"}
  BY DEF RequestOK
<1>2. "none" \notin Refusals /\ "REQUEST_TIMEOUT" \notin Refusals
  BY DEF Refusals, Codes, ApolloServerErrorCode
<1>3. "REQUEST_TIMEOUT" \in ApolloServerErrorCode
  BY DEF ApolloServerErrorCode
<1>4. QED
  BY <1>1, <1>2, <1>3 DEF Good

LEMMA IInvGood == IInv <=> TypeOK /\ \A r \in Running : Good(req[r])
  BY DEF IInv, Good, KnownCodes, OwnErrorsKept, AnswerTruthful

LEMMA IdleApart == \A q \in Request : q # Idle
  BY DEF Request, Idle, PCs

LEMMA OneRequest ==
  ASSUME IInv, NEW r \in Reqs, NEW q \in Request, Good(q),
         req' = [req EXCEPT ![r] = q], taken' \in SUBSET Emails
  PROVE  IInv'
<1>1. TypeOK'
  BY DEF IInv, TypeOK
<1>2. \A s \in Reqs : req'[s] = IF s = r THEN q ELSE req[s]
  BY DEF IInv, TypeOK
<1>3. ASSUME NEW s \in Running' PROVE Good(req'[s])
  <2>1. s \in Reqs /\ req'[s] # Idle
    BY <1>3 DEF Running
  <2>2. CASE s = r
    BY <1>2, <2>1, <2>2
  <2>3. CASE s # r
    BY <1>2, <2>1, <2>3, IInvGood DEF Running
  <2>4. QED
    BY <2>2, <2>3
<1>4. (\A s \in Running : Good(req[s]))'
  BY <1>3
<1>5. (IInv <=> TypeOK /\ \A s \in Running : Good(req[s]))'
  BY DEF IInv, Good, KnownCodes, OwnErrorsKept, AnswerTruthful
<1>6. QED
  BY <1>1, <1>4, <1>5

\* Where a handler that goes on is next, and what it has done by then.
LEMMA AfterStep ==
  ASSUME NEW op \in Ops, NEW pc \in StepsOf(op)
  PROVE  /\ After(op, pc) \in StepsOf(op) \cup {"return"}
         /\ DoneBefore(op, After(op, pc)) = DoneBefore(op, pc) \cup EffectsOf(op, pc)
<1>1. CASE op = "signup"
  <2>1. pc \in {"lookup", "create", "publish", "commit"}
    BY <1>1 DEF StepsOf
  <2>2. CASE pc = "lookup"
    BY <1>1, <2>2 DEF After, StepsOf, DoneBefore, EffectsOf, Effects
  <2>3. CASE pc = "create"
    BY <1>1, <2>3 DEF After, StepsOf, DoneBefore, EffectsOf
  <2>4. CASE pc = "publish"
    BY <1>1, <2>4 DEF After, StepsOf, DoneBefore, EffectsOf, Effects
  <2>5. CASE pc = "commit"
    BY <1>1, <2>5 DEF After, StepsOf, DoneBefore, EffectsOf, Effects, Promised
  <2>6. QED
    BY <2>1, <2>2, <2>3, <2>4, <2>5
<1>2. CASE op = "resendOtp"
  <2>1. pc \in {"work", "commit", "publish"}
    BY <1>2 DEF StepsOf
  <2>2. CASE pc = "work"
    BY <1>2, <2>2 DEF After, StepsOf, DoneBefore, EffectsOf
  <2>3. CASE pc = "commit"
    BY <1>2, <2>3 DEF After, StepsOf, DoneBefore, EffectsOf, Effects
  <2>4. CASE pc = "publish"
    BY <1>2, <2>4 DEF After, StepsOf, DoneBefore, EffectsOf, Effects, Promised
  <2>5. QED
    BY <2>1, <2>2, <2>3, <2>4
<1>3. CASE op = "verifyOtp"
  <2>1. pc = "work" \/ pc = "commit"
    BY <1>3 DEF StepsOf
  <2>2. QED
    BY <1>3, <2>1 DEF After, StepsOf, DoneBefore, EffectsOf, Effects, Promised
<1>4. CASE op = "login"
  <2>1. pc = "work" \/ pc = "write"
    BY <1>4 DEF StepsOf
  <2>2. QED
    BY <1>4, <2>1 DEF After, StepsOf, DoneBefore, EffectsOf, Effects, Promised
<1>5. CASE op \in {"signout", "refresh"}
  <2>1. pc = "write"
    BY <1>5 DEF StepsOf
  <2>2. QED
    BY <1>5, <2>1 DEF After, StepsOf, DoneBefore, EffectsOf, Effects, Promised
<1>6. CASE op \in {"checkOtpToken", "healthReady"}
  <2>1. pc = "work"
    BY <1>6 DEF StepsOf
  <2>2. QED
    BY <1>6, <2>1 DEF After, StepsOf, DoneBefore, EffectsOf, Effects, Promised
<1>7. QED
  BY <1>1, <1>2, <1>3, <1>4, <1>5, <1>6 DEF Ops, StepsOf

\* At an await that can raise more than an INTERNAL_SERVER_ERROR, nothing has been
\* done, nor is done by it, but the counting of the access.
LEMMA CheckedFirst ==
  ASSUME NEW op \in Ops, NEW pc \in StepsOf(op), pc \in {"lookup", "create", "work"}
  PROVE  DoneBefore(op, pc) \cup EffectsOf(op, pc) \subseteq {"count"}
<1>1. DoneBefore(op, pc) = {}
  BY DEF DoneBefore
<1>2. EffectsOf(op, pc) \subseteq {"count"}
  BY DEF EffectsOf, Effects
<1>3. QED
  BY <1>1, <1>2

\* Awaits are places of a request, each before its return.
LEMMA StepsArePlaces ==
  ASSUME NEW op \in Ops
  PROVE  /\ StepsOf(op) \subseteq {"lookup", "create", "publish", "work", "commit", "write"}
         /\ DoneBefore(op, "guard") = {} /\ DoneBefore(op, "pipe") = {}
         /\ DoneBefore(op, "return") = Promised(op)
         /\ DoneBefore(op, "profile") = Promised(op)
  BY DEF StepsOf, DoneBefore

LEMMA BeginStep ==
  ASSUME NEW op \in Ops
  PROVE  /\ Begin(op) \in {"lookup", "write", "return", "work"}
         /\ Begin(op) \in StepsOf(op) \cup {"return"}
         /\ DoneBefore(op, Begin(op)) = {}
<1>1. CASE op \in {"signup", "me"}
  BY <1>1 DEF Begin, StepsOf, DoneBefore, Promised
<1>2. CASE op \in {"signout", "refresh"}
  BY <1>2 DEF Begin, StepsOf, DoneBefore
<1>3. CASE op \in {"verifyOtp", "checkOtpToken", "resendOtp", "login", "healthReady"}
  BY <1>3 DEF Begin, StepsOf, DoneBefore
<1>4. QED
  BY <1>1, <1>2, <1>3 DEF Ops

LEMMA EffectsAre == \A op, pc : EffectsOf(op, pc) \subseteq Effects
  BY DEF EffectsOf, Effects

LEMMA InitIInv == Init => IInv
  BY DEF Init, IInv, TypeOK, Running, KnownCodes, OwnErrorsKept, AnswerTruthful

\* One step per action.
LEMMA Inductive == IInv /\ [Next]_vars => IInv'
<1> SUFFICES ASSUME IInv, [Next]_vars PROVE IInv'
  OBVIOUS
<1>1. /\ TypeOK
      /\ \A r \in Reqs : req[r] # Idle => req[r] \in Request /\ Good(req[r])
  BY IInvGood DEF IInv, TypeOK, Running
<1>2. \A r \in Reqs : req[r].pc # "idle" => req[r] \in Request /\ Good(req[r])
  BY <1>1 DEF Idle
<1>3. ASSUME NEW r \in Reqs, NEW op \in Ops, NEW e \in Emails, Receive(r, op, e)
      PROVE  IInv'
  <2> DEFINE q == [pc |-> IF Guard(op) = "none" THEN "pipe" ELSE "guard", op |-> op,
                   email |-> e, invalid |-> FALSE, seen |-> FALSE, insert |-> FALSE,
                   error |-> NoError, did |-> {}, answer |-> "none"]
  <2>1. NoError \in Errors /\ NoError.kind = "none"
    BY DEF NoError, Error, Errors
  <2>2. q \in Request
    BY <2>1 DEF Request, PCs
  <2>3. Good(q)
    <3>1. RequestOK(q)
      BY <2>1, StepsArePlaces DEF RequestOK
    <3>2. QED
      BY <3>1, NotDone
  <2>4. req' = [req EXCEPT ![r] = q] /\ taken' = taken
    BY <1>3 DEF Receive
  <2> HIDE DEF q
  <2>5. QED
    BY <1>1, <2>2, <2>3, <2>4, OneRequest DEF TypeOK
<1>4. ASSUME NEW r \in Reqs, NEW role \in UserRole, CanActivate(r, role)
      PROVE  IInv'
  <2>1. CanActivateRoles(role)
    BY DEF CanActivateRoles, Roles
  <2> DEFINE q == [req[r] EXCEPT !.pc = "pipe"]
  <2>2. req[r] \in Request /\ Good(req[r]) /\ req[r].pc = "guard"
    BY <1>2, <1>4 DEF CanActivate, At
  <2>3. q \in Request
    BY <2>2 DEF Request, PCs
  <2>4. Good(q)
    <3>1. q.pc = "pipe" /\ q.error = req[r].error /\ q.answer = req[r].answer
          /\ q.op = req[r].op /\ q.did = req[r].did /\ q.op \in Ops
      BY <2>2 DEF Request
    <3>2. RequestOK(q)
      BY <2>2, <3>1, StepsArePlaces DEF Good, RequestOK
    <3>3. QED
      BY <3>1, <3>2, NotDone
  <2>5. req' = [req EXCEPT ![r] = q] /\ taken' = taken
    BY <1>4, <2>1 DEF CanActivate, Go
  <2> HIDE DEF q
  <2>6. QED
    BY <1>1, <2>3, <2>4, <2>5, OneRequest DEF TypeOK
<1>5. ASSUME NEW r \in Reqs, NEW e \in GuardErrors, Deny(r, e)
      PROVE  IInv'
  <2> DEFINE q == [req[r] EXCEPT !.pc = "done", !.error = e, !.answer = FormatError(e)]
  <2>1. req[r] \in Request /\ Good(req[r]) /\ req[r].pc = "guard"
    BY <1>2, <1>5 DEF Deny, At
  <2>2. /\ e \in Errors /\ FormatError(e) \in ApolloServerErrorCode
        /\ e.kind = "graphql" => e.code \in ApolloServerErrorCode /\ FormatError(e) = e.code
    BY DeniedKnown
  <2>3. q \in Request
    BY <2>1, <2>2 DEF Request, PCs, Codes
  <2>4. FormatError(e) \notin {"none", "OK"}
    BY <2>2 DEF ApolloServerErrorCode
  <2>5. q.pc = "done" /\ q.error = e /\ q.answer = FormatError(e) /\ q.op = req[r].op
        /\ q.did = req[r].did /\ q.op \in Ops
    BY <2>1 DEF Request
  <2>6. Good(q)
    <3>1. q.did = {}
      BY <2>1, <2>5, StepsArePlaces DEF Good, RequestOK
    <3>2. RequestOK(q)
      BY <2>2, <2>5 DEF RequestOK
    <3>3. QED
      BY <2>2, <2>4, <2>5, <3>1, <3>2 DEF Good
  <2>7. req' = [req EXCEPT ![r] = q] /\ taken' = taken
    BY <1>5 DEF Deny
  <2> HIDE DEF q
  <2>8. QED
    BY <1>1, <2>3, <2>6, <2>7, OneRequest DEF TypeOK
<1>6. ASSUME NEW r \in Reqs, Validate(r) PROVE IInv'
  <2> DEFINE q == [req[r] EXCEPT !.pc = Begin(req[r].op)]
  <2>1. req[r] \in Request /\ Good(req[r]) /\ req[r].pc = "pipe"
    BY <1>2, <1>6 DEF Validate, At
  <2>2. req[r].op \in Ops
    BY <2>1 DEF Request
  <2>3. /\ Begin(req[r].op) \in {"lookup", "write", "return", "work"}
        /\ Begin(req[r].op) \in StepsOf(req[r].op) \cup {"return"}
        /\ DoneBefore(req[r].op, Begin(req[r].op)) = {}
    BY <2>2, BeginStep
  <2>4. q \in Request
    BY <2>1, <2>3 DEF Request, PCs
  <2>5. q.pc = Begin(req[r].op) /\ q.error = req[r].error /\ q.answer = req[r].answer
        /\ q.op = req[r].op /\ q.did = req[r].did
    BY <2>1 DEF Request
  <2>6. req[r].did = {} /\ req[r].error = NoError
    BY <2>1, <2>2, StepsArePlaces DEF Good, RequestOK
  <2>7. Good(q)
    <3>1. RequestOK(q)
      BY <2>1, <2>3, <2>5, <2>6 DEF Good, RequestOK
    <3>2. QED
      BY <2>3, <2>5, <3>1, NotDone
  <2>8. req' = [req EXCEPT ![r] = q] /\ taken' = taken
    BY <1>6 DEF Validate, Go
  <2> HIDE DEF q
  <2>9. QED
    BY <1>1, <2>4, <2>7, <2>8, OneRequest DEF TypeOK
<1>7. ASSUME NEW r \in Reqs, Refuse(r) PROVE IInv'
  <2> DEFINE e == ClassValidatorErrorsFactory(req[r].op)
             q == [req[r] EXCEPT !.pc = "raised", !.invalid = TRUE, !.error = e]
  <2>1. req[r] \in Request /\ Good(req[r]) /\ req[r].pc = "pipe"
    BY <1>2, <1>7 DEF Refuse, At
  <2>2. e \in Errors /\ e # NoError
        /\ (e.kind = "graphql" => e.code \in ApolloServerErrorCode)
    <3>1. e = Other \/ e = Own("BAD_USER_INPUT")
      BY DEF ClassValidatorErrorsFactory, GraphQLException, ApolloServerErrorCode
    <3>2. "BAD_USER_INPUT" \in ApolloServerErrorCode
      BY DEF ApolloServerErrorCode
    <3> HIDE DEF e
    <3>3. CASE e = Other
      BY <3>3 DEF Other, Error, Errors, NoError
    <3>4. CASE e = Own("BAD_USER_INPUT")
      BY <3>2, <3>4 DEF Own, Error, Errors, NoError, Codes
    <3>5. QED
      BY <3>1, <3>3, <3>4
  <2> HIDE DEF e
  <2>3. q \in Request
    BY <2>1, <2>2 DEF Request, PCs
  <2>4. q.pc = "raised" /\ q.error = e /\ q.answer = req[r].answer
        /\ q.op = req[r].op /\ q.did = req[r].did
    BY <2>1 DEF Request
  <2>5. Good(q)
    <3>1. req[r].did = {} /\ req[r].op \in Ops
      BY <2>1, StepsArePlaces DEF Good, RequestOK, Request
    <3>2. RequestOK(q)
      BY <2>1, <2>2, <2>4, <3>1 DEF Good, RequestOK
    <3>3. QED
      BY <2>4, <3>2, NotDone
  <2>6. req' = [req EXCEPT ![r] = q] /\ taken' = taken
    BY <1>7 DEF Refuse, e
  <2> HIDE DEF q
  <2>7. QED
    BY <1>1, <2>3, <2>5, <2>6, OneRequest DEF TypeOK
<1>8. ASSUME NEW r \in Reqs, Lookup(r) PROVE IInv'
  <2> DEFINE b == req[r].email \in taken
             q == [req[r] EXCEPT !.pc = "create", !.seen = b]
  <2>1. req[r] \in Request /\ Good(req[r]) /\ req[r].pc = "lookup"
    BY <1>2, <1>8 DEF Lookup, At
  <2>2. req' = [req EXCEPT ![r] = q] /\ taken' = taken
    BY <1>8 DEF Lookup
  <2>3. b \in BOOLEAN
    OBVIOUS
  <2> HIDE DEF b
  <2>4. q \in Request
    BY <2>1, <2>3 DEF Request, PCs
  <2>5. q.pc = "create" /\ q.error = req[r].error /\ q.answer = req[r].answer
        /\ q.op = req[r].op /\ q.did = req[r].did
    BY <2>1 DEF Request
  <2>6. req[r].op = "signup"
    BY <2>1 DEF Good, RequestOK, StepsOf
  <2>7. Good(q)
    <3>1. "create" \in StepsOf("signup")
          /\ DoneBefore("signup", "create") = DoneBefore("signup", "lookup")
      BY DEF StepsOf, DoneBefore
    <3>2. RequestOK(q)
      BY <2>1, <2>5, <2>6, <3>1 DEF Good, RequestOK
    <3>3. QED
      BY <2>5, <3>2, NotDone
  <2> HIDE DEF q
  <2>8. QED
    BY <1>1, <2>4, <2>7, <2>2, OneRequest DEF TypeOK
<1>9. ASSUME NEW r \in Reqs, Create(r) PROVE IInv'
  <2> DEFINE e == Prisma("P2002")
             n == After("signup", "create")
             d == req[r].did \cup EffectsOf("signup", "create")
             p == [req[r] EXCEPT !.pc = "raised", !.error = e]
             q == [req[r] EXCEPT !.pc = n, !.insert = TRUE, !.did = d]
  <2>1. req[r] \in Request /\ Good(req[r]) /\ req[r].pc = "create"
    BY <1>2, <1>9 DEF Create, At
  <2>2. e \in Errors /\ e # NoError /\ e.kind # "graphql"
    BY DEF Prisma, Error, Errors, NoError
  <2>3. taken' = taken
        /\ (req' = [req EXCEPT ![r] = p] \/ req' = [req EXCEPT ![r] = q])
    BY <1>1, <1>9 DEF Create, TypeOK
  <2>4. req[r].op = "signup"
    BY <2>1 DEF Good, RequestOK, StepsOf
  <2>5. /\ n = "publish" /\ n \in StepsOf("signup")
        /\ DoneBefore("signup", "create") = {}
        /\ DoneBefore("signup", n) = {"count"}
        /\ EffectsOf("signup", "create") = {"count"}
    BY DEF After, StepsOf, DoneBefore, EffectsOf
  <2>6. req[r].did = {} /\ d = {"count"} /\ req[r].error = NoError
    BY <2>1, <2>4, <2>5 DEF Good, RequestOK
  <2> HIDE DEF e, n, d
  <2>7. p \in Request /\ q \in Request
    BY <2>1, <2>2, <2>5, <2>6 DEF Request, PCs, Effects
  <2>8. /\ p.pc = "raised" /\ p.error = e /\ p.answer = req[r].answer
        /\ p.op = req[r].op /\ p.did = req[r].did
        /\ q.pc = n /\ q.error = req[r].error /\ q.answer = req[r].answer
        /\ q.op = req[r].op /\ q.did = d
    BY <2>1 DEF Request
  <2>9. RequestOK(p)
    BY <2>1, <2>2, <2>6, <2>8 DEF Good, RequestOK
  <2>10. RequestOK(q)
    BY <2>1, <2>4, <2>5, <2>6, <2>8 DEF Good, RequestOK
  <2>11. Good(p) /\ Good(q)
    BY <2>5, <2>8, <2>9, <2>10, NotDone
  <2> HIDE DEF p, q
  <2>12. QED
    BY <1>1, <2>3, <2>7, <2>11, OneRequest DEF TypeOK
<1>10. ASSUME NEW r \in Reqs, Proceed(r) PROVE IInv'
  <2> DEFINE n == After(req[r].op, req[r].pc)
             d == req[r].did \cup EffectsOf(req[r].op, req[r].pc)
             q == [req[r] EXCEPT !.pc = n, !.did = d,
                                 !.insert = @ /\ req[r].pc # "commit"]
  <2>1. /\ req[r] \in Request /\ Good(req[r]) /\ req[r].op \in Ops
        /\ req[r].pc \in StepsOf(req[r].op)
        /\ req[r].pc \notin {"done", "raised"}
    BY <1>2, <1>10 DEF Proceed, At, Good, RequestOK, Request
  <2>2. /\ n \in StepsOf(req[r].op) \cup {"return"}
        /\ DoneBefore(req[r].op, n)
             = DoneBefore(req[r].op, req[r].pc) \cup EffectsOf(req[r].op, req[r].pc)
    BY <2>1, AfterStep
  <2>3. /\ req[r].did = DoneBefore(req[r].op, req[r].pc)
        /\ d = DoneBefore(req[r].op, n)
    BY <2>1, <2>2 DEF Good, RequestOK
  <2>4. req' = [req EXCEPT ![r] = q]
    BY <1>10 DEF Proceed
  <2>5. taken' \in SUBSET Emails
    BY <1>1, <1>10, <2>1 DEF Proceed, TypeOK, Request
  <2>6. d \in SUBSET Effects
    BY <2>1, EffectsAre DEF Request
  <2>7. n \in {"lookup", "create", "publish", "work", "commit", "write", "return"}
    BY <2>1, <2>2, StepsArePlaces
  <2> HIDE DEF n, d
  <2>8. q \in Request
    BY <2>1, <2>6, <2>7 DEF Request, PCs
  <2>9. q.pc = n /\ q.error = req[r].error /\ q.answer = req[r].answer
        /\ q.op = req[r].op /\ q.did = d
    BY <2>1 DEF Request
  <2>10. RequestOK(q)
    BY <2>1, <2>2, <2>3, <2>7, <2>9 DEF Good, RequestOK
  <2>11. Good(q)
    BY <2>7, <2>9, <2>10, NotDone
  <2> HIDE DEF q
  <2>12. QED
    BY <1>1, <2>4, <2>5, <2>8, <2>11, OneRequest
<1>11. ASSUME NEW r \in Reqs, NEW e \in Errors, Raise(r, e) PROVE IInv'
  <2>1. PICK done \in SUBSET EffectsOf(req[r].op, req[r].pc) :
          /\ req' = [req EXCEPT ![r].pc = "raised", ![r].error = e,
                       ![r].insert = FALSE, ![r].did = @ \cup done]
          /\ taken' = IF "commit" \in done /\ req[r].insert
                      THEN taken \cup {req[r].email} ELSE taken
    BY <1>11 DEF Raise
  <2> DEFINE d == req[r].did \cup done
             q == [req[r] EXCEPT !.pc = "raised", !.error = e, !.insert = FALSE,
                                 !.did = d]
  <2>2. /\ req[r] \in Request /\ Good(req[r]) /\ req[r].op \in Ops
        /\ req[r].pc \in StepsOf(req[r].op)
        /\ req[r].pc \in {"lookup", "create", "publish", "work", "commit", "write"}
    BY <1>2, <1>11 DEF Raise, Good, RequestOK, Request
  <2>3. /\ e \in Raises(req[r].op, req[r].pc)
        /\ e # NoError /\ (e.kind = "graphql" => e.code \in ApolloServerErrorCode)
    BY <1>11, RaisedKnown DEF Raise
  <2>4. d \subseteq {"count"} \/ FormatError(CatchError(e)) \notin Refusals
    <3>1. req[r].did = DoneBefore(req[r].op, req[r].pc)
      BY <2>2 DEF Good, RequestOK
    <3>2. CASE req[r].pc \in {"lookup", "create", "work"}
      <4>1. DoneBefore(req[r].op, req[r].pc) \cup EffectsOf(req[r].op, req[r].pc)
              \subseteq {"count"}
        BY <2>2, <3>2, CheckedFirst
      <4>2. QED
        BY <3>1, <4>1
    <3>3. CASE req[r].pc \in {"publish", "commit", "write"}
      <4>1. req[r].op # "healthReady"
        BY <2>2, <3>3 DEF StepsOf
      <4>2. FormatError(CatchError(e)) = "INTERNAL_SERVER_ERROR"
        BY <2>3, <3>3, <4>1, RaisedVague
      <4>3. QED
        BY <4>2 DEF Refusals
    <3>4. QED
      BY <2>2, <3>2, <3>3
  <2>5. d \in SUBSET Effects
    BY <2>2, EffectsAre DEF Request
  <2>6. req' = [req EXCEPT ![r] = q] /\ taken' \in SUBSET Emails
    BY <1>1, <2>1, <2>2 DEF TypeOK, Request
  <2> HIDE DEF d
  <2>7. q \in Request
    BY <2>2, <2>5 DEF Request, PCs
  <2>8. q.pc = "raised" /\ q.error = e /\ q.answer = req[r].answer
        /\ q.op = req[r].op /\ q.did = d
    BY <2>2 DEF Request
  <2>9. RequestOK(q)
    BY <2>2, <2>3, <2>4, <2>8 DEF Good, RequestOK
  <2>10. Good(q)
    BY <2>8, <2>9, NotDone
  <2> HIDE DEF q
  <2>11. QED
    BY <1>1, <2>6, <2>7, <2>10, OneRequest
<1>12. ASSUME NEW r \in Reqs, Catch(r) PROVE IInv'
  <2> DEFINE c == FormatError(CatchError(req[r].error))
             a == IF req[r].answer = "none" THEN c ELSE req[r].answer
             q == [req[r] EXCEPT !.answer = a, !.pc = "done"]
  <2>1. req[r] \in Request /\ Good(req[r]) /\ req[r].pc = "raised"
    BY <1>2, <1>12 DEF Catch, At
  <2>2. /\ req[r].error \in Errors
        /\ req[r].error.kind = "graphql" => req[r].error.code \in ApolloServerErrorCode
        /\ req[r].answer \in {"none", "REQUEST_TIMEOUT"}
    BY <2>1 DEF Good, RequestOK, Request
  <2>3. c \in ApolloServerErrorCode /\ c \notin {"none", "OK"}
    <3>1. c \in ApolloServerErrorCode
      BY <2>2, CaughtKnown
    <3>2. QED
      BY <3>1 DEF ApolloServerErrorCode
  <2>4. req[r].error.kind = "graphql" => c = req[r].error.code
    BY CaughtOwn
  <2>5. req' = [req EXCEPT ![r] = q] /\ taken' = taken
    <3>1. [Answered(req[r], c) EXCEPT !.pc = "done"] = q
      BY DEF Answered
    <3>2. QED
      BY <1>1, <1>12, <3>1 DEF Catch, TypeOK
  <2> HIDE DEF c
  <2>6. q \in Request
    BY <2>1, <2>3 DEF Request, PCs, Codes
  <2>7. q.pc = "done" /\ q.error = req[r].error /\ q.answer = a
        /\ q.op = req[r].op /\ q.did = req[r].did
    BY <2>1 DEF Request
  <2>8. Good(q)
    <3>1. "none" \notin Refusals /\ "REQUEST_TIMEOUT" \notin Refusals
          /\ "REQUEST_TIMEOUT" \in ApolloServerErrorCode
      BY DEF Refusals, Codes, ApolloServerErrorCode
    <3>2. c \in Refusals => req[r].did \subseteq {"count"}
      BY <2>1 DEF c, Good, RequestOK
    <3>3. RequestOK(q)
      BY <2>1, <2>7 DEF Good, RequestOK
    <3>4. QED
      BY <2>1, <2>2, <2>3, <2>4, <2>7, <3>1, <3>2, <3>3 DEF Good
  <2> HIDE DEF q
  <2>9. QED
    BY <1>1, <2>5, <2>6, <2>8, OneRequest DEF TypeOK
<1>13. ASSUME NEW r \in Reqs, Return(r) PROVE IInv'
  <2> DEFINE a == IF req[r].answer = "none" THEN "OK" ELSE req[r].answer
             q == [req[r] EXCEPT !.answer = a, !.pc = "done"]
             p == [req[r] EXCEPT !.pc = "profile"]
  <2>1. req[r] \in Request /\ Good(req[r]) /\ req[r].pc = "return" /\ req[r].op \in Ops
    BY <1>2, <1>13 DEF Return, At, Request
  <2>2. /\ taken' = taken
        /\ \/ req' = [req EXCEPT ![r] = q]
           \/ req' = [req EXCEPT ![r] = p] /\ req[r].answer = "none"
    <3>1. [Answered(req[r], "OK") EXCEPT !.pc = "done"] = q
      BY DEF Answered
    <3>2. QED
      BY <1>1, <1>13, <3>1 DEF Return, Go, TypeOK
  <2>3. q \in Request /\ p \in Request
    BY <2>1 DEF Request, PCs
  <2>4. /\ q.pc = "done" /\ q.error = req[r].error /\ q.answer = a
        /\ q.op = req[r].op /\ q.did = req[r].did
        /\ p.pc = "profile" /\ p.error = req[r].error /\ p.answer = req[r].answer
        /\ p.op = req[r].op /\ p.did = req[r].did
    BY <2>1 DEF Request
  <2>5. /\ req[r].error = NoError /\ NoError.kind # "graphql"
        /\ req[r].answer \in {"none", "REQUEST_TIMEOUT"}
        /\ req[r].did = Promised(req[r].op)
        /\ DoneBefore(req[r].op, "profile") = Promised(req[r].op)
    BY <2>1, StepsArePlaces DEF Good, RequestOK, NoError, Error
  <2>6. Good(q)
    <3>1. "OK" \notin Refusals /\ "REQUEST_TIMEOUT" \notin Refusals
          /\ "REQUEST_TIMEOUT" \in ApolloServerErrorCode
      BY DEF Refusals, Codes, ApolloServerErrorCode
    <3>2. RequestOK(q)
      BY <2>4, <2>5 DEF RequestOK
    <3>3. QED
      BY <2>4, <2>5, <3>1, <3>2 DEF Good
  <2>7. ASSUME req[r].answer = "none" PROVE Good(p)
    <3>1. RequestOK(p)
      BY <2>4, <2>5, <2>7 DEF RequestOK
    <3>2. QED
      BY <2>4, <3>1, NotDone
  <2> HIDE DEF p, q
  <2>8. QED
    BY <1>1, <2>2, <2>3, <2>6, <2>7, OneRequest DEF TypeOK
<1>14. ASSUME NEW r \in Reqs, GetProfile(r) PROVE IInv'
  <2>1. req[r] \in Request /\ Good(req[r]) /\ req[r].pc = "profile" /\ req[r].op \in Ops
    BY <1>2, <1>14 DEF GetProfile, At, Request
  <2>2. /\ req[r].answer = "none" /\ req[r].did = Promised(req[r].op)
    BY <2>1, StepsArePlaces DEF Good, RequestOK
  <2>3. PICK e \in {NoError, Other} :
          req' = [req EXCEPT ![r] =
            [Answered(@, IF e = NoError THEN "OK" ELSE FormatError(e))
               EXCEPT !.pc = "done", !.error = e]]
    BY <1>14 DEF GetProfile
  <2> DEFINE a == IF e = NoError THEN "OK" ELSE FormatError(e)
             q == [req[r] EXCEPT !.answer = a, !.pc = "done", !.error = e]
  <2>4. /\ e \in Errors /\ e.kind # "graphql"
        /\ a \in {"OK", "INTERNAL_SERVER_ERROR"}
    <3>1. FormatError(Other) = "INTERNAL_SERVER_ERROR"
      BY DEF FormatError, Other, Http, Error
    <3>2. NoError \in Errors /\ Other \in Errors
          /\ NoError.kind # "graphql" /\ Other.kind # "graphql"
      BY DEF NoError, Other, Error, Errors
    <3>3. QED
      BY <3>1, <3>2
  <2>5. req' = [req EXCEPT ![r] = q] /\ taken' = taken
    <3>1. [Answered(req[r], a) EXCEPT !.pc = "done", !.error = e] = q
      BY <2>2 DEF Answered
    <3> HIDE DEF a, q
    <3>2. req' = [req EXCEPT ![r] = [Answered(req[r], a) EXCEPT !.pc = "done", !.error = e]]
      BY <1>1, <2>3 DEF a, TypeOK
    <3>3. QED
      BY <1>14, <3>1, <3>2 DEF GetProfile
  <2> HIDE DEF a
  <2>6. "INTERNAL_SERVER_ERROR" \in ApolloServerErrorCode
        /\ "OK" \notin Refusals /\ "INTERNAL_SERVER_ERROR" \notin Refusals
    BY DEF Refusals, Codes, ApolloServerErrorCode
  <2>7. q \in Request
    BY <2>1, <2>4, <2>6 DEF Request, PCs, Codes
  <2>8. q.pc = "done" /\ q.error = e /\ q.answer = a
        /\ q.op = req[r].op /\ q.did = req[r].did
    BY <2>1 DEF Request
  <2>9. RequestOK(q)
    BY <2>4, <2>8 DEF RequestOK
  <2>10. Good(q)
    BY <2>2, <2>4, <2>6, <2>8, <2>9 DEF Good
  <2> HIDE DEF q
  <2>11. QED
    BY <1>1, <2>5, <2>7, <2>10, OneRequest DEF TypeOK
<1>15. ASSUME NEW r \in Reqs, TimeOut(r) PROVE IInv'
  <2> DEFINE q == [req[r] EXCEPT !.answer = "REQUEST_TIMEOUT"]
  <2>1. req[r] \in Request /\ Good(req[r]) /\ req[r].pc \notin {"guard", "profile", "done"}
    BY <1>2, <1>15 DEF TimeOut
  <2>2. "REQUEST_TIMEOUT" \in ApolloServerErrorCode
    BY DEF ApolloServerErrorCode
  <2>3. FormatError(CatchError(GraphQLException("REQUEST_TIMEOUT"))) = "REQUEST_TIMEOUT"
    <3>1. /\ GraphQLException("REQUEST_TIMEOUT").kind = "graphql"
          /\ GraphQLException("REQUEST_TIMEOUT").code = "REQUEST_TIMEOUT"
      BY <2>2 DEF GraphQLException, Own, Error
    <3>2. QED
      BY <3>1, CaughtOwn
  <2>4. req' = [req EXCEPT ![r] = q] /\ taken' = taken
    BY <1>15, <2>3 DEF TimeOut
  <2>5. q \in Request
    BY <2>1, <2>2 DEF Request, Codes
  <2>6. q.pc = req[r].pc /\ q.error = req[r].error /\ q.answer = "REQUEST_TIMEOUT"
        /\ q.op = req[r].op /\ q.did = req[r].did
    BY <2>1 DEF Request
  <2>7. Good(q)
    <3>1. RequestOK(q)
      BY <2>1, <2>6 DEF Good, RequestOK
    <3>2. QED
      BY <2>1, <2>6, <3>1, NotDone
  <2> HIDE DEF q
  <2>8. QED
    BY <1>1, <2>4, <2>5, <2>7, OneRequest DEF TypeOK
<1>16. ASSUME NEW r \in Reqs, Forget(r) PROVE IInv'
  <2>1. taken' = taken /\ \A s \in Reqs : req'[s] = IF s = r THEN Idle ELSE req[s]
    BY <1>1, <1>16 DEF Forget, TypeOK
  <2>2. TypeOK'
    BY <1>1, <1>16 DEF Forget, TypeOK
  <2>3. (\A s \in Running : Good(req[s]))'
    BY <1>1, <2>1 DEF Running
  <2>4. QED
    BY <2>2, <2>3 DEF IInv, Good, KnownCodes, OwnErrorsKept, AnswerTruthful
<1>17. CASE UNCHANGED vars
  BY <1>17 DEF vars, IInv, TypeOK, Running, KnownCodes, OwnErrorsKept, AnswerTruthful
<1>18. QED
  BY <1>3, <1>4, <1>5, <1>6, <1>7, <1>8, <1>9, <1>10, <1>11, <1>12, <1>13, <1>14,
     <1>15, <1>16, <1>17 DEF Next, Handler

-----------------------------------------------------------------------------
\* What is raised, done and answered fits the place a request has reached in the
\* guards, the interceptor, its handler and the resolver of the profile: the
\* invariant the others rest on.
THEOREM Invariance == Spec => []IInv
BY InitIInv, Inductive, PTL DEF Spec

\* Type correctness of the request pipeline.
THEOREM TypeCorrect == Spec => []TypeOK
<1>1. IInv => TypeOK
  BY DEF IInv
<1>2. QED
  BY <1>1, Invariance, PTL

\* Whatever a guard, the pipe or a handler throws, the code answered is one of
\* ApolloServerErrorCode: GraphQLError.ts and the interceptor leave no other way.
THEOREM KnownCodesAlways == Spec => []KnownCodes
<1>1. IInv => KnownCodes
  BY DEF IInv
<1>2. QED
  BY <1>1, Invariance, PTL

\* The interceptor gives the client the code that a service or a guard chose,
\* unless the time-out was answered first.
THEOREM OwnErrorsAlways == Spec => []OwnErrorsKept
<1>1. IInv => OwnErrorsKept
  BY DEF IInv
<1>2. QED
  BY <1>1, Invariance, PTL

\* Of AuthService: an OK says that the mail, the transaction or the whitelist entry
\* of the operation is done, and a refusal that none is, whichever await fails, a
\* lost reply included, and however the requests interleave.
THEOREM TruthfulAlways == Spec => []AnswerTruthful
<1>1. IInv => AnswerTruthful
  BY DEF IInv
<1>2. QED
  BY <1>1, Invariance, PTL

\* A request with an answer other than the time-out's is over.
LEMMA AnsweredDone ==
  ASSUME IInv, NEW r \in Reqs, req[r] # Idle,
         req[r].answer \notin {"none", "REQUEST_TIMEOUT"}
  PROVE  req[r].pc = "done"
  BY DEF IInv, Running, RequestOK

\* A step that is r's gives no second answer, and r takes none once it is over.
LEMMA AnswerKept ==
  ASSUME IInv, NEW r \in Reqs, req[r] # Idle, req[r].answer # "none",
         \/ \E role \in UserRole : CanActivate(r, role)
         \/ \E e \in GuardErrors : Deny(r, e)
         \/ Validate(r) \/ Refuse(r)
         \/ Handler(r) \/ Catch(r) \/ Return(r) \/ GetProfile(r)
         \/ TimeOut(r)
  PROVE  /\ req'[r].answer = req[r].answer
         /\ req[r].answer = "REQUEST_TIMEOUT"
<1>1. req[r] \in Request /\ req[r].pc \notin {"guard", "profile"}
  BY DEF IInv, TypeOK, Running, RequestOK
<1>2. req[r].pc # "done"
  BY <1>1 DEF CanActivate, Deny, Validate, Refuse, Handler, Lookup, Create, Proceed,
              Raise, Catch, Return, GetProfile, TimeOut, At
<1>3. req[r].answer = "REQUEST_TIMEOUT"
  BY <1>2, AnsweredDone
<1>4. req \in [Reqs -> Request \cup {Idle}]
  BY DEF IInv, TypeOK
<1>5. CASE Validate(r) \/ Lookup(r)
  <2>1. \/ req'[r] = [req[r] EXCEPT !.pc = Begin(req[r].op)]
        \/ req'[r] = [req[r] EXCEPT !.pc = "create", !.seen = req[r].email \in taken]
    BY <1>4, <1>5 DEF Validate, Lookup, Go
  <2>2. QED
    BY <1>1, <1>3, <2>1 DEF Request
<1>6. CASE Refuse(r)
  <2>1. PICK e : req'[r] = [req[r] EXCEPT !.pc = "raised", !.invalid = TRUE, !.error = e]
    BY <1>4, <1>6 DEF Refuse
  <2>2. QED
    BY <1>1, <1>3, <2>1 DEF Request
<1>7. CASE Create(r)
  <2>1. \/ req'[r] = [req[r] EXCEPT !.pc = "raised", !.error = Prisma("P2002")]
        \/ req'[r] = [req[r] EXCEPT !.pc = After("signup", "create"), !.insert = TRUE,
                          !.did = @ \cup EffectsOf("signup", "create")]
    BY <1>4, <1>7 DEF Create
  <2>2. QED
    BY <1>1, <1>3, <2>1 DEF Request
<1>8. CASE Proceed(r)
  <2>1. req'[r] = [req[r] EXCEPT
          !.pc = After(req[r].op, req[r].pc),
          !.did = req[r].did \cup EffectsOf(req[r].op, req[r].pc),
          !.insert = req[r].insert /\ req[r].pc # "commit"]
    BY <1>4, <1>8 DEF Proceed
  <2>2. QED
    BY <1>1, <1>3, <2>1 DEF Request
<1>9. ASSUME NEW e \in Errors, Raise(r, e) PROVE req'[r].answer = req[r].answer
  <2>1. PICK done \in SUBSET EffectsOf(req[r].op, req[r].pc) :
          req'[r] = [req[r] EXCEPT !.pc = "raised", !.error = e, !.insert = FALSE,
                                   !.did = req[r].did \cup done]
    BY <1>4, <1>9 DEF Raise
  <2>2. QED
    BY <1>1, <2>1 DEF Request
<1>10. CASE Catch(r) \/ Return(r)
  <2>1. PICK code : req'[r] = [Answered(req[r], code) EXCEPT !.pc = "done"]
    BY <1>3, <1>4, <1>10 DEF Catch, Return
  <2>2. Answered(req[r], code).answer = req[r].answer /\ Answered(req[r], code) \in Request
    BY <1>1 DEF Answered, Request
  <2>3. QED
    BY <1>3, <2>1, <2>2 DEF Request
<1>11. QED
  BY <1>1, <1>3, <1>5, <1>6, <1>7, <1>8, <1>9, <1>10
  DEF CanActivate, Deny, GetProfile, Handler, TimeOut, At

\* A late result or error of a timed-out handler changes no answer, and of a request
\* answered otherwise nothing more takes effect, however the requests interleave.
THEOREM AnswersFinal == Spec => AnswerFinal
<1>1. ASSUME IInv, [Next]_vars, NEW r \in Running, req[r].answer # "none",
             req'[r] # Idle
      PROVE  /\ req'[r].answer = req[r].answer
             /\ req[r].answer # "REQUEST_TIMEOUT" => req'[r].did = req[r].did
  <2>1. r \in Reqs /\ req[r] # Idle
    BY <1>1 DEF Running
  <2>2. CASE req'[r] = req[r]
    BY <2>2
  <2>3. CASE req'[r] # req[r]
    <3>1. PICK s \in Reqs :
            \/ \E op \in Ops, e \in Emails : Receive(s, op, e)
            \/ \E role \in UserRole : CanActivate(s, role)
            \/ \E e \in GuardErrors : Deny(s, e)
            \/ Validate(s) \/ Refuse(s)
            \/ Handler(s) \/ Catch(s) \/ Return(s) \/ GetProfile(s)
            \/ TimeOut(s) \/ Forget(s)
      BY <1>1, <2>3 DEF Next, vars
    <3>2. s = r
      BY <1>1, <2>1, <2>3, <3>1
         DEF Receive, CanActivate, Deny, Validate, Refuse, Handler, Lookup, Create,
             Proceed, Raise, Catch, Return, GetProfile, TimeOut, Forget, Go, IInv, TypeOK
    <3>3. ~Forget(r) /\ \A op \in Ops, e \in Emails : ~Receive(r, op, e)
      BY <1>1, <2>1 DEF Forget, Receive, IInv, TypeOK
    <3>4. QED
      BY <1>1, <2>1, <3>1, <3>2, <3>3, AnswerKept
  <2>4. QED
    BY <2>2, <2>3
<1>2. IInv /\ [Next]_vars =>
        [\A r \in Running :
           LET q == req[r] IN
           q.answer # "none" /\ req'[r] # Idle =>
             /\ req'[r].answer = q.answer
             /\ q.answer # "REQUEST_TIMEOUT" => req'[r].did = q.did]_vars
  BY <1>1
<1>3. QED
  BY <1>2, Invariance, PTL DEF Spec, AnswerFinal
=============================================================================
