--------------------------- MODULE RequestPipeline ---------------------------
(***************************************************************************)
(* What becomes of a request to the API: the guards of the resolvers, the  *)
(* global ErrorHandlingInterceptor and ValidationPipe, the handler, and    *)
(* the code the client is answered.                                        *)
(*                                                                         *)
(* Nest runs the guards first and outside the interceptor; inside it, the  *)
(* pipe and then the handler; after it and outside again, the resolver of  *)
(* the field profile of the user returned.  A handler is its awaits, down  *)
(* to what may be raised and what is done; its data are other modules'     *)
(* matter.                                                                 *)
(*                                                                         *)
(* An error is a record of its class and its code: GraphQLException,       *)
(* PrismaClientKnownRequestError, Nest's HttpException, or anything else.  *)
(***************************************************************************)
EXTENDS Integers, FiniteSets

CONSTANTS
  Reqs,    \* requests being served at one time
  Emails   \* emails that may be signed up

VARIABLES
  taken,   \* emails of the rows of User
  req      \* req[r]: the request

vars == <<taken, req>>

Ops == {"signup", "verifyOtp", "checkOtpToken", "resendOtp", "login",
        "me", "signout", "refresh", "healthReady"}

-----------------------------------------------------------------------------
\* Errors.

ApolloServerErrorCode ==
  {"NOT_FOUND", "INTERNAL_SERVER_ERROR", "GRAPHQL_PARSE_FAILED",
   "GRAPHQL_VALIDATION_FAILED", "PERSISTED_QUERY_NOT_FOUND",
   "PERSISTED_QUERY_NOT_SUPPORTED", "BAD_USER_INPUT",
   "OPERATION_RESOLUTION_FAILURE", "BAD_REQUEST", "CONFLICT",
   "TOO_MANY_REQUESTS", "UNAUTHORIZED", "UNAUTHENTICATED", "REQUEST_TIMEOUT"}

Error(kind, code) == [kind |-> kind, code |-> code]

NoError   == Error("none", "")
Own(code) == Error("graphql", code)
Prisma(p) == Error("prisma", p)
Http(s)   == Error("http", s)
Other     == Error("other", "")

\* new GraphQLException(message, code): a code it does not know is internal.
GraphQLException(code) ==
  Own(IF code \in ApolloServerErrorCode THEN code ELSE "INTERNAL_SERVER_ERROR")

\* classValidatorErrorsFactory takes the first child of the first error: arguments
\* in an input object have one, but those of signout are flat, and reading the
\* constraints of undefined is a TypeError.
ClassValidatorErrorsFactory(op) ==
  IF op = "signout" THEN Other ELSE GraphQLException("BAD_USER_INPUT")

ErrorCodesStatusMapping == [P2000 |-> "BAD_REQUEST", P2002 |-> "CONFLICT",
                            P2025 |-> "NOT_FOUND"]

\* Mutant: the code of any error is passed on as it is.
ConvertCommonError_Raw(e) == Own(e.code)

\* err.code || err.status: a GraphQLException has neither, its code being among
\* its extensions.
ConvertCommonError(e) == GraphQLException(IF e.kind = "graphql" THEN "" ELSE e.code)

\* On MySQL the target of a P2002 is the name of the index, a string, and
\* fields.join is a TypeError.
ConvertPrismaClientError(e) ==
  IF e.code \notin DOMAIN ErrorCodesStatusMapping THEN ConvertCommonError(e)
  ELSE IF e.code = "P2002" THEN Other
  ELSE GraphQLException(ErrorCodesStatusMapping[e.code])

\* Mutant: GraphQLException is not told from other errors.
CatchError_Common(e) ==
  IF e.kind = "prisma" THEN ConvertPrismaClientError(e) ELSE ConvertCommonError(e)

\* The interceptor's catchError.
CatchError(e) ==
  CASE e.kind = "prisma"  -> ConvertPrismaClientError(e)
    [] e.kind = "graphql" -> e
    [] OTHER              -> ConvertCommonError(e)

\* The driver gives the two HTTP errors that guards throw their Apollo codes;
\* formatError answers the code, or else INTERNAL_SERVER_ERROR.
FormatError(e) ==
  CASE e.kind = "graphql"     -> e.code
    [] e = Http("401")        -> "UNAUTHENTICATED"
    [] e = Http("403")        -> "FORBIDDEN"
    [] OTHER                  -> "INTERNAL_SERVER_ERROR"

-----------------------------------------------------------------------------
\* Guards and roles.

UserRole == {"ADMIN", "INSTRUCTOR", "STUDENT"}

\* Mutant: ROLE_ALL is a role of its own.
Roles_Plain(names) == names

\* The decorator: ROLE_ALL stands for every role.
Roles(names) == names \cup (IF "ROLE_ALL" \in names THEN UserRole ELSE {})

\* The guard each handler names; the public ones name none.
Guard(op) ==
  CASE op \in {"me", "signout"} -> "jwt"
    [] op = "refresh"           -> "jwt-refresh-token"
    [] OTHER                    -> "none"

\* The handlers of the jwt guard carry @Roles(ROLE_ALL), their class nothing.
CanActivateRoles(role) == role \in Roles({"ROLE_ALL"})

\* What passport and validate() throw: no JWT that verifies, a token not listed
\* or a user not active, or a store that fails.
GuardErrors == {Http("401"), Own("UNAUTHORIZED"), Other}

-----------------------------------------------------------------------------
\* The handlers: their awaits, what each may raise and what it does outside the
\* server.

Begin(op) ==
  CASE op = "signup"                -> "lookup"
    [] op \in {"signout", "refresh"} -> "write"
    [] op = "me"                    -> "return"
    [] OTHER                        -> "work"

\* Mutant: signup publishes after its transaction, as resendOtp does.
After_Late(op, pc) ==
  CASE pc = "lookup"  -> "create"
    [] pc = "create"  -> "commit"
    [] pc = "work"    -> IF op = "login" THEN "write"
                         ELSE IF op \in {"verifyOtp", "resendOtp"} THEN "commit"
                         ELSE "return"
    [] pc = "commit" /\ op \in {"signup", "resendOtp"} -> "publish"
    [] OTHER          -> "return"

\* signup publishes inside its transaction, resendOtp after its own.
After(op, pc) ==
  CASE pc = "lookup"                         -> "create"
    [] pc = "create"                         -> "publish"
    [] pc = "work" /\ op = "login"           -> "write"
    [] pc = "work" /\ op \in {"verifyOtp", "resendOtp"} -> "commit"
    [] pc = "publish" /\ op = "signup"       -> "commit"
    [] pc = "commit" /\ op = "resendOtp"     -> "publish"
    [] OTHER                                 -> "return"

\* The access counted in Redis, which no rollback undoes, the event published,
\* the transaction committed, the whitelist written.
Effects == {"count", "publish", "commit", "write"}

\* What an await does: renewOtp is in signup's create and in resendOtp's work.
EffectsOf(op, pc) ==
  IF <<op, pc>> \in {<<"signup", "create">>, <<"resendOtp", "work">>} THEN {"count"}
  ELSE {pc} \cap Effects

\* GraphQLExceptions of the services and resolvers, by operation.  That of verifyOtp's
\* resolver follows the COMMIT of a transaction that has written nothing.
OwnErrors(op) ==
  CASE op \in {"signup", "resendOtp"} -> {"BAD_REQUEST", "TOO_MANY_REQUESTS"}
    [] op \in {"verifyOtp", "login"}  -> {"BAD_REQUEST"}
    [] op = "healthReady"             -> {"INTERNAL_SERVER_ERROR"}
    [] OTHER                          -> {}

\* Prisma's errors: of a statement, a row gone (P2025); of any command, a deadlock
\* or a transaction timed out.
PrismaErrors(op, pc) ==
  IF op \notin {"signup", "verifyOtp", "resendOtp"} THEN {}
  ELSE {Prisma("P2034"), Prisma("P2028")} \cup
       (IF pc = "commit" THEN {} ELSE {Prisma("P2025")})

\* Mutant: what the services check is checked after they have written, too.
Raises_Late(op, pc) == {Other} \cup {Own(c) : c \in OwnErrors(op)}

\* Redis, MySQL, the broker and jwt fail with errors of their own; terminus
\* answers 503 for an indicator that is down.
Raises(op, pc) ==
  {Other} \cup (IF op = "healthReady" THEN {Http("503")} ELSE {})
  \cup (IF pc \in {"lookup", "create", "work"} THEN {Own(c) : c \in OwnErrors(op)} ELSE {})
  \cup (IF pc \in {"lookup", "create", "work", "commit"} THEN PrismaErrors(op, pc) ELSE {})

\* The operations that return a User, whose profile the client may ask for.
ReturnsUser == {"me", "verifyOtp"}

-----------------------------------------------------------------------------
Idle == [pc |-> "idle"]

Codes == ApolloServerErrorCode \cup {"FORBIDDEN"}

PCs == {"guard", "pipe", "lookup", "create", "publish", "work", "commit",
        "write", "return", "profile", "raised", "done"}

Errors == [kind : {"none", "graphql", "prisma", "http", "other"},
           code : Codes \cup {"", "P2025", "P2034", "P2028", "P2002",
                              "401", "403", "503"}]

Request ==
  [pc      : PCs,
   op      : Ops,
   email   : Emails,          \* signup: the email
   invalid : BOOLEAN,         \* the pipe refused the arguments
   seen    : BOOLEAN,         \* signup: findUserByEmail found a row
   insert  : BOOLEAN,         \* signup, uncommitted: the user inserted
   error   : Errors,          \* what was raised
   did     : SUBSET Effects,  \* what took effect of the handler
   answer  : Codes \cup {"none", "OK"}]

Init ==
  /\ taken = {}
  /\ req = [r \in Reqs |-> Idle]

Running == {r \in Reqs : req[r] # Idle}
At(r, pc) == req[r].pc = pc
Go(r, pc) == req' = [req EXCEPT ![r].pc = pc]

\* Mutant: the last answer is.
Answered_Last(q, code) == [q EXCEPT !.answer = code]

\* The first answer is the one the client gets.
Answered(q, code) == [q EXCEPT !.answer = IF q.answer = "none" THEN code ELSE q.answer]

Receive(r, op, e) ==
  /\ req[r] = Idle
  /\ req' = [req EXCEPT ![r] =
       [pc |-> IF Guard(op) = "none" THEN "pipe" ELSE "guard", op |-> op, email |-> e,
        invalid |-> FALSE, seen |-> FALSE, insert |-> FALSE, error |-> NoError,
        did |-> {}, answer |-> "none"]]
  /\ UNCHANGED taken

\* canActivate: the strategy accepts the bearer, whose role is role; a refresh
\* is not asked for roles.
CanActivate(r, role) ==
  /\ At(r, "guard")
  /\ IF Guard(req[r].op) = "jwt" /\ ~CanActivateRoles(role)
     THEN req' = [req EXCEPT ![r].pc = "done", ![r].error = Http("403"),
                    ![r].answer = FormatError(Http("403"))]
     ELSE Go(r, "pipe")
  /\ UNCHANGED taken

\* What a guard throws goes past the interceptor.
Deny(r, e) ==
  /\ At(r, "guard")
  /\ req' = [req EXCEPT ![r].pc = "done", ![r].error = e, ![r].answer = FormatError(e)]
  /\ UNCHANGED taken

\* ValidationPipe: the arguments are as their class says, ...
Validate(r) ==
  /\ At(r, "pipe")
  /\ Go(r, Begin(req[r].op))
  /\ UNCHANGED taken

\* ... or they are not.
Refuse(r) ==
  /\ At(r, "pipe")
  /\ req[r].op \notin {"me", "refresh", "healthReady"}
  /\ req' = [req EXCEPT ![r].pc = "raised", ![r].invalid = TRUE,
               ![r].error = ClassValidatorErrorsFactory(req[r].op)]
  /\ UNCHANGED taken

\* signup: findUserByEmail.
Lookup(r) ==
  /\ At(r, "lookup")
  /\ req' = [req EXCEPT ![r].pc = "create", ![r].seen = req[r].email \in taken]
  /\ UNCHANGED taken

\* signupNewUser: the INSERT waits for another one of the email, and fails once
\* that is committed; then renewOtp.
Create(r) ==
  /\ At(r, "create") /\ ~req[r].seen
  /\ \A s \in Running \ {r} : ~(req[s].insert /\ req[s].email = req[r].email)
  /\ req' = IF req[r].email \in taken
            THEN [req EXCEPT ![r].pc = "raised", ![r].error = Prisma("P2002")]
            ELSE [req EXCEPT ![r].pc = After("signup", "create"), ![r].insert = TRUE,
                    ![r].did = @ \cup EffectsOf("signup", "create")]
  /\ UNCHANGED taken

\* Any other await of a handler.
Proceed(r) ==
  /\ \/ req[r].pc \in {"publish", "work", "commit", "write"}
     \/ At(r, "create") /\ req[r].seen
  /\ req' = [req EXCEPT ![r].pc = After(req[r].op, req[r].pc),
               ![r].did = @ \cup EffectsOf(req[r].op, req[r].pc),
               ![r].insert = @ /\ req[r].pc # "commit"]
  /\ taken' = IF At(r, "commit") /\ req[r].insert
              THEN taken \cup {req[r].email} ELSE taken

\* It throws, and a transaction rolls back.  Commands before the one that fails
\* have been carried out, and that one too when only its reply was lost, be it
\* COMMIT; a deadlock has rolled back.
Raise(r, e) ==
  /\ req[r].pc \in {"lookup", "create", "publish", "work", "commit", "write"}
  /\ e \in Raises(req[r].op, req[r].pc)
  /\ \E done \in SUBSET EffectsOf(req[r].op, req[r].pc) :
       /\ e = Prisma("P2034") => "commit" \notin done
       /\ req' = [req EXCEPT ![r].pc = "raised", ![r].error = e,
                    ![r].insert = FALSE, ![r].did = @ \cup done]
       /\ taken' = IF "commit" \in done /\ req[r].insert
                   THEN taken \cup {req[r].email} ELSE taken

Catch(r) ==
  /\ At(r, "raised")
  /\ req' = [req EXCEPT ![r] =
       [Answered(@, FormatError(CatchError(req[r].error))) EXCEPT !.pc = "done"]]
  /\ UNCHANGED taken

\* The interceptor passes the result on.  Unless the time-out was answered, the
\* profile of a user is resolved if the client asks for it.
Return(r) ==
  /\ At(r, "return")
  /\ \/ req' = [req EXCEPT ![r] = [Answered(@, "OK") EXCEPT !.pc = "done"]]
     \/ req[r].op \in ReturnsUser /\ req[r].answer = "none" /\ Go(r, "profile")
  /\ UNCHANGED taken

\* UserResolver: the row is found, or the query fails, past the interceptor.
GetProfile(r) ==
  /\ At(r, "profile")
  /\ \E e \in {NoError, Other} :
       req' = [req EXCEPT ![r] =
         [Answered(@, IF e = NoError THEN "OK" ELSE FormatError(e))
            EXCEPT !.pc = "done", !.error = e]]
  /\ UNCHANGED taken

\* Mutant: no time-out.
TimeOut_Never(r) == FALSE /\ UNCHANGED vars

\* timeout: the client is answered, the handler goes on.
TimeOut(r) ==
  /\ req[r].pc \notin {"idle", "guard", "profile", "done"}
  /\ req[r].answer = "none"
  /\ req' = [req EXCEPT ![r].answer =
               FormatError(CatchError(GraphQLException("REQUEST_TIMEOUT")))]
  /\ UNCHANGED taken

\* The request is over.
Forget(r) ==
  /\ At(r, "done")
  /\ req' = [req EXCEPT ![r] = Idle]
  /\ UNCHANGED taken

-----------------------------------------------------------------------------
Handler(r) ==
  \/ Lookup(r) \/ Create(r) \/ Proceed(r)
  \/ \E e \in Errors : Raise(r, e)

Next ==
  \E r \in Reqs :
    \/ \E op \in Ops, e \in Emails : Receive(r, op, e)
    \/ \E role \in UserRole : CanActivate(r, role)
    \/ \E e \in GuardErrors : Deny(r, e)
    \/ Validate(r) \/ Refuse(r)
    \/ Handler(r) \/ Catch(r) \/ Return(r) \/ GetProfile(r)
    \/ TimeOut(r)
    \/ Forget(r)

Spec == Init /\ [][Next]_vars

\* The interceptor's timer fires and its operators run.  Nothing is assumed of
\* the guards and the handlers, which wait for Redis, MySQL and the broker.
FairSpec == Spec /\ \A r \in Reqs : WF_vars(Catch(r)) /\ WF_vars(TimeOut(r))

-----------------------------------------------------------------------------
TypeOK ==
  /\ taken \in SUBSET Emails
  /\ req \in [Reqs -> Request \cup {Idle}]

\* GraphQLError.ts and role.decorator.ts: whatever a guard, the pipe or a handler
\* throws, the code answered is one the API declares.
KnownCodes ==
  \A r \in Running : req[r].answer \in ApolloServerErrorCode \cup {"none", "OK"}

\* error-handling.interceptor.ts: an error the services chose reaches the client.
OwnErrorsKept ==
  \A r \in Running :
    LET q == req[r] IN
    q.pc = "done" /\ q.error.kind = "graphql" =>
      q.answer = q.error.code \/ q.answer = "REQUEST_TIMEOUT"

\* What an operation has done when it succeeds.
Promised(op) ==
  CASE op \in {"signup", "resendOtp"}          -> {"count", "publish", "commit"}
    [] op = "verifyOtp"                        -> {"commit"}
    [] op \in {"login", "signout", "refresh"}  -> {"write"}
    [] OTHER                                   -> {}

\* The codes that tell a client what is wrong with its request.
Refusals == Codes \ {"INTERNAL_SERVER_ERROR", "REQUEST_TIMEOUT"}

\* AuthService: a client told that all went well has its mail on the way and its
\* rows committed, and of a request refused with a reason no mail is on the way
\* and nothing is committed or listed: only its access may have been counted.  An
\* INTERNAL_SERVER_ERROR tells nothing, as after a COMMIT whose reply was lost, an
\* event that could not be published or a profile that could not be read.
AnswerTruthful ==
  \A r \in Running :
    LET q == req[r] IN
    /\ q.answer = "OK" => q.did = Promised(q.op)
    /\ q.answer \in Refusals => q.did \subseteq {"count"}

\* error-handling.interceptor.ts, line 24: the handler that was timed out goes on,
\* but its late result changes no answer; after any other answer nothing of the
\* request takes effect any more.
AnswerFinal ==
  [][\A r \in Running :
       LET q == req[r] IN
       q.answer # "none" /\ req'[r] # Idle =>
         /\ req'[r].answer = q.answer
         /\ q.answer # "REQUEST_TIMEOUT" => req'[r].did = q.did]_vars

\* The time-out: whatever hangs in the pipe or the handler, a client is answered,
\* or the handler has returned and the request waits for a profile.  Neither a
\* guard nor getProfile is timed out.
HandlerAnswered ==
  \A r \in Reqs : req[r].pc \notin {"idle", "guard", "profile"} ~>
                    (req[r] = Idle \/ req[r].answer # "none" \/ At(r, "profile"))

\* format-validation-error.ts and error-handling.interceptor.ts: invalid arguments
\* are answered BAD_USER_INPUT ('Validation failed!'), and a "Unique Key Constraint
\* Violation Error" CONFLICT.
ErrorsTranslated ==
  \A r \in Running :
    LET q == req[r] IN
    q.pc = "done" /\ q.answer # "REQUEST_TIMEOUT" =>
      /\ q.invalid => q.answer = "BAD_USER_INPUT"
      /\ q.error = Prisma("P2002") => q.answer = "CONFLICT"

\* The inductive invariant behind the three: what a request has done and may be
\* answered is known from the place it has reached.
StepsOf(op) ==
  CASE op = "signup"                        -> {"lookup", "create", "publish", "commit"}
    [] op = "resendOtp"                     -> {"work", "commit", "publish"}
    [] op = "verifyOtp"                     -> {"work", "commit"}
    [] op = "login"                         -> {"work", "write"}
    [] op \in {"signout", "refresh"}        -> {"write"}
    [] op \in {"checkOtpToken", "healthReady"} -> {"work"}
    [] OTHER                                -> {}

DoneBefore(op, pc) ==
  CASE pc \in {"return", "profile"}           -> Promised(op)
    [] op = "signup" /\ pc = "publish"        -> {"count"}
    [] op = "signup" /\ pc = "commit"         -> {"count", "publish"}
    [] op = "resendOtp" /\ pc = "commit"      -> {"count"}
    [] op = "resendOtp" /\ pc = "publish"     -> {"count", "commit"}
    [] OTHER                                  -> {}

RequestOK(q) ==
  /\ q.pc \in {"guard", "pipe", "return", "profile", "raised", "done"} \cup StepsOf(q.op)
  /\ q.error.kind = "graphql" => q.error.code \in ApolloServerErrorCode
  /\ q.answer = "none" \/ q.pc \notin {"guard", "profile"}
  /\ q.pc = "raised" => q.error # NoError
  /\ q.pc \notin {"done", "raised"} => q.error = NoError /\ q.did = DoneBefore(q.op, q.pc)
  /\ q.pc # "done" => q.answer \in {"none", "REQUEST_TIMEOUT"}
  /\ q.pc = "raised" => q.did \subseteq {"count"}
                        \/ FormatError(CatchError(q.error)) \notin Refusals

IInv ==
  /\ TypeOK
  /\ \A r \in Running : RequestOK(req[r])
  /\ KnownCodes /\ OwnErrorsKept /\ AnswerTruthful
=============================================================================
