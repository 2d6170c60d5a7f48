------------------------------ MODULE EmailBus ------------------------------
(***************************************************************************)
(* The message bus and the mails: RabbitMqService, the RabbitMQ broker,    *)
(* EmailConsumer, EmailWorker and EmailService.                            *)
(*                                                                         *)
(* An event goes to the topic exchange lms_event_bus; one that no queue    *)
(* there takes goes on to the exchange fallback and its alert queue.  A    *)
(* queue holds a copy of the message until it is acknowledged or expires.  *)
(* golevelup's consumer calls the handler and then acknowledges; an        *)
(* exception ends in errorHandler, which here does nothing, so that the    *)
(* broker counts the message as delivered until the connection is gone.    *)
(*                                                                         *)
(* Queues are sets: copies are delivered and handlers finish in any order. *)
(* Connections are numbered by the connections lost before them.           *)
(***************************************************************************)
EXTENDS Integers, Sequences, FiniteSets

CONSTANTS
  Signups,     \* user-signup events that may be published
  Resends,     \* resend-otp events that may be published
  Expiration,  \* DEFAULT_EXPIRATION, in milliseconds
  Prefetch,    \* unacknowledged deliveries of one consumer
  Step,        \* bound: milliseconds of a tick of the clock
  MaxNow,      \* bound: the clock stops here
  MaxLosses    \* bound: connections lost and servers stopped

Msgs == Signups \cup Resends

ASSUME ExpirationAssumption == Expiration \in Nat \ {0}
ASSUME PrefetchAssumption   == Prefetch \in Nat \ {0}
ASSUME EventsAssumption     == Signups \cap Resends = {}
ASSUME BusBoundAssumption   == Step \in Nat \ {0} /\ MaxNow \in Nat /\ MaxLosses \in Nat

VARIABLES
  now,          \* the clock, in milliseconds
  up,           \* the server runs
  transporter,  \* ... and verified its SMTP transport when it started
  connected,    \* the server's connection to the broker is open
  losses,       \* connections lost so far
  bound,        \* broker: queues declared and bound, for good
  consuming,    \* broker: queues with a consumer on the connection
  pub,          \* time of publication of each event, or Never
  place,        \* broker: place[q][m], where the copy of m in queue q is
  tasks,        \* server: calls of the handlers that have not ended
  sent,         \* history: sent[m][c], mails about m sent for connection c
  lost,         \* history: events published into a broken connection
  early,        \* history: events published before the mail queue was bound
  skipped,      \* history: events handled without a transporter
  failed        \* history: events whose handler threw

vars == <<now, up, transporter, connected, losses, bound, consuming, pub,
          place, tasks, sent, lost, early, skipped, failed>>

server  == <<up, transporter>>
link    == <<connected, losses, consuming>>
history == <<lost, early, skipped, failed>>

Never == -1

Places == {"none", "queued", "handed", "acked", "expired"}

-----------------------------------------------------------------------------
\* Exchanges, keys and queues.

GenerateBindingKey(producer) == <<producer, "event", "#">>

GenerateRoutingKey(producer, event) == <<producer, "event", event>>

GenerateQueueName(consumer, producer) == <<consumer, producer, "event", "queue">>

\* A topic binding that ends in #: the words before it are those of the key.
Matches(key, binding) ==
  \A i \in 1..(Len(binding) - 1) : i <= Len(key) /\ key[i] = binding[i]

UserQueue  == GenerateQueueName("email", "user")
OrderQueue == GenerateQueueName("email", "order")
Alert      == <<"alert">>

MailQueues == {UserQueue, OrderQueue}
Queues     == MailQueues \cup {Alert}

BindingKey(q) == GenerateBindingKey(IF q = UserQueue THEN "user" ELSE "order")

EventName(m) == IF m \in Signups THEN "signup" ELSE "resend-otp"

\* The queues that get an event of the user module: those bound to its key,
\* else, by the alternate exchange, the alert queue.
Routed(m) ==
  LET taken == {q \in bound \cap MailQueues :
                  Matches(GenerateRoutingKey("user", EventName(m)), BindingKey(q))}
  IN IF taken # {} THEN taken ELSE bound \cap {Alert}

Conns == 0..MaxLosses

Init ==
  /\ now = 0
  /\ up = FALSE /\ transporter = FALSE
  /\ connected = FALSE /\ losses = 0 /\ consuming = {}
  /\ bound = {}
  /\ pub = [m \in Msgs |-> Never]
  /\ place = [q \in Queues |-> [m \in Msgs |-> "none"]]
  /\ tasks = {}
  /\ sent = [m \in Msgs |-> [c \in Conns |-> 0]]
  /\ lost = {} /\ early = {} /\ skipped = {} /\ failed = {}

-----------------------------------------------------------------------------
\* Starting and connecting.

\* EmailService.onModuleInit: createTransport gives no transporter when
\* verify() fails; the server goes on without one.
Start ==
  /\ ~up
  /\ up' = TRUE
  /\ transporter' \in BOOLEAN
  /\ UNCHANGED <<now, link, bound, pub, place, tasks, sent, history>>

\* wait: false: the connection comes in its own time, ...
Connect ==
  /\ up /\ ~connected
  /\ connected' = TRUE
  /\ UNCHANGED <<now, server, losses, consuming, bound, pub, place, tasks, sent, history>>

\* Mutant: the binding key is declared as the queue.
Subscribe_Key(q) ==
  /\ connected /\ q \notin consuming
  /\ bound' = bound \cup {BindingKey(q)}
  /\ consuming' = consuming \cup {q}
  /\ UNCHANGED <<now, server, connected, losses, pub, place, tasks, sent, history>>

\* ... and then each subscriber declares its queue, binds and consumes it.
Subscribe(q) ==
  /\ connected /\ q \notin consuming
  /\ bound' = bound \cup {q}
  /\ consuming' = consuming \cup {q}
  /\ UNCHANGED <<now, server, connected, losses, pub, place, tasks, sent, history>>

-----------------------------------------------------------------------------
\* publish: refused without a connection.

Publish(m) ==
  /\ up /\ connected
  /\ pub[m] = Never
  /\ pub' = [pub EXCEPT ![m] = now]
  /\ place' = [q \in Queues |->
       IF q \in Routed(m) THEN [place[q] EXCEPT ![m] = "queued"] ELSE place[q]]
  /\ early' = IF UserQueue \in bound THEN early ELSE early \cup {m}
  /\ UNCHANGED <<now, server, link, bound, tasks, sent, lost, skipped, failed>>

\* A message in its queue when its expiration is over is removed, unless it is
\* with a consumer.
Expire(q, m) ==
  /\ place[q][m] = "queued"
  /\ now >= pub[m] + Expiration
  /\ place' = [place EXCEPT ![q][m] = "expired"]
  /\ UNCHANGED <<now, server, link, bound, pub, tasks, sent, history>>

-----------------------------------------------------------------------------
\* Consuming.

Handed(q) == {m \in Msgs : place[q][m] = "handed"}

Task(q, m, stage) == [queue |-> q, msg |-> m, conn |-> losses, stage |-> stage]

\* Mutant: the window is one short.
Deliver_Short(q, m) ==
  /\ q \in consuming
  /\ place[q][m] = "queued"
  /\ now < pub[m] + Expiration
  /\ Cardinality(Handed(q)) + 1 < Prefetch
  /\ place' = [place EXCEPT ![q][m] = "handed"]
  /\ tasks' = tasks \cup {Task(q, m, "handling")}
  /\ UNCHANGED <<now, server, link, bound, pub, sent, history>>

\* The handlers of all the deliveries so far run beside each other.
Deliver(q, m) ==
  /\ q \in consuming
  /\ place[q][m] = "queued"
  /\ now < pub[m] + Expiration
  /\ Cardinality(Handed(q)) < Prefetch
  /\ place' = [place EXCEPT ![q][m] = "handed"]
  /\ tasks' = tasks \cup {Task(q, m, "handling")}
  /\ UNCHANGED <<now, server, link, bound, pub, sent, history>>

At(t, stage) == [t EXCEPT !.stage = stage]
Move(t, stage) == tasks' = (tasks \ {t}) \cup {At(t, stage)}
Sent(t) == sent' = [sent EXCEPT ![t.msg][t.conn] = @ + 1]

\* handleEmailEvents sends a mail for the two events it knows; alert only logs.
SendsMail(t) == t.queue # Alert /\ EventName(t.msg) \in {"signup", "resend-otp"}

\* The handler returns: the mail is accepted, or there is none to send, or no
\* transporter to send it with.
Handle(t) ==
  /\ t \in tasks /\ t.stage = "handling"
  /\ Move(t, "handled")
  /\ IF SendsMail(t) /\ transporter THEN Sent(t) ELSE UNCHANGED sent
  /\ skipped' = IF SendsMail(t) /\ ~transporter THEN skipped \cup {t.msg} ELSE skipped
  /\ UNCHANGED <<now, server, link, bound, pub, place, lost, early, failed>>

\* Mutant: an errorHandler that acknowledges.
Throw_Acks(t) ==
  /\ t \in tasks /\ t.stage = "handling" /\ SendsMail(t) /\ transporter
  /\ tasks' = tasks \ {t}
  /\ Sent(t) \/ UNCHANGED sent
  /\ failed' = failed \cup {t.msg}
  /\ place' = IF t.conn = losses /\ connected
              THEN [place EXCEPT ![t.queue][t.msg] = "acked"] ELSE place
  /\ UNCHANGED <<now, server, link, bound, pub, lost, early, skipped>>

\* Mutant: golevelup's own error behaviour, which requeues.
Throw_Requeues(t) ==
  /\ t \in tasks /\ t.stage = "handling" /\ SendsMail(t) /\ transporter
  /\ tasks' = tasks \ {t}
  /\ Sent(t) \/ UNCHANGED sent
  /\ failed' = failed \cup {t.msg}
  /\ place' = IF t.conn = losses /\ connected
              THEN [place EXCEPT ![t.queue][t.msg] = "queued"] ELSE place
  /\ UNCHANGED <<now, server, link, bound, pub, lost, early, skipped>>

\* sendMail rejects: the template cannot be read or rendered, or the SMTP server
\* refuses; it may have accepted the mail and its answer be lost.
Throw(t) ==
  /\ t \in tasks /\ t.stage = "handling" /\ SendsMail(t) /\ transporter
  /\ tasks' = tasks \ {t}
  /\ Sent(t) \/ UNCHANGED sent
  /\ failed' = failed \cup {t.msg}
  /\ UNCHANGED <<now, server, link, bound, pub, place, lost, early, skipped>>

\* ErrorHandlingInterceptor is global, so it times the handler out too: that is
\* an exception for the consumer, but sendMail goes on.
TimeOut(t) ==
  /\ t \in tasks /\ t.stage = "handling" /\ SendsMail(t) /\ transporter
  /\ Move(t, "abandoned")
  /\ failed' = failed \cup {t.msg}
  /\ UNCHANGED <<now, server, link, bound, pub, place, sent, lost, early, skipped>>

\* The mail of an abandoned handler is sent, or is not.
SendLate(t) ==
  /\ t \in tasks /\ t.stage = "abandoned"
  /\ tasks' = tasks \ {t}
  /\ Sent(t) \/ UNCHANGED sent
  /\ UNCHANGED <<now, server, link, bound, pub, place, history>>

\* channel.ack: on a channel that is gone it throws, into errorHandler.
Ack(t) ==
  /\ t \in tasks /\ t.stage = "handled"
  /\ tasks' = tasks \ {t}
  /\ IF connected /\ t.conn = losses
     THEN place' = [place EXCEPT ![t.queue][t.msg] = "acked"] /\ UNCHANGED failed
     ELSE failed' = failed \cup {t.msg} /\ UNCHANGED place
  /\ UNCHANGED <<now, server, link, bound, pub, sent, lost, early, skipped>>

-----------------------------------------------------------------------------
\* Losses.

\* The broker puts back what it had handed out.
Requeued ==
  [q \in Queues |-> [m \in Msgs |->
     IF place[q][m] = "handed" THEN "queued" ELSE place[q][m]]]

Cut ==
  /\ losses < MaxLosses
  /\ losses' = losses + 1
  /\ connected' = FALSE
  /\ consuming' = {}
  /\ place' = Requeued

\* The network fails, or the broker restarts (its queues are durable, its
\* messages persistent).  Handlers run on; what was just being published is lost.
Disconnect ==
  /\ connected
  /\ Cut
  /\ \/ UNCHANGED <<pub, lost>>
     \/ \E m \in Msgs : /\ pub[m] = Never
                        /\ pub' = [pub EXCEPT ![m] = now]
                        /\ lost' = lost \cup {m}
  /\ UNCHANGED <<now, server, bound, tasks, sent, early, skipped, failed>>

\* The server stops, with its handlers.
Crash ==
  /\ up
  /\ Cut
  /\ up' = FALSE /\ transporter' = FALSE
  /\ tasks' = {}
  /\ UNCHANGED <<now, bound, pub, sent, history>>

Tick ==
  /\ now + Step <= MaxNow
  /\ now' = now + Step
  /\ UNCHANGED <<server, link, bound, pub, place, tasks, sent, history>>

-----------------------------------------------------------------------------
Run(t) == Handle(t) \/ Throw(t) \/ TimeOut(t) \/ SendLate(t) \/ Ack(t)

Next ==
  \/ Start \/ Connect
  \/ \E q \in Queues : Subscribe(q)
  \/ \E m \in Msgs : Publish(m)
  \/ \E q \in Queues, m \in Msgs : Expire(q, m) \/ Deliver(q, m)
  \/ \E t \in tasks : Run(t)
  \/ Disconnect \/ Crash
  \/ Tick

Spec == Init /\ [][Next]_vars

\* Docker restarts the server and the broker, the connection manager connects
\* again, handlers end (the interceptor sees to that), and the broker delivers
\* or expires what it holds.  It is not said of which queue, message or handler:
\* each is delivered and handled a finite number of times.
FairSpec ==
  /\ Spec
  /\ WF_vars(Start) /\ WF_vars(Connect)
  /\ WF_vars(\E q \in Queues : Subscribe(q))
  /\ WF_vars(\E q \in Queues, m \in Msgs : Expire(q, m) \/ Deliver(q, m))
  /\ WF_vars(\E t \in tasks : t.stage # "abandoned" /\ Run(t))

-----------------------------------------------------------------------------
Stages == {"handling", "handled", "abandoned"}

TaskSet == [queue : Queues, msg : Msgs, conn : Conns, stage : Stages]

TypeOK ==
  /\ now \in Nat
  /\ up \in BOOLEAN /\ transporter \in BOOLEAN /\ connected \in BOOLEAN
  /\ losses \in Conns
  /\ bound \in SUBSET Queues /\ consuming \in SUBSET Queues
  /\ pub \in [Msgs -> Nat \cup {Never}]
  /\ place \in [Queues -> [Msgs -> Places]]
  /\ tasks \in SUBSET TaskSet
  /\ sent \in [Msgs -> [Conns -> Nat]]
  /\ lost \in SUBSET Msgs /\ early \in SUBSET Msgs
  /\ skipped \in SUBSET Msgs /\ failed \in SUBSET Msgs

Published == {m \in Msgs : pub[m] # Never}
Mailed(m) == \E c \in Conns : sent[m][c] > 0

\* publish and DefaultRabbitSubsribe: an event the broker took for the mail queue
\* never vanishes, whatever fails: its mail is sent, or the server that handled
\* it had no transporter, or it waits, or it expired waiting.
Accounted ==
  \A m \in Published \ (lost \cup early) : \E q \in MailQueues :
    \/ place[q][m] \in {"queued", "handed", "expired"}
    \/ place[q][m] = "acked" /\ (Mailed(m) \/ m \in skipped)

\* The consumer sends the mail of an event again only for another connection:
\* neither a failure after sending nor the second queue repeats it.
OneMailPerConnection == \A m \in Msgs, c \in Conns : sent[m][c] <= 1

\* errorHandler: deliveries that failed fill the consumer's window.
Stuck(q) == {m \in Handed(q) : \A t \in tasks :
               ~(t.queue = q /\ t.msg = m /\ t.conn = losses /\ t.stage # "abandoned")}

\* The consumer of a mail queue: every event there is handled in the end or
\* expires, unless Prefetch failed deliveries are in its way.
QueueServed ==
  \A m \in Msgs :
    place[UserQueue][m] = "queued" ~>
      \/ place[UserQueue][m] \in {"acked", "expired"}
      \/ m \in failed
      \/ Cardinality(Stuck(UserQueue)) >= Prefetch

\* The inductive invariant behind the two safety properties.

\* A call runs for a delivery of its connection, and one connection has one.
TaskOK(t) ==
  /\ t.conn <= losses /\ pub[t.msg] # Never
  /\ t.conn = losses => place[t.queue][t.msg] = "handed"
  /\ t.stage = "handling" => sent[t.msg][t.conn] = 0
  /\ t.stage = "abandoned" => sent[t.msg][t.conn] = 0
  /\ t.stage = "handled" /\ t.queue # Alert => Mailed(t.msg) \/ t.msg \in skipped
  /\ \A s \in tasks : s.msg = t.msg /\ s.conn = t.conn => s = t

\* A copy that waits has not been mailed for this connection.
CopyOK(q, m) ==
  /\ place[q][m] # "none" => pub[m] # Never
  /\ place[q][m] = "queued" => sent[m][losses] = 0
  /\ place[q][m] # "none" => \A p \in Queues \ {q} : place[p][m] = "none"

IInv ==
  /\ TypeOK
  /\ connected => up
  /\ consuming # {} => connected
  /\ up \/ tasks = {}
  /\ \A t \in tasks : TaskOK(t)
  /\ \A q \in Queues, m \in Msgs : CopyOK(q, m)
  /\ \A m \in Msgs, c \in Conns : c > losses \/ pub[m] = Never => sent[m][c] = 0
  /\ Accounted
  /\ OneMailPerConnection
=============================================================================
