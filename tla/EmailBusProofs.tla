--------------------------- MODULE EmailBusProofs ---------------------------
(* The safety properties of EmailBus, for all events, bounds and windows.  *)
EXTENDS EmailBus, TLAPS

-----------------------------------------------------------------------------
\* Routing.

\* The three queues have different names.
LEMMA QueuesDiffer ==
  /\ UserQueue # OrderQueue /\ UserQueue # Alert /\ OrderQueue # Alert
  /\ Queues = {UserQueue, OrderQueue, Alert}
  /\ MailQueues = {UserQueue, OrderQueue}
<1>1. UserQueue[2] = "user" /\ OrderQueue[2] = "order"
  BY DEF UserQueue, OrderQueue, GenerateQueueName
<1>2. Len(UserQueue) = 4 /\ Len(OrderQueue) = 4 /\ Len(Alert) = 1
  BY DEF UserQueue, OrderQueue, Alert, GenerateQueueName
<1>3. QED
  BY <1>1, <1>2 DEF Queues, MailQueues

\* An event of the user module matches the binding of the user queue, not that
\* of the order queue.
LEMMA UserBinding ==
  ASSUME NEW e
  PROVE  /\ Matches(GenerateRoutingKey("user", e), BindingKey(UserQueue))
         /\ ~Matches(GenerateRoutingKey("user", e), BindingKey(OrderQueue))
<1>1. BindingKey(UserQueue) = <<"user", "event", "#">>
  BY DEF BindingKey, GenerateBindingKey
<1>2. BindingKey(OrderQueue) = <<"order", "event", "#">>
  BY QueuesDiffer DEF BindingKey, GenerateBindingKey
<1>3. GenerateRoutingKey("user", e) = <<"user", "event", e>>
  BY DEF GenerateRoutingKey
<1>4. Matches(<<"user", "event", e>>, <<"user", "event", "#">>)
  BY DEF Matches
<1>5. ~Matches(<<"user", "event", e>>, <<"order", "event", "#">>)
  <2>1. 1 \in 1..(Len(<<"order", "event", "#">>) - 1)
    OBVIOUS
  <2>2. <<"user", "event", e>>[1] # <<"order", "event", "#">>[1]
    OBVIOUS
  <2>3. QED
    BY <2>1, <2>2 DEF Matches
<1>6. QED
  BY <1>1, <1>2, <1>3, <1>4, <1>5

\* Wherever an event goes, it is one queue; the user queue, once it is bound.
LEMMA RoutedToOne ==
  ASSUME NEW m \in Msgs, bound \in SUBSET Queues
  PROVE  /\ Routed(m) \in SUBSET Queues
         /\ \A p, q \in Routed(m) : p = q
         /\ UserQueue \in bound => UserQueue \in Routed(m)
<1> DEFINE taken == {q \in bound \cap MailQueues :
                  Matches(GenerateRoutingKey("user", EventName(m)), BindingKey(q))}
<1>2. taken = bound \cap {UserQueue}
  BY UserBinding, QueuesDiffer
<1>3. Routed(m) = IF taken # {} THEN taken ELSE bound \cap {Alert}
  BY DEF Routed
<1> HIDE DEF taken
<1>4. QED
  BY <1>2, <1>3, QueuesDiffer

-----------------------------------------------------------------------------
\* The initial states.

LEMMA InitIInv == Init => IInv
<1> SUFFICES ASSUME Init PROVE IInv
  OBVIOUS
<1> USE DEF Init
<1>1. TypeOK
  <2>1. losses \in Conns
    BY BusBoundAssumption DEF Conns
  <2>2. pub \in [Msgs -> Nat \cup {Never}]
    OBVIOUS
  <2>3. place \in [Queues -> [Msgs -> Places]]
    BY DEF Places
  <2>4. sent \in [Msgs -> [Conns -> Nat]]
    OBVIOUS
  <2>5. QED
    BY <2>1, <2>2, <2>3, <2>4 DEF TypeOK
<1>2. \A q \in Queues, m \in Msgs : CopyOK(q, m)
  BY DEF CopyOK
<1>3. Accounted
  BY DEF Accounted, Published
<1>4. OneMailPerConnection
  BY DEF OneMailPerConnection
<1>5. QED
  BY <1>1, <1>2, <1>3, <1>4 DEF IInv

-----------------------------------------------------------------------------
\* TypeOK is inductive.

LEMMA TaskType ==
  ASSUME TypeOK, NEW t \in tasks
  PROVE  /\ t.queue \in Queues /\ t.msg \in Msgs /\ t.conn \in Conns
         /\ t.stage \in Stages /\ t \in TaskSet
  BY DEF TypeOK, TaskSet

LEMMA MoveType ==
  ASSUME TypeOK, NEW t \in tasks, NEW s \in Stages, Move(t, s)
  PROVE  tasks' \in SUBSET TaskSet
<1>1. At(t, s) \in TaskSet
  BY TaskType DEF At, TaskSet
<1>2. QED
  BY <1>1 DEF Move, TypeOK

LEMMA SentType ==
  ASSUME TypeOK, NEW t \in tasks, Sent(t) \/ UNCHANGED sent
  PROVE  sent' \in [Msgs -> [Conns -> Nat]]
<1>1. sent \in [Msgs -> [Conns -> Nat]] /\ t.msg \in Msgs /\ t.conn \in Conns
  BY TaskType DEF TypeOK
<1>2. CASE UNCHANGED sent
  BY <1>1, <1>2
<1>3. CASE Sent(t)
  <2>1. sent[t.msg][t.conn] + 1 \in Nat
    BY <1>1
  <2>2. [sent[t.msg] EXCEPT ![t.conn] = @ + 1] \in [Conns -> Nat]
    BY <1>1, <2>1
  <2>3. sent' = [sent EXCEPT ![t.msg] = [sent[t.msg] EXCEPT ![t.conn] = @ + 1]]
    BY <1>3 DEF Sent
  <2>4. QED
    BY <1>1, <2>2, <2>3
<1>4. QED
  BY <1>2, <1>3

LEMMA PlaceType ==
  ASSUME TypeOK, NEW q \in Queues, NEW m \in Msgs, NEW w \in Places,
         place' = [place EXCEPT ![q][m] = w] \/ UNCHANGED place
  PROVE  place' \in [Queues -> [Msgs -> Places]]
<1>1. place \in [Queues -> [Msgs -> Places]]
  BY DEF TypeOK
<1>2. [place[q] EXCEPT ![m] = w] \in [Msgs -> Places]
  BY <1>1
<1>3. [place EXCEPT ![q][m] = w] = [place EXCEPT ![q] = [place[q] EXCEPT ![m] = w]]
  OBVIOUS
<1>4. QED
  BY <1>1, <1>2, <1>3

LEMMA CutType ==
  ASSUME TypeOK, Cut
  PROVE  /\ losses' \in Conns /\ losses' = losses + 1
         /\ place' \in [Queues -> [Msgs -> Places]]
<1>1. losses' \in Conns /\ losses' = losses + 1
  BY BusBoundAssumption DEF TypeOK, Cut, Conns
<1>2. Requeued \in [Queues -> [Msgs -> Places]]
  BY DEF TypeOK, Requeued, Places
<1>3. QED
  BY <1>1, <1>2 DEF Cut

LEMMA TypeStep == TypeOK /\ [Next]_vars => TypeOK'
<1> SUFFICES ASSUME TypeOK, [Next]_vars PROVE TypeOK'
  OBVIOUS
<1> USE DEF server, link, history
<1>1. CASE Start
  BY <1>1 DEF Start, TypeOK
<1>2. CASE Connect
  BY <1>2 DEF Connect, TypeOK
<1>3. ASSUME NEW q \in Queues, Subscribe(q) PROVE TypeOK'
  BY <1>3 DEF Subscribe, TypeOK
<1>4. ASSUME NEW m \in Msgs, Publish(m) PROVE TypeOK'
  <2>1. pub' \in [Msgs -> Nat \cup {Never}]
    BY <1>4 DEF Publish, TypeOK
  <2>2. place' \in [Queues -> [Msgs -> Places]]
    <3>1. "queued" \in Places
      BY DEF Places
    <3>2. QED
      BY <1>4, <3>1 DEF Publish, TypeOK
  <2>3. early' \in SUBSET Msgs
    BY <1>4 DEF Publish, TypeOK
  <2>4. QED
    BY <1>4, <2>1, <2>2, <2>3 DEF Publish, TypeOK
<1>5. ASSUME NEW q \in Queues, NEW m \in Msgs, Expire(q, m) PROVE TypeOK'
  <2>1. place' \in [Queues -> [Msgs -> Places]]
    BY <1>5, PlaceType DEF Expire, Places
  <2>2. QED
    BY <1>5, <2>1 DEF Expire, TypeOK
<1>6. ASSUME NEW q \in Queues, NEW m \in Msgs, Deliver(q, m) PROVE TypeOK'
  <2>1. place' \in [Queues -> [Msgs -> Places]]
    BY <1>6, PlaceType DEF Deliver, Places
  <2>2. Task(q, m, "handling") \in TaskSet
    BY DEF Task, TaskSet, Stages, TypeOK
  <2>3. QED
    BY <1>6, <2>1, <2>2 DEF Deliver, TypeOK
<1>7. ASSUME NEW t \in tasks, Run(t) PROVE TypeOK'
  <2>1. CASE Handle(t)
    <3>1. tasks' \in SUBSET TaskSet
      BY <2>1, MoveType DEF Handle, Stages
    <3>2. sent' \in [Msgs -> [Conns -> Nat]]
      BY <2>1, SentType DEF Handle
    <3>3. skipped' \in SUBSET Msgs
      BY <2>1, TaskType DEF Handle, TypeOK
    <3>4. QED
      BY <2>1, <3>1, <3>2, <3>3 DEF Handle, TypeOK
  <2>2. CASE Throw(t)
    <3>1. sent' \in [Msgs -> [Conns -> Nat]]
      BY <2>2, SentType DEF Throw
    <3>2. failed' \in SUBSET Msgs /\ tasks' \in SUBSET TaskSet
      BY <2>2, TaskType DEF Throw, TypeOK
    <3>3. QED
      BY <2>2, <3>1, <3>2 DEF Throw, TypeOK
  <2>3. CASE TimeOut(t)
    <3>1. tasks' \in SUBSET TaskSet
      BY <2>3, MoveType DEF TimeOut, Stages
    <3>2. failed' \in SUBSET Msgs
      BY <2>3, TaskType DEF TimeOut, TypeOK
    <3>3. QED
      BY <2>3, <3>1, <3>2 DEF TimeOut, TypeOK
  <2>4. CASE SendLate(t)
    <3>1. sent' \in [Msgs -> [Conns -> Nat]]
      BY <2>4, SentType DEF SendLate
    <3>2. QED
      BY <2>4, <3>1 DEF SendLate, TypeOK
  <2>5. CASE Ack(t)
    <3>1. place' \in [Queues -> [Msgs -> Places]]
      BY <2>5, PlaceType, TaskType DEF Ack, Places
    <3>2. failed' \in SUBSET Msgs
      BY <2>5, TaskType DEF Ack, TypeOK
    <3>3. QED
      BY <2>5, <3>1, <3>2 DEF Ack, TypeOK
  <2>6. QED
    BY <1>7, <2>1, <2>2, <2>3, <2>4, <2>5 DEF Run
<1>8. CASE Disconnect
  <2>1. /\ losses' \in Conns
        /\ place' \in [Queues -> [Msgs -> Places]]
    BY <1>8, CutType DEF Disconnect
  <2>2. pub' \in [Msgs -> Nat \cup {Never}] /\ lost' \in SUBSET Msgs
    BY <1>8 DEF Disconnect, TypeOK
  <2>3. QED
    BY <1>8, <2>1, <2>2 DEF Disconnect, Cut, TypeOK
<1>9. CASE Crash
  <2>1. /\ losses' \in Conns
        /\ place' \in [Queues -> [Msgs -> Places]]
    BY <1>9, CutType DEF Crash
  <2>2. QED
    BY <1>9, <2>1 DEF Crash, Cut, TypeOK
<1>10. CASE Tick
  BY <1>10, BusBoundAssumption DEF Tick, TypeOK
<1>11. CASE UNCHANGED vars
  BY <1>11 DEF vars, TypeOK
<1>12. QED
  BY <1>1, <1>2, <1>3, <1>4, <1>5, <1>6, <1>7, <1>8, <1>9, <1>10, <1>11 DEF Next

\* The variables keep their types (all of the bus, the consumer and the mailer).
THEOREM TypeCorrect == Spec => []TypeOK
<1>1. Init => TypeOK
  BY InitIInv DEF IInv
<1>2. QED
  BY <1>1, TypeStep, PTL DEF Spec

-----------------------------------------------------------------------------
\* IInv is inductive.  Its parts about handlers and copies, one lemma for each
\* kind of step.

Calls  == \A t \in tasks : TaskOK(t)
Copies == \A q \in Queues, m \in Msgs : CopyOK(q, m)
Unused == \A m \in Msgs, c \in Conns :
            c > losses \/ pub[m] = Never => sent[m][c] = 0

\* Sending for a call counts one mail, for its event and connection only.
LEMMA SentOne ==
  ASSUME TypeOK, NEW t \in tasks, Sent(t)
  PROVE  /\ sent'[t.msg][t.conn] = sent[t.msg][t.conn] + 1
         /\ \A m \in Msgs, c \in Conns :
              m # t.msg \/ c # t.conn => sent'[m][c] = sent[m][c]
<1>1. sent \in [Msgs -> [Conns -> Nat]] /\ t.msg \in Msgs /\ t.conn \in Conns
  BY TaskType DEF TypeOK
<1>2. sent' = [sent EXCEPT ![t.msg] = [sent[t.msg] EXCEPT ![t.conn] = @ + 1]]
  BY DEF Sent
<1>3. QED
  BY <1>1, <1>2

LEMMA StartLink ==
  ASSUME IInv, Start \/ Connect \/ Tick \/ (\E q \in Queues : Subscribe(q))
  PROVE  IInv'
<1> USE DEF server, link, history
<1>1. TypeOK'
  BY TypeStep DEF IInv, Next
<1>2. UNCHANGED <<pub, place, tasks, sent, lost, early, skipped, losses>>
  BY DEF Start, Connect, Tick, Subscribe
<1>3. connected' => up'
  BY DEF IInv, Start, Connect, Tick, Subscribe
<1>4. up' \/ tasks' = {}
  BY <1>2 DEF IInv, Start, Connect, Tick, Subscribe
<1>5. Calls'
  BY <1>2 DEF IInv, Calls, TaskOK, Mailed
<1>6. Copies'
  BY <1>2 DEF IInv, Copies, CopyOK
<1>7. Unused'
  BY <1>2 DEF IInv, Unused
<1>8. Accounted'
  BY <1>2 DEF IInv, Accounted, Published, Mailed
<1>9. OneMailPerConnection'
  BY <1>2 DEF IInv, OneMailPerConnection
<1>10. consuming' # {} => connected'
  BY DEF IInv, Start, Connect, Tick, Subscribe
<1>11. QED
  BY <1>1, <1>3, <1>4, <1>5, <1>6, <1>7, <1>8, <1>9, <1>10
  DEF IInv, Calls, Copies, Unused

LEMMA PublishStep ==
  ASSUME IInv, NEW m \in Msgs, Publish(m)
  PROVE  IInv'
<1> USE DEF server, link, history
<1>1. TypeOK' /\ TypeOK
  BY TypeStep DEF IInv, Next
<1>2. /\ UNCHANGED <<up, connected, consuming, losses, tasks, sent, lost, skipped>>
      /\ pub[m] = Never
      /\ pub' = [pub EXCEPT ![m] = now]
  BY DEF Publish
<1>3. /\ Routed(m) \in SUBSET Queues
      /\ \A p, q \in Routed(m) : p = q
      /\ UserQueue \in bound => UserQueue \in Routed(m)
  BY <1>1, RoutedToOne DEF TypeOK
<1>4. /\ \A q \in Queues, n \in Msgs : n # m => place'[q][n] = place[q][n]
      /\ \A q \in Queues : place[q][m] = "none"
      /\ \A q \in Queues : place'[q][m] = IF q \in Routed(m) THEN "queued" ELSE "none"
  <2>1. \A q \in Queues : place[q] \in [Msgs -> Places]
    BY <1>1 DEF TypeOK
  <2>2. \A q \in Queues : place[q][m] = "none"
    BY <1>2 DEF IInv, CopyOK
  <2>3. QED
    BY <2>1, <2>2 DEF Publish
<1>5. pub'[m] # Never /\ \A n \in Msgs : n # m => pub'[n] = pub[n]
  BY <1>1, <1>2 DEF TypeOK, Never
<1>6. \A c \in Conns : sent[m][c] = 0
  BY <1>2 DEF IInv
<1>7. Calls'
  <2> SUFFICES ASSUME NEW t \in tasks PROVE TaskOK(t)'
    BY <1>2 DEF Calls
  <2>1. TaskOK(t) /\ t.queue \in Queues /\ t.msg \in Msgs
    BY <1>1, TaskType DEF IInv
  <2>2. t.msg # m
    BY <1>2, <2>1 DEF TaskOK
  <2>3. QED
    BY <1>2, <1>4, <1>5, <2>1, <2>2 DEF TaskOK, Mailed
<1>8. Copies'
  <2> SUFFICES ASSUME NEW q \in Queues, NEW n \in Msgs PROVE CopyOK(q, n)'
    BY DEF Copies
  <2>1. CASE n = m
    BY <1>1, <1>2, <1>3, <1>4, <1>5, <1>6, <2>1 DEF CopyOK, TypeOK
  <2>2. CASE n # m
    <3>1. CopyOK(q, n)
      BY DEF IInv
    <3>2. QED
      BY <1>2, <1>4, <1>5, <2>2, <3>1 DEF CopyOK
  <2>3. QED
    BY <2>1, <2>2
<1>9. Unused'
  BY <1>2, <1>5, <1>6 DEF IInv, Unused
<1>10. Accounted'
  <2> SUFFICES ASSUME NEW n \in Published' \ (lost' \cup early')
               PROVE  \E q \in MailQueues :
                        \/ place'[q][n] \in {"queued", "handed", "expired"}
                        \/ place'[q][n] = "acked" /\ (Mailed(n)' \/ n \in skipped')
    BY DEF Accounted
  <2>1. CASE n = m
    <3>1. UserQueue \in bound
      BY <2>1 DEF Publish
    <3>2. place'[UserQueue][m] = "queued"
      BY <1>3, <1>4, <3>1, QueuesDiffer
    <3>3. QED
      BY <2>1, <3>2, QueuesDiffer
  <2>2. CASE n # m
    <3>1. n \in Published \ (lost \cup early)
      BY <1>2, <1>5, <2>2 DEF Published, Publish
    <3>2. QED
      BY <1>2, <1>4, <2>2, <3>1, QueuesDiffer DEF IInv, Accounted, Mailed, Published
  <2>3. QED
    BY <2>1, <2>2
<1>11. QED
  BY <1>1, <1>2, <1>7, <1>8, <1>9, <1>10
  DEF IInv, Calls, Copies, Unused, OneMailPerConnection

LEMMA ExpireStep ==
  ASSUME IInv, NEW q \in Queues, NEW m \in Msgs, Expire(q, m)
  PROVE  IInv'
<1> USE DEF server, link, history
<1>1. TypeOK' /\ TypeOK
  BY TypeStep DEF IInv, Next
<1>2. UNCHANGED <<up, connected, consuming, losses, pub, tasks, sent,
                  lost, early, skipped>>
  BY DEF Expire
<1>3. /\ place[q][m] = "queued" /\ place'[q][m] = "expired"
      /\ \A p \in Queues, n \in Msgs : p # q \/ n # m => place'[p][n] = place[p][n]
  BY <1>1 DEF Expire, TypeOK
<1>4. Calls'
  <2> SUFFICES ASSUME NEW t \in tasks PROVE TaskOK(t)'
    BY <1>2 DEF Calls
  <2>1. TaskOK(t) /\ t.queue \in Queues /\ t.msg \in Msgs
    BY <1>1, TaskType DEF IInv
  <2>2. QED
    BY <1>2, <1>3, <2>1 DEF TaskOK, Mailed
<1>5. Copies'
  <2> SUFFICES ASSUME NEW p \in Queues, NEW n \in Msgs PROVE CopyOK(p, n)'
    BY DEF Copies
  <2>1. CopyOK(p, n) /\ CopyOK(q, m)
    BY DEF IInv
  <2>2. QED
    BY <1>2, <1>3, <2>1 DEF CopyOK
<1>6. Accounted'
  BY <1>2, <1>3, QueuesDiffer DEF IInv, Accounted, Published, Mailed
<1>7. QED
  BY <1>1, <1>2, <1>4, <1>5, <1>6 DEF IInv, Calls, Copies, OneMailPerConnection

LEMMA DeliverStep ==
  ASSUME IInv, NEW q \in Queues, NEW m \in Msgs, Deliver(q, m)
  PROVE  IInv'
<1> USE DEF server, link, history
<1>1. TypeOK' /\ TypeOK
  BY TypeStep DEF IInv, Next
<1>2. UNCHANGED <<up, connected, losses, pub, sent, lost, early, skipped>>
  BY DEF Deliver
<1>3. /\ place[q][m] = "queued" /\ place'[q][m] = "handed"
      /\ \A p \in Queues, n \in Msgs : p # q \/ n # m => place'[p][n] = place[p][n]
  BY <1>1 DEF Deliver, TypeOK
<1> DEFINE new == Task(q, m, "handling")
<1>4. tasks' = tasks \cup {new}
  BY DEF Deliver
<1>5. /\ new.queue = q /\ new.msg = m /\ new.conn = losses /\ new.stage = "handling"
  BY DEF Task
<1> HIDE DEF new
<1>6. CopyOK(q, m) /\ losses \in Conns
  BY <1>1 DEF IInv, TypeOK
<1>7. \A t \in tasks : TaskOK(t) /\ t.queue \in Queues /\ t.msg \in Msgs
  BY <1>1, TaskType DEF IInv
<1>8. \A t \in tasks : ~(t.msg = m /\ t.conn = losses)
  BY <1>3, <1>6, <1>7 DEF TaskOK, CopyOK
<1>9. Calls'
  <2> SUFFICES ASSUME NEW t \in tasks' PROVE TaskOK(t)'
    BY DEF Calls
  <2>1. CASE t = new
    BY <1>1, <1>2, <1>3, <1>4, <1>5, <1>6, <1>8, <2>1 DEF TaskOK, TypeOK, CopyOK, Conns
  <2>2. CASE t \in tasks
    BY <1>2, <1>3, <1>4, <1>5, <1>7, <1>8, <2>2 DEF TaskOK, Mailed
  <2>3. QED
    BY <1>4, <2>1, <2>2
<1>10. Copies'
  <2> SUFFICES ASSUME NEW p \in Queues, NEW n \in Msgs PROVE CopyOK(p, n)'
    BY DEF Copies
  <2>1. CopyOK(p, n)
    BY DEF IInv
  <2>2. QED
    BY <1>2, <1>3, <1>6, <2>1 DEF CopyOK
<1>11. Accounted'
  BY <1>2, <1>3, QueuesDiffer DEF IInv, Accounted, Published, Mailed
<1>12. connected' /\ up' /\ UNCHANGED consuming
  BY <1>2 DEF IInv, Deliver
<1>13. QED
  BY <1>1, <1>2, <1>9, <1>10, <1>11, <1>12
  DEF IInv, Calls, Copies, OneMailPerConnection

\* A call of a handler goes on or ends: what each of its steps has in common is
\* that it sends at most one mail, and moves or removes this call only.
LEMMA CallStep ==
  ASSUME IInv, NEW t \in tasks, t.stage \in {"handling", "abandoned"},
         UNCHANGED <<up, connected, consuming, losses, pub, place, lost, early>>,
         skipped \subseteq skipped', TypeOK',
         NEW s \in {"handled", "abandoned", "none"},
         tasks' = (tasks \ {t}) \cup (IF s = "none" THEN {} ELSE {At(t, s)}),
         Sent(t) \/ UNCHANGED sent,
         s = "handled" /\ t.queue # Alert => Sent(t) \/ t.msg \in skipped',
         s = "abandoned" => UNCHANGED sent
  PROVE  IInv'
<1>1. TypeOK
  BY DEF IInv
<1>2. /\ t.queue \in Queues /\ t.msg \in Msgs /\ t.conn \in Conns
      /\ TaskOK(t) /\ sent[t.msg][t.conn] = 0
  BY <1>1, TaskType DEF IInv, TaskOK
<1>3. /\ \A m \in Msgs, c \in Conns :
           m # t.msg \/ c # t.conn => sent'[m][c] = sent[m][c]
      /\ sent'[t.msg][t.conn] \in {0, 1}
      /\ Sent(t) => sent'[t.msg][t.conn] = 1
      /\ UNCHANGED sent => sent'[t.msg][t.conn] = 0
  <2>1. CASE Sent(t)
    <3>1. sent'[t.msg][t.conn] = 1
      BY <1>1, <1>2, <2>1, SentOne
    <3>2. sent' # sent
      BY <1>2, <3>1
    <3>3. QED
      BY <1>1, <2>1, <3>1, <3>2, SentOne
  <2>2. CASE UNCHANGED sent /\ ~Sent(t)
    BY <1>2, <2>2
  <2>3. QED
    BY <2>1, <2>2
<1>4. \A m \in Msgs : Mailed(m) => Mailed(m)'
  BY <1>2, <1>3 DEF Mailed
<1>5. \A r \in tasks : TaskOK(r) /\ r.msg \in Msgs /\ r.conn \in Conns
  BY <1>1, TaskType DEF IInv
<1>6. \A r \in tasks \ {t} : r.msg # t.msg \/ r.conn # t.conn
  BY <1>5 DEF TaskOK
<1>7. Calls'
  <2> SUFFICES ASSUME NEW r \in tasks' PROVE TaskOK(r)'
    BY DEF Calls
  <2> DEFINE new == At(t, s)
  <2>1. \A k \in tasks' : k \in tasks \ {t} \/ (s # "none" /\ k = new)
    OBVIOUS
  <2>2. t \in TaskSet
    BY <1>1, TaskType
  <2>3. /\ new.msg = t.msg /\ new.conn = t.conn /\ new.queue = t.queue
        /\ new.stage = s
    BY <2>2 DEF At, TaskSet
  <2> HIDE DEF new
  <2>4. CASE r \in tasks \ {t}
    <3>1. TaskOK(r) /\ r.msg \in Msgs /\ r.conn \in Conns
      BY <1>5, <2>4
    <3>2. sent'[r.msg][r.conn] = sent[r.msg][r.conn]
      BY <1>3, <1>6, <2>4, <3>1
    <3>3. Mailed(r.msg) \/ r.msg \in skipped => Mailed(r.msg)' \/ r.msg \in skipped'
      BY <1>4, <3>1
    <3>4. \A k \in tasks' : k.msg = r.msg /\ k.conn = r.conn => k = r
      BY <1>6, <2>1, <2>3, <2>4, <3>1 DEF TaskOK
    <3>5. QED
      BY <3>1, <3>2, <3>3, <3>4 DEF TaskOK
  <2>5. CASE s # "none" /\ r = new
    <3>1. s = "handled" /\ t.queue # Alert => Mailed(t.msg)' \/ t.msg \in skipped'
      BY <1>2, <1>3 DEF Mailed
    <3>2. s = "abandoned" => sent'[t.msg][t.conn] = 0
      BY <1>3
    <3>3. \A k \in tasks' : k.msg = new.msg /\ k.conn = new.conn => k = new
      BY <1>6, <2>1, <2>3
    <3>4. QED
      BY <1>2, <2>3, <2>5, <3>1, <3>2, <3>3 DEF TaskOK
  <2>6. QED
    BY <2>1, <2>4, <2>5
<1>8. Copies'
  <2> SUFFICES ASSUME NEW q \in Queues, NEW m \in Msgs PROVE CopyOK(q, m)'
    BY DEF Copies
  <2>1. CopyOK(q, m) /\ losses \in Conns
    BY <1>1 DEF IInv, TypeOK
  <2>2. CASE m = t.msg /\ t.conn = losses
    <3>1. place[t.queue][m] = "handed"
      BY <1>2, <2>2 DEF TaskOK
    <3>2. place[q][m] # "queued"
      BY <1>2, <2>1, <2>2, <3>1 DEF CopyOK
    <3>3. QED
      BY <2>1, <3>2 DEF CopyOK
  <2>3. CASE m # t.msg \/ t.conn # losses
    BY <1>3, <2>1, <2>3 DEF CopyOK
  <2>4. QED
    BY <2>2, <2>3
<1>9. Unused'
  <2> SUFFICES ASSUME NEW m \in Msgs, NEW c \in Conns, c > losses \/ pub[m] = Never
               PROVE  sent'[m][c] = 0
    BY DEF Unused
  <2>1. sent[m][c] = 0
    BY DEF IInv
  <2>2. m # t.msg \/ c # t.conn
    BY <1>1, <1>2 DEF TaskOK, TypeOK, Conns
  <2>3. QED
    BY <1>3, <2>1, <2>2
<1>10. Accounted'
  <2> SUFFICES ASSUME NEW m \in Published \ (lost \cup early)
               PROVE  \E q \in MailQueues :
                        \/ place[q][m] \in {"queued", "handed", "expired"}
                        \/ place[q][m] = "acked" /\ (Mailed(m)' \/ m \in skipped')
    BY DEF Accounted, Published
  <2>1. \E q \in MailQueues :
           \/ place[q][m] \in {"queued", "handed", "expired"}
           \/ place[q][m] = "acked" /\ (Mailed(m) \/ m \in skipped)
    BY DEF IInv, Accounted
  <2>2. m \in Msgs
    BY DEF Published
  <2>3. QED
    BY <1>4, <2>1, <2>2
<1>11. OneMailPerConnection'
  <2> SUFFICES ASSUME NEW m \in Msgs, NEW c \in Conns PROVE sent'[m][c] <= 1
    BY DEF OneMailPerConnection
  <2>1. CASE m = t.msg /\ c = t.conn
    BY <1>3, <2>1
  <2>2. CASE ~(m = t.msg /\ c = t.conn)
    BY <1>3, <2>2 DEF IInv, OneMailPerConnection
  <2>3. QED
    BY <2>1, <2>2
<1>12. up'
  BY DEF IInv
<1>13. connected' => up'
  BY <1>12
<1>14. consuming' # {} => connected'
  BY DEF IInv
<1>15. QED
  BY <1>7, <1>8, <1>9, <1>10, <1>11, <1>12, <1>13, <1>14 DEF IInv, Calls, Copies, Unused

LEMMA RunStep ==
  ASSUME IInv, NEW t \in tasks, Run(t)
  PROVE  IInv'
<1> USE DEF server, link, history
<1>1. TypeOK' /\ TypeOK
  BY TypeStep DEF IInv, Next
<1>2. CASE Handle(t)
  <2>1. tasks' = (tasks \ {t}) \cup {At(t, "handled")}
    BY <1>2 DEF Handle, Move
  <2>2. t.queue # Alert => Sent(t) \/ t.msg \in skipped'
    BY <1>2 DEF Handle, SendsMail, EventName
  <2>3. Sent(t) \/ UNCHANGED sent
    BY <1>2 DEF Handle
  <2>4. skipped \subseteq skipped'
    BY <1>2 DEF Handle
  <2>5. QED
    BY <1>1, <1>2, <2>1, <2>2, <2>3, <2>4, CallStep DEF Handle
<1>3. CASE Throw(t)
  BY <1>1, <1>3, CallStep DEF Throw
<1>4. CASE TimeOut(t)
  BY <1>1, <1>4, CallStep DEF TimeOut, Move
<1>5. CASE SendLate(t)
  BY <1>1, <1>5, CallStep DEF SendLate
<1>6. CASE Ack(t)
  <2>1. UNCHANGED <<up, connected, consuming, losses, pub, sent, lost, early, skipped>>
    BY <1>6 DEF Ack
  <2>2. /\ t.queue \in Queues /\ t.msg \in Msgs /\ t.stage = "handled"
        /\ tasks' = tasks \ {t}
        /\ TaskOK(t)
    BY <1>1, <1>6, TaskType DEF Ack, IInv
  <2>3. CASE UNCHANGED place
    <3>1. Calls' /\ Copies'
      BY <2>1, <2>2, <2>3 DEF IInv, Calls, Copies, TaskOK, CopyOK, Mailed
    <3>2. Accounted'
      BY <2>1, <2>3 DEF IInv, Accounted, Published, Mailed
    <3>3. QED
      BY <1>1, <2>1, <2>2, <3>1, <3>2 DEF IInv, Calls, Copies, OneMailPerConnection
  <2>4. CASE /\ t.conn = losses
             /\ place' = [place EXCEPT ![t.queue][t.msg] = "acked"]
    <3>1. /\ place[t.queue][t.msg] = "handed" /\ place'[t.queue][t.msg] = "acked"
          /\ \A p \in Queues, n \in Msgs :
               p # t.queue \/ n # t.msg => place'[p][n] = place[p][n]
      BY <1>1, <2>2, <2>4 DEF TypeOK, TaskOK
    <3>2. Calls'
      <4> SUFFICES ASSUME NEW r \in tasks' PROVE TaskOK(r)'
        BY DEF Calls
      <4>1. /\ r \in tasks /\ r # t /\ TaskOK(r)
            /\ r.queue \in Queues /\ r.msg \in Msgs
        BY <1>1, <2>2, TaskType DEF IInv
      <4>2. r.conn = losses => r.msg # t.msg
        BY <2>2, <2>4, <4>1 DEF TaskOK
      <4>3. r.conn = losses => place'[r.queue][r.msg] = "handed"
        BY <3>1, <4>1, <4>2 DEF TaskOK
      <4>4. QED
        BY <2>1, <2>2, <4>1, <4>3 DEF TaskOK, Mailed
    <3>3. Copies'
      <4> SUFFICES ASSUME NEW p \in Queues, NEW n \in Msgs PROVE CopyOK(p, n)'
        BY DEF Copies
      <4>1. CopyOK(p, n) /\ CopyOK(t.queue, t.msg)
        BY <2>2 DEF IInv
      <4>2. QED
        BY <2>1, <2>2, <3>1, <4>1 DEF CopyOK
    <3>4. Accounted'
      <4> SUFFICES ASSUME NEW m \in Published \ (lost \cup early)
                   PROVE  \E q \in MailQueues :
                            \/ place'[q][m] \in {"queued", "handed", "expired"}
                            \/ place'[q][m] = "acked" /\ (Mailed(m) \/ m \in skipped)
        BY <2>1 DEF Accounted, Published, Mailed
      <4>1. m \in Msgs
        BY DEF Published
      <4>2. PICK q \in MailQueues :
               \/ place[q][m] \in {"queued", "handed", "expired"}
               \/ place[q][m] = "acked" /\ (Mailed(m) \/ m \in skipped)
        BY DEF IInv, Accounted
      <4>3. q \in Queues /\ q # Alert
        BY QueuesDiffer
      <4>4. CASE m = t.msg
        <5>1. q = t.queue
          BY <2>2, <3>1, <4>1, <4>2, <4>3, <4>4 DEF IInv, CopyOK
        <5>2. Mailed(m) \/ m \in skipped
          BY <2>2, <4>3, <4>4, <5>1 DEF TaskOK
        <5>3. QED
          BY <3>1, <4>4, <5>1, <5>2
      <4>5. CASE m # t.msg
        BY <3>1, <4>1, <4>2, <4>3, <4>5
      <4>6. QED
        BY <4>4, <4>5
    <3>5. QED
      BY <1>1, <2>1, <2>2, <3>2, <3>3, <3>4
      DEF IInv, Calls, Copies, OneMailPerConnection
  <2>5. QED
    BY <1>6, <2>3, <2>4 DEF Ack
<1>7. QED
  BY <1>2, <1>3, <1>4, <1>5, <1>6 DEF Run

\* A connection that is lost: the copies handed out wait again, and no mail has
\* been sent for the next connection.
LEMMA CutStep ==
  ASSUME IInv, Cut, TypeOK', UNCHANGED <<sent, early, skipped>>,
         tasks' = tasks \/ tasks' = {}, up' \/ tasks' = {},
         lost \subseteq lost',
         \A m \in Msgs : \/ pub'[m] = pub[m]
                         \/ pub[m] = Never /\ pub'[m] # Never /\ m \in lost'
  PROVE  IInv'
<1>1. TypeOK
  BY DEF IInv
<1>2. /\ losses' = losses + 1 /\ losses' \in Conns /\ losses \in Nat
      /\ connected' = FALSE /\ consuming' = {}
  BY <1>1, CutType DEF Cut, TypeOK, Conns
<1>3. \A q \in Queues, m \in Msgs :
        place'[q][m] = IF place[q][m] = "handed" THEN "queued" ELSE place[q][m]
  BY DEF Cut, Requeued
<1>4. \A m \in Msgs : sent[m][losses'] = 0
  BY <1>2 DEF IInv
<1>5. Calls'
  <2> SUFFICES ASSUME NEW t \in tasks' PROVE TaskOK(t)'
    BY DEF Calls
  <2>1. t \in tasks
    OBVIOUS
  <2>2. TaskOK(t) /\ t.msg \in Msgs /\ t.conn \in Nat
    BY <1>1, <2>1, TaskType DEF IInv, Conns
  <2>3. QED
    BY <1>2, <2>2 DEF TaskOK, Mailed
<1>6. Copies'
  <2> SUFFICES ASSUME NEW q \in Queues, NEW m \in Msgs PROVE CopyOK(q, m)'
    BY DEF Copies
  <2>1. CopyOK(q, m)
    BY DEF IInv
  <2>2. QED
    BY <1>3, <1>4, <2>1 DEF CopyOK
<1>7. Unused'
  BY <1>2 DEF IInv, Unused, Conns
<1>8. Accounted'
  <2> SUFFICES ASSUME NEW m \in Published' \ (lost' \cup early')
               PROVE  \E q \in MailQueues :
                        \/ place'[q][m] \in {"queued", "handed", "expired"}
                        \/ place'[q][m] = "acked" /\ (Mailed(m)' \/ m \in skipped')
    BY DEF Accounted
  <2>1. m \in Msgs /\ m \in Published \ (lost \cup early)
    BY DEF Published
  <2>2. PICK q \in MailQueues :
           \/ place[q][m] \in {"queued", "handed", "expired"}
           \/ place[q][m] = "acked" /\ (Mailed(m) \/ m \in skipped)
    BY <2>1 DEF IInv, Accounted
  <2>3. QED
    BY <1>3, <2>1, <2>2, QueuesDiffer DEF Mailed
<1>9. OneMailPerConnection'
  BY DEF IInv, OneMailPerConnection
<1>10. QED
  BY <1>2, <1>5, <1>6, <1>7, <1>8, <1>9 DEF IInv, Calls, Copies, Unused

LEMMA Inductive == IInv /\ [Next]_vars => IInv'
<1> SUFFICES ASSUME IInv, [Next]_vars PROVE IInv'
  OBVIOUS
<1> USE DEF server, link, history
<1>1. TypeOK' /\ TypeOK
  BY TypeStep DEF IInv
<1>2. CASE Disconnect
  <2>1. \A m \in Msgs : \/ pub'[m] = pub[m]
                        \/ pub[m] = Never /\ pub'[m] # Never /\ m \in lost'
    BY <1>1, <1>2 DEF Disconnect, TypeOK, Never
  <2>2. up'
    BY <1>2 DEF Disconnect, IInv
  <2>3. lost \subseteq lost'
    BY <1>2 DEF Disconnect
  <2>4. QED
    BY <1>1, <1>2, <2>1, <2>2, <2>3, CutStep DEF Disconnect
<1>3. CASE Crash
  BY <1>1, <1>3, CutStep DEF Crash
<1>4. CASE UNCHANGED vars
  BY <1>4 DEF vars, IInv, TypeOK, TaskOK, CopyOK, Accounted, Published, Mailed,
              OneMailPerConnection
<1>5. QED
  BY <1>2, <1>3, <1>4, StartLink, PublishStep, ExpireStep, DeliverStep, RunStep
  DEF Next

\* Copies, deliveries and calls of handlers stay accounted for, one by one, through
\* losses of the connection and restarts: the invariant the other two rest on.
THEOREM Invariance == Spec => []IInv
BY InitIInv, Inductive, PTL DEF Spec

\* An event the broker took for the mail queue is mailed, or skipped by a server
\* without a transporter, or still there, or expired (publish, the consumer).
THEOREM AccountedAlways == Spec => []Accounted
<1>1. IInv => Accounted
  BY DEF IInv
<1>2. QED
  BY Invariance, <1>1, PTL

\* The consumer sends one mail of an event at most for each connection it has had
\* to the broker (the errorHandler, the interceptor's timeout, the two queues).
THEOREM OneMailAlways == Spec => []OneMailPerConnection
<1>1. IInv => OneMailPerConnection
  BY DEF IInv
<1>2. QED
  BY Invariance, <1>1, PTL
=============================================================================
