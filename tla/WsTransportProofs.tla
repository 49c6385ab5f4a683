-------------------------- MODULE WsTransportProofs --------------------------
(***************************************************************************)
(* Proofs about WsTransport, for any messages, numbers of calls, batches,    *)
(* retries and connection strategy.                                         *)
(*                                                                         *)
(* MessageInv is the inductive invariant about messages: each is in one     *)
(* place at most.  FreshInv is what the refinement of the buffer needs       *)
(* besides: a queue that is paused and not in use is never used again.       *)
(* InTurnInv and LeftOpenInv are the ones about connections that a user      *)
(* makes and ends in turn, and that are left open when idle.                *)
(***************************************************************************)
EXTENDS WsTransport, FiniteSetTheorems, SequenceTheorems, TLAPS

\* The invariants about messages are stated of any queue x or queues q, messages s that
\* were written, and promises p: most steps change queues twice.

\* The messages of a queue, with the one that its worker has; those that are yet to be
\* written; and those that were.
MessagesOf(x) ==
    {m \in Messages : \/ \E i \in 1..Len(x.tasks) : x.tasks[i].msg = m
                      \/ x.worker.stage # "idle" /\ x.worker.task.msg = m}
Pending(x) ==
    {m \in Messages : \/ \E i \in 1..Len(x.tasks) : x.tasks[i].msg = m
                      \/ x.worker.stage = "wait" /\ x.worker.task.msg = m}
Written(s) == {m \in Messages : \E k \in 1..Len(s) : s[k] = m}

\* The messages that the user has sent.
Begun == {m \in Messages : batch[m] # 0}

\* They are sent in the order of their numbers, without gaps; a batch is known by the
\* first of its own, and only it has a promise.
BatchInv ==
    /\ Cardinality(Begun) \in Nat /\ Begun = 1..Cardinality(Begun)
    /\ \A m \in Messages : batch[m] # 0 => batch[m] \in Messages /\ batch[batch[m]] = batch[m]
    /\ \A m \in Messages : batch[m] = m <=> promise[m] # "none"

\* A message is in one place at most: in a queue, with the worker that waits to write it,
\* or written.
Distinct(x) ==
    /\ \A i, j \in 1..Len(x.tasks) : x.tasks[i].msg = x.tasks[j].msg => i = j
    /\ x.worker.stage = "wait" =>
         \A i \in 1..Len(x.tasks) : x.worker.task.msg # x.tasks[i].msg
Apart(q, s) ==
    /\ \A g \in Gens : Distinct(q[g]) /\ Pending(q[g]) \cap Written(s) = {}
    /\ \A g, h \in Gens : g # h => Pending(q[g]) \cap Pending(q[h]) = {}
    /\ \A k, l \in 1..Len(s) : s[k] = s[l] => k = l

\* What is held was sent by the user, and so was what is written; a task that does not
\* tell its caller has one that has been told; what is being written counts as written.
KnownTask(t, p) == batch[t.msg] # 0 /\ (~t.tells => p[batch[t.msg]] # "pending")
KnownQueue(x, s, p) ==
    /\ \A i \in 1..Len(x.tasks) : KnownTask(x.tasks[i], p)
    /\ x.worker.stage # "idle" => KnownTask(x.worker.task, p)
    /\ x.worker.stage = "write" => x.worker.task.msg \in Written(s)
Known(q, s, p) == /\ \A g \in Gens : KnownQueue(q[g], s, p)
                  /\ \A m \in Written(s) : batch[m] # 0

\* With one queue, what was written, what waits to be written and what is queued are in
\* the order in which they were sent.
Ordered(x, s) ==
    /\ \A i, j \in 1..Len(x.tasks) : i < j => x.tasks[i].msg < x.tasks[j].msg
    /\ x.worker.stage = "wait" =>
         \A i \in 1..Len(x.tasks) : x.worker.task.msg < x.tasks[i].msg
    /\ \A m \in Pending(x), n \in Written(s) : n < m
    /\ \A k, l \in 1..Len(s) : k < l => s[k] < s[l]
InOrder(q, s) ==
    /\ \A g \in Gens \ {1} : MessagesOf(q[g]) = {}
    /\ Ordered(q[1], s)

OrderInv == /\ sendingQueue <= calls.connect
            /\ calls.connect <= 1 => InOrder(queue, sent)

MessageInv == /\ TypeOK /\ BatchInv /\ Known(queue, sent, promise) /\ Apart(queue, sent)
              /\ OrderInv

\* Nothing is paused in a queue that is not made yet.
FreshInv == \A g \in Gens : g > calls.connect => ~queue[g].paused

\* With connect() and disconnect() called in turn: the socket in use is the last, and none
\* is in use when it was disconnected.
InTurnInv ==
    /\ calls.connect \in {calls.disconnect, calls.disconnect + 1}
    /\ calls.connect = calls.disconnect => ws = 0
    /\ ws # 0 => ws = calls.connect
    /\ \A g \in Gens : connecting[g] \notin {"closing old", "closed old"}
    /\ \A g \in Gens : g > calls.connect => sock[g] = "none"

\* And with connections left open, also: a socket that is not in use is closed but
\* for one, whose close event the user waits for.
LeftOpenInv ==
    /\ drainTimer = FALSE
    /\ disconnecting = "pending" => ws = 0
    /\ \A g \in Gens \ {ws} :
         sock[g] \in {"none", "closed"} \/ (disconnecting = "pending" /\ sock[g] = "closing")
    /\ \A g, h \in Gens \ {ws} : sock[g] = "closing" /\ sock[h] = "closing" => g = h

-----------------------------------------------------------------------------
(* Queues and what their steps do to them *)

\* What the worker of a queue may be.
LEMMA WorkerFields ==
    ASSUME NEW w \in WorkerType
    PROVE  /\ w.stage \in {"idle", "wait", "write"}
           /\ w = Idle <=> w.stage = "idle"
           /\ w.stage # "idle" => w.task \in TaskType
           /\ w.stage = "wait" =>
                /\ w.sock \in Gens
                /\ \E n \in MaxLooks : w.left \in 0..n
                /\ w = [stage |-> "wait", task |-> w.task, sock |-> w.sock, left |-> w.left]
           /\ w.stage = "write" => w = [stage |-> "write", task |-> w.task]
<1>1. CASE w = Idle
  BY <1>1 DEF Idle
<1>2. CASE w \in [stage : {"wait"}, task : TaskType, sock : Gens,
                  left : UNION {0..n : n \in MaxLooks}]
  BY <1>2 DEF Idle
<1>3. CASE w \in [stage : {"write"}, task : TaskType]
  BY <1>3 DEF Idle
<1>4. QED
  BY <1>1, <1>2, <1>3 DEF WorkerType

\* What a worker becomes.
LEMMA WorkerKinds ==
    /\ Idle \in WorkerType /\ Idle.stage = "idle"
    /\ \A t \in TaskType :
         /\ [stage |-> "write", task |-> t] \in WorkerType
         /\ \A s \in Gens, n \in MaxLooks : \A l \in 0..n :
              [stage |-> "wait", task |-> t, sock |-> s, left |-> l] \in WorkerType
BY DEF WorkerType, Idle

\* The fields of a queue.
LEMMA QueueFields ==
    ASSUME NEW q \in QueueType
    PROVE  /\ q.tasks \in Seq(TaskType) /\ q.worker \in WorkerType
           /\ q.paused \in BOOLEAN /\ q.due \in BOOLEAN /\ q.drains \in BOOLEAN
           /\ q.live \in BOOLEAN
           /\ Len(q.tasks) \in Nat
           /\ \A i \in 1..Len(q.tasks) : q.tasks[i] \in TaskType
<1>1. /\ q.tasks \in Seq(TaskType) /\ q.worker \in WorkerType
      /\ q.paused \in BOOLEAN /\ q.due \in BOOLEAN /\ q.drains \in BOOLEAN
      /\ q.live \in BOOLEAN
  BY DEF QueueType
<1>2. QED
  BY <1>1, ElementOfSeq, LenProperties

\* A task names a message.
LEMMA TaskFields ==
    ASSUME NEW t \in TaskType
    PROVE  /\ t.msg \in Messages /\ t.tells \in BOOLEAN
           /\ [t EXCEPT !.tells = FALSE] \in TaskType
           /\ [t EXCEPT !.tells = FALSE].msg = t.msg
           /\ [t EXCEPT !.tells = FALSE].tells = FALSE
BY DEF TaskType

\* Messages and sockets are numbers from 1 on.
LEMMA Numbers ==
    /\ \A m \in Messages : m \in Nat /\ m # 0
    /\ \A g \in Gens : g \in Nat /\ g # 0
    /\ 1 \in Gens
BY MessagesAssumption, BoundsAssumption DEF Gens

\* Settling promises changes those that wait, of the batches of some tasks that tell.
LEMMA SettledShape ==
    ASSUME NEW p \in [Messages -> {"none", "pending", "resolved", "rejected"}], NEW ts,
           NEW o \in {"resolved", "rejected"}
    PROVE  /\ Settled(p, ts, o) \in [Messages -> {"none", "pending", "resolved", "rejected"}]
           /\ \A b \in Messages :
                \/ Settled(p, ts, o)[b] = p[b]
                \/ /\ p[b] = "pending" /\ Settled(p, ts, o)[b] = o
                   /\ \E t \in ts : t.tells /\ batch[t.msg] = b
           /\ \A t \in ts : t.tells /\ batch[t.msg] \in Messages
                => Settled(p, ts, o)[batch[t.msg]] # "pending"
BY DEF Settled

\* The looks a message has.
LEMMA LooksTyped == Looks \in MaxLooks /\ \A n \in MaxLooks : n \in Nat
BY RetriesAssumption DEF Looks, MaxLooks, DefaultWsTransportConfig

\* A run of process() that takes a task, that fails all of them, or that does nothing.
LEMMA ProcessShape ==
    ASSUME NEW q \in QueueType, ws \in Gens \cup {0}
    PROVE  /\ Process(q) \in QueueType
           /\ \/ /\ Process(q) = q
                 /\ Refused(q) = {}
              \/ /\ ws = 0 /\ q.worker = Idle
                 /\ Process(q).tasks = <<>> /\ Process(q).worker = q.worker
                 /\ Refused(q) = {q.tasks[i] : i \in 1..Len(q.tasks)}
              \/ /\ ws # 0 /\ q.worker = Idle /\ q.tasks # <<>>
                 /\ Process(q).tasks = Tail(q.tasks)
                 /\ Process(q).worker.stage \in {"wait", "write"}
                 /\ Process(q).worker.task = Head(q.tasks)
                 /\ Refused(q) = {}
<1>1. CASE ~MayRun(q)
  BY <1>1 DEF Process, Refused
<1>2. CASE MayRun(q) /\ ws = 0
  <2>1. Process(q) = [q EXCEPT !.tasks = <<>>]
    BY <1>2 DEF Process
  <2>2. Refused(q) = {q.tasks[i] : i \in 1..Len(q.tasks)}
    BY <1>2, QueueFields, LenProperties DEF Refused, ToSet
  <2>3. <<>> \in Seq(TaskType)
    BY EmptySeq
  <2>4. Process(q) \in QueueType
    BY <2>1, <2>3 DEF QueueType
  <2>5. Process(q).tasks = <<>> /\ Process(q).worker = q.worker
    BY <2>1 DEF QueueType
  <2>6. q.worker = Idle
    BY <1>2 DEF MayRun
  <2>7. QED
    BY <1>2, <2>2, <2>4, <2>5, <2>6
<1>3. CASE MayRun(q) /\ ws # 0
  <2> DEFINE w == Transmit(Head(q.tasks))
  <2>1. Process(q) = [q EXCEPT !.tasks = Tail(q.tasks), !.worker = w]
    BY <1>3 DEF Process
  <2>2. Head(q.tasks) \in TaskType /\ Tail(q.tasks) \in Seq(TaskType)
    BY <1>3, QueueFields, HeadTailProperties DEF MayRun
  <2>3. w \in WorkerType /\ w.stage \in {"wait", "write"} /\ w.task = Head(q.tasks)
    BY <1>3, <2>2, WorkerKinds, LooksTyped DEF Transmit
  <2> HIDE DEF w
  <2>4. Process(q) \in QueueType
    BY <2>1, <2>2, <2>3 DEF QueueType
  <2>5. Process(q).tasks = Tail(q.tasks) /\ Process(q).worker = w
    BY <2>1 DEF QueueType
  <2>6. q.worker = Idle /\ q.tasks # <<>> /\ Refused(q) = {}
    BY <1>3 DEF MayRun, Refused
  <2>7. QED
    BY <1>3, <2>3, <2>4, <2>5, <2>6
<1>4. QED
  BY <1>1, <1>2, <1>3

\* What becomes of a promise.
Outcomes == {"none", "pending", "resolved", "rejected"}

\* The types of queues, written messages and promises.
Typed(q, s, p) == /\ q \in [Gens -> QueueType] /\ s \in Seq(Messages)
                  /\ p \in [Messages -> Outcomes]

\* A queue takes its first task.
Takes(x, x2) ==
    /\ x.worker.stage = "idle"
    /\ Len(x.tasks) > 0
    /\ Len(x2.tasks) = Len(x.tasks) - 1
    /\ \A i \in 1..Len(x2.tasks) : x2.tasks[i] = x.tasks[i + 1]
    /\ x2.worker.stage # "idle" /\ x2.worker.task = x.tasks[1]

\* Message m is written.
Adds(s, m, s2) == /\ Len(s2) = Len(s) + 1
                  /\ \A k \in 1..Len(s) : s2[k] = s[k]
                  /\ s2[Len(s) + 1] = m

\* A queue runs: with nothing to do; without a socket; and with one.
Ran(x, s, p, x2, s2, p2) ==
    \/ x2 = x /\ s2 = s /\ p2 = p
    \/ /\ x.worker.stage = "idle" /\ x2.worker.stage = "idle"
       /\ Len(x2.tasks) = 0
       /\ s2 = s
       /\ p2 = Settled(p, {x.tasks[i] : i \in 1..Len(x.tasks)}, "rejected")
    \/ /\ Takes(x, x2)
       /\ x2.worker.stage = "wait"
       /\ s2 = s /\ p2 = p
    \/ /\ Takes(x, x2)
       /\ x2.worker.stage = "write"
       /\ Adds(s, x.tasks[1].msg, s2) /\ p2 = p

\* A message that is written.
LEMMA AddsShape ==
    ASSUME NEW s \in Seq(Messages), NEW m \in Messages
    PROVE  Append(s, m) \in Seq(Messages) /\ Adds(s, m, Append(s, m))
BY AppendProperties DEF Adds

\* What a run of a queue does.
LEMMA RunsShape ==
    ASSUME NEW g \in Gens, NEW q, NEW p, NEW ended, Typed(q, sent, p), ws \in Gens \cup {0},
           drainTimer \in BOOLEAN, Runs(g, q, p, ended)
    PROVE  /\ Typed(queue', sent', promise')
           /\ Ran(q[g], sent, p, queue'[g], sent', promise')
           /\ \A h \in Gens \ {g} : queue'[h] = q[h]
           /\ drainTimer' \in BOOLEAN
           /\ drainTimer' =>
                drainTimer \/ DefaultWsTransportConfig.connectionStrategy # "LEAVE_OPEN"
           /\ UNCHANGED <<batch, sendingQueue, conf, sock, ws, connecting, disconnecting, calls>>
<1> DEFINE r == Process(q[g])
<1>1. q[g] \in QueueType /\ sent \in Seq(Messages) /\ p \in [Messages -> Outcomes]
  BY DEF Typed
<1>2. /\ queue' = [q EXCEPT ![g] = r]
      /\ promise' = Settled(p, Refused(q[g]), "rejected")
      /\ sent' = IF r.worker # q[g].worker /\ r.worker.stage = "write"
                 THEN Append(sent, r.worker.task.msg) ELSE sent
      /\ \/ drainTimer' = drainTimer
         \/ drainTimer' =
              (conf # 0 /\ DefaultWsTransportConfig.connectionStrategy # "LEAVE_OPEN")
      /\ UNCHANGED <<batch, sendingQueue, conf, sock, ws, connecting, disconnecting, calls>>
  BY DEF Runs, DrainHandler, socketVars
<1>3. drainTimer' \in BOOLEAN /\ (drainTimer' => drainTimer
         \/ DefaultWsTransportConfig.connectionStrategy # "LEAVE_OPEN")
  <2> DEFINE arms == conf # 0 /\ DefaultWsTransportConfig.connectionStrategy # "LEAVE_OPEN"
  <2>1. arms \in BOOLEAN
    OBVIOUS
  <2>2. CASE drainTimer' = drainTimer
    BY <2>2, Zenon
  <2>3. CASE drainTimer' = arms
    BY <2>1, <2>3, Zenon
  <2>4. QED
    BY <1>2, <2>2, <2>3, Zenon
<1>4. r \in QueueType
  BY <1>1, ProcessShape
<1>5. promise' \in [Messages -> Outcomes]
  BY <1>1, <1>2, SettledShape DEF Outcomes
<1>6. Refused(q[g]) = {} => promise' = p
  BY <1>1, <1>2 DEF Settled
<1> HIDE DEF r
<1>7. queue' \in [Gens -> QueueType] /\ queue'[g] = r /\ \A h \in Gens \ {g} : queue'[h] = q[h]
  BY <1>2, <1>4 DEF Typed
<1>8. q[g].worker \in WorkerType /\ r.worker \in WorkerType
  BY <1>1, <1>4, QueueFields
<1>9. CASE r = q[g] /\ Refused(q[g]) = {}
  BY <1>2, <1>3, <1>5, <1>6, <1>7, <1>9, <1>1 DEF Ran, Typed
<1>10. CASE /\ q[g].worker = Idle
            /\ r.tasks = <<>> /\ r.worker = q[g].worker
            /\ Refused(q[g]) = {q[g].tasks[i] : i \in 1..Len(q[g].tasks)}
  <2>1. q[g].worker.stage = "idle" /\ r.worker.stage = "idle" /\ Len(r.tasks) = 0
    BY <1>10, <1>8, WorkerFields
  <2>2. sent' = sent
    BY <1>2, <1>10
  <2>3. QED
    BY <1>2, <1>3, <1>5, <1>7, <1>10, <1>1, <2>1, <2>2 DEF Ran, Typed
<1>11. CASE /\ ws # 0 /\ q[g].worker = Idle /\ q[g].tasks # <<>>
            /\ r.tasks = Tail(q[g].tasks)
            /\ r.worker.stage \in {"wait", "write"}
            /\ r.worker.task = Head(q[g].tasks)
            /\ Refused(q[g]) = {}
  <2> DEFINE ts == q[g].tasks
  <2>1. ts \in Seq(TaskType) /\ ts # <<>>
    BY <1>1, <1>11, QueueFields
  <2>2. /\ Len(ts) \in Nat /\ Len(ts) > 0 /\ ts[1] \in TaskType /\ Head(ts) = ts[1]
        /\ Len(Tail(ts)) = Len(ts) - 1
        /\ \A i \in 1..Len(Tail(ts)) : Tail(ts)[i] = ts[i + 1]
    BY <2>1, HeadTailProperties, LenProperties, ElementOfSeq, EmptySeq
  <2>3. q[g].worker.stage = "idle" /\ r.worker # q[g].worker
    BY <1>11, <1>8, WorkerFields
  <2>4. Takes(q[g], queue'[g])
    BY <2>2, <2>3, <1>7, <1>11 DEF Takes
  <2>5. ts[1].msg \in Messages
    BY <2>2, TaskFields
  <2>6. CASE r.worker.stage = "wait"
    BY <2>4, <2>6, <1>1, <1>2, <1>3, <1>5, <1>6, <1>7, <1>11 DEF Ran, Typed
  <2>7. CASE r.worker.stage = "write"
    <3>1. sent' = Append(sent, ts[1].msg)
      BY <1>2, <1>11, <2>2, <2>3, <2>7
    <3>2. sent' \in Seq(Messages) /\ Adds(sent, ts[1].msg, sent')
      BY <3>1, <2>5, <1>1, AddsShape
    <3>3. QED
      BY <3>2, <2>4, <2>7, <1>1, <1>2, <1>3, <1>5, <1>6, <1>7, <1>11 DEF Ran, Typed
  <2>8. QED
    BY <1>11, <2>6, <2>7
<1>12. QED
  BY <1>1, <1>9, <1>10, <1>11, ProcessShape DEF r

\* What is counted on of a queue.
LEMMA TaskCount ==
    ASSUME NEW x \in QueueType
    PROVE  /\ Len(x.tasks) \in Nat
           /\ \A i \in 1..Len(x.tasks) : /\ x.tasks[i].msg \in Messages
                                         /\ x.tasks[i].msg \in Nat
                                         /\ x.tasks[i].tells \in BOOLEAN
           /\ x.worker.stage \in {"idle", "wait", "write"}
           /\ x.worker.stage # "idle" =>
                /\ x.worker.task.msg \in Messages
                /\ x.worker.task.msg \in Nat
                /\ x.worker.task.tells \in BOOLEAN
BY QueueFields, WorkerFields, TaskFields, Numbers

\* And of what was written.
LEMMA WrittenCount ==
    ASSUME NEW s \in Seq(Messages)
    PROVE  Len(s) \in Nat /\ \A k \in 1..Len(s) : s[k] \in Messages /\ s[k] \in Nat
BY ElementOfSeq, LenProperties, Numbers

\* A message that is written is added to those that were.
LEMMA AddsWritten ==
    ASSUME NEW s \in Seq(Messages), NEW m \in Messages, NEW s2, Adds(s, m, s2)
    PROVE  Written(s2) = Written(s) \cup {m}
<1>1. Written(s) \cup {m} \subseteq Written(s2)
  BY WrittenCount DEF Written, Adds
<1>2. Written(s2) \subseteq Written(s) \cup {m}
  BY WrittenCount DEF Written, Adds
<1>3. QED
  BY <1>1, <1>2

\* A queue that takes a task has one message less to write than it had, or as many.
LEMMA TakesPending ==
    ASSUME NEW x \in QueueType, NEW x2 \in QueueType, Takes(x, x2)
    PROVE  /\ x.tasks[1].msg \in Pending(x)
           /\ Pending(x2) \subseteq Pending(x)
           /\ MessagesOf(x2) = MessagesOf(x)
           /\ Distinct(x) => Distinct(x2)
           /\ Distinct(x) /\ x2.worker.stage = "write" => x.tasks[1].msg \notin Pending(x2)
<1>1. /\ \A i \in 1..Len(x2.tasks) : /\ i + 1 \in 1..Len(x.tasks)
                                       /\ x2.tasks[i].msg = x.tasks[i + 1].msg
      /\ 1 \in 1..Len(x.tasks) /\ x2.worker.task.msg = x.tasks[1].msg
  BY TaskCount DEF Takes
<1>0. Pending(x2) \subseteq Pending(x) /\ MessagesOf(x2) \subseteq MessagesOf(x)
  BY <1>1 DEF Pending, MessagesOf
<1>2. x.tasks[1].msg \in Pending(x)
  BY TaskCount DEF Pending, Takes
<1>3. ASSUME NEW m \in MessagesOf(x)
      PROVE  m \in MessagesOf(x2)
  <2>1. PICK i \in 1..Len(x.tasks) : x.tasks[i].msg = m
    BY <1>3 DEF MessagesOf, Takes
  <2>2. CASE i = 1
    BY <2>1, <2>2, TaskCount DEF MessagesOf, Takes
  <2>3. CASE i # 1
    <3>1. i - 1 \in 1..Len(x2.tasks) /\ x2.tasks[i - 1] = x.tasks[i]
      BY <2>3, TaskCount DEF Takes
    <3>2. QED
      BY <2>1, <3>1, <1>3 DEF MessagesOf
  <2>4. QED
    BY <2>2, <2>3
<1>4. Distinct(x) => \A i \in 1..Len(x2.tasks) : x2.tasks[i].msg # x.tasks[1].msg
  <2> SUFFICES ASSUME Distinct(x), NEW i \in 1..Len(x2.tasks)
               PROVE  x2.tasks[i].msg # x.tasks[1].msg
    OBVIOUS
  <2>1. /\ i + 1 \in 1..Len(x.tasks) /\ 1 \in 1..Len(x.tasks) /\ i + 1 # 1
        /\ x2.tasks[i] = x.tasks[i + 1]
    BY TaskCount DEF Takes
  <2>2. QED
    BY <2>1 DEF Distinct
<1>5. Distinct(x) => Distinct(x2)
  <2> SUFFICES ASSUME Distinct(x), NEW i \in 1..Len(x2.tasks), NEW j \in 1..Len(x2.tasks),
                      x2.tasks[i].msg = x2.tasks[j].msg
               PROVE  i = j
    BY <1>4 DEF Distinct, Takes
  <2>1. /\ i + 1 \in 1..Len(x.tasks) /\ x2.tasks[i] = x.tasks[i + 1]
        /\ j + 1 \in 1..Len(x.tasks) /\ x2.tasks[j] = x.tasks[j + 1]
    BY TaskCount DEF Takes
  <2>2. i + 1 = j + 1
    BY <2>1 DEF Distinct
  <2>3. QED
    BY <2>2
<1>6. Distinct(x) /\ x2.worker.stage = "write" => x.tasks[1].msg \notin Pending(x2)
  BY <1>4 DEF Pending
<1>7. QED
  BY <1>0, <1>2, <1>3, <1>5, <1>6

\* The rest of it is in order, and comes after the task.
LEMMA TakesOrdered ==
    ASSUME NEW x \in QueueType, NEW x2 \in QueueType, Takes(x, x2),
           \A i, j \in 1..Len(x.tasks) : i < j => x.tasks[i].msg < x.tasks[j].msg
    PROVE  /\ \A i, j \in 1..Len(x2.tasks) : i < j => x2.tasks[i].msg < x2.tasks[j].msg
           /\ \A i \in 1..Len(x2.tasks) : x.tasks[1].msg < x2.tasks[i].msg
<1>1. ASSUME NEW i \in 1..Len(x2.tasks)
      PROVE  /\ i \in Int
             /\ i + 1 \in 1..Len(x.tasks) /\ x2.tasks[i] = x.tasks[i + 1]
             /\ 1 \in 1..Len(x.tasks) /\ 1 < i + 1
  BY TaskCount DEF Takes
<1>2. ASSUME NEW i \in 1..Len(x2.tasks), NEW j \in 1..Len(x2.tasks), i < j
      PROVE  x2.tasks[i].msg < x2.tasks[j].msg
  <2>1. i + 1 < j + 1
    BY <1>1, <1>2
  <2>2. QED
    BY <1>1, <2>1
<1>3. QED
  BY <1>1, <1>2

\* Queue x becomes x2, and s becomes s2: nothing is added to the queue, and at most
\* one of its messages is written.
Works(x, s, x2, s2) ==
    /\ Pending(x2) \subseteq Pending(x)
    /\ MessagesOf(x2) \subseteq MessagesOf(x)
    /\ Distinct(x) => Distinct(x2)
    /\ Ordered(x, s) => Ordered(x2, s2)
    /\ \/ s2 = s
       \/ \E m \in Pending(x) : Adds(s, m, s2) /\ (Distinct(x) => m \notin Pending(x2))

\* Such a step of one queue keeps messages apart, and in order.
LEMMA WorksApart ==
    ASSUME NEW g \in Gens, NEW q, NEW s \in Seq(Messages), NEW q2, NEW s2,
           \A h \in Gens \ {g} : q2[h] = q[h], Works(q[g], s, q2[g], s2)
    PROVE  /\ Apart(q, s) => Apart(q2, s2)
           /\ InOrder(q, s) => InOrder(q2, s2)
<1>1. ASSUME Apart(q, s) PROVE Apart(q2, s2)
  <2>1. \A h \in Gens : Distinct(q2[h]) /\ Pending(q2[h]) \subseteq Pending(q[h])
    BY <1>1 DEF Apart, Works
  <2>2. \A h, k \in Gens : h # k => Pending(q2[h]) \cap Pending(q2[k]) = {}
    BY <1>1, <2>1 DEF Apart
  <2>3. CASE s2 = s
    BY <1>1, <2>1, <2>2, <2>3 DEF Apart
  <2>4. CASE \E m \in Pending(q[g]) : Adds(s, m, s2) /\ m \notin Pending(q2[g])
    <3>1. PICK m \in Pending(q[g]) : Adds(s, m, s2) /\ m \notin Pending(q2[g])
      BY <2>4
    <3>2. m \in Messages /\ m \notin Written(s)
      BY <1>1 DEF Apart, Pending
    <3>3. Written(s2) = Written(s) \cup {m}
      BY <3>1, <3>2, AddsWritten
    <3>4. \A h \in Gens : m \notin Pending(q2[h])
      BY <1>1, <3>1 DEF Apart
    <3>5. \A h \in Gens : Pending(q2[h]) \cap Written(s2) = {}
      BY <1>1, <2>1, <3>3, <3>4 DEF Apart
    <3>6. \A k \in 1..Len(s) : s[k] # m
      BY <3>2 DEF Written
    <3>7. \A k, l \in 1..Len(s2) : s2[k] = s2[l] => k = l
      BY <1>1, <3>1, <3>6, WrittenCount DEF Apart, Adds
    <3>8. QED
      BY <2>1, <2>2, <3>5, <3>7 DEF Apart
  <2>5. QED
    BY <1>1, <2>3, <2>4 DEF Works, Apart
<1>2. ASSUME InOrder(q, s) PROVE InOrder(q2, s2)
  <2>1. \A h \in Gens \ {1} : MessagesOf(q2[h]) = {}
    BY <1>2 DEF InOrder, Works
  <2>2. CASE g = 1
    BY <1>2, <2>1, <2>2 DEF InOrder, Works
  <2>3. CASE g # 1
    <3>1. Pending(q[g]) = {}
      BY <1>2, <2>3 DEF InOrder, MessagesOf, Pending
    <3>2. s2 = s /\ q2[1] = q[1]
      BY <2>3, <3>1, Numbers DEF Works
    <3>3. QED
      BY <1>2, <2>1, <3>2 DEF InOrder
  <2>4. QED
    BY <2>2, <2>3
<1>3. QED
  BY <1>1, <1>2

\* A queue that runs does no more.
LEMMA RanWorks ==
    ASSUME NEW x \in QueueType, NEW s \in Seq(Messages), NEW p,
           NEW x2 \in QueueType, NEW s2 \in Seq(Messages), NEW p2, Ran(x, s, p, x2, s2, p2)
    PROVE  Works(x, s, x2, s2)
<1>1. CASE x2 = x /\ s2 = s
  BY <1>1 DEF Works
<1>2. CASE /\ x2.worker.stage = "idle" /\ Len(x2.tasks) = 0 /\ s2 = s
  <2>1. Pending(x2) = {} /\ MessagesOf(x2) = {} /\ Distinct(x2)
    BY <1>2 DEF Pending, MessagesOf, Distinct
  <2>2. Ordered(x, s) => Ordered(x2, s2)
    BY <1>2, <2>1 DEF Ordered
  <2>3. QED
    BY <1>2, <2>1, <2>2 DEF Works
<1>3. CASE Takes(x, x2) /\ x2.worker.stage = "wait" /\ s2 = s
  <2>1. ASSUME Ordered(x, s) PROVE Ordered(x2, s2)
    <3>1. \A i, j \in 1..Len(x2.tasks) : i < j => x2.tasks[i].msg < x2.tasks[j].msg
      BY <1>3, <2>1, TakesOrdered DEF Takes, Ordered
    <3>2. \A i \in 1..Len(x2.tasks) : x2.worker.task.msg < x2.tasks[i].msg
      BY <1>3, <2>1, TakesOrdered DEF Takes, Ordered
    <3>3. QED
      BY <1>3, <2>1, <3>1, <3>2, TakesPending DEF Ordered
  <2>2. QED
    BY <1>3, <2>1, TakesPending DEF Works
<1>4. CASE Takes(x, x2) /\ x2.worker.stage = "write" /\ Adds(s, x.tasks[1].msg, s2)
  <2> DEFINE m == x.tasks[1].msg
  <2>0. m \in Messages /\ m \in Nat /\ m \in Pending(x)
    BY <1>4, TaskCount, TakesPending DEF Takes
  <2>1. ASSUME Ordered(x, s) PROVE Ordered(x2, s2)
    <3>1. \A i, j \in 1..Len(x2.tasks) : i < j => x2.tasks[i].msg < x2.tasks[j].msg
      BY <1>4, <2>1, TakesOrdered DEF Takes, Ordered
    <3>2. \A i \in 1..Len(x2.tasks) : m < x2.tasks[i].msg
      BY <1>4, <2>1, TakesOrdered DEF Takes, Ordered
    <3>3. \A n \in Pending(x2) : m < n
      BY <1>4, <3>2 DEF Pending
    <3>4. \A n \in Written(s) : n < m
      BY <2>0, <2>1 DEF Ordered
    <3>5. Written(s2) = Written(s) \cup {m}
      BY <1>4, <2>0, AddsWritten
    <3>6. \A n \in Pending(x2), l \in Written(s2) : l < n
      BY <1>4, <2>1, <3>3, <3>5, TakesPending DEF Ordered
    <3>7. \A k \in 1..Len(s) : s[k] < m
      BY <3>4, WrittenCount DEF Written
    <3>8. \A k, l \in 1..Len(s2) : k < l => s2[k] < s2[l]
      BY <1>4, <2>1, <3>7, WrittenCount DEF Ordered, Adds
    <3>9. QED
      BY <1>4, <3>1, <3>6, <3>8 DEF Ordered
  <2>2. QED
    BY <1>4, <2>0, <2>1, TakesPending DEF Works
<1>5. QED
  BY <1>1, <1>2, <1>3, <1>4 DEF Ran

-----------------------------------------------------------------------------
(* What becomes of messages *)

\* The messages that some queue has.
HeldIn(q) == UNION {MessagesOf(q[g]) : g \in Gens}

\* Of messages that are held, written, and promises: what is held stays so, or is written,
\* or it is lost and its caller does not wait; and a promise resolves with a message written.
Accounts(held, written, p, held2, written2, p2) ==
    /\ written \subseteq written2 /\ written2 \subseteq written \cup held
    /\ held2 \subseteq held
    /\ \A m \in held : m \in held2 \/ m \in written2 \/ p2[batch[m]] # "pending"
    /\ \A b \in Messages :
         \/ p2[b] = p[b]
         \/ p[b] = "pending" /\ p2[b] = "rejected"
         \/ /\ p[b] = "pending" /\ p2[b] = "resolved"
            /\ \E m \in written2 : batch[m] = b

\* One such step after another.
LEMMA AccountsTwice ==
    ASSUME NEW h1, NEW w1, NEW p1, NEW h2, NEW w2, NEW p2, NEW h3, NEW w3, NEW p3,
           Accounts(h1, w1, p1, h2, w2, p2), Accounts(h2, w2, p2, h3, w3, p3),
           \A m \in h1 : batch[m] \in Messages
    PROVE  Accounts(h1, w1, p1, h3, w3, p3)
<1>1. w1 \subseteq w3 /\ w3 \subseteq w1 \cup h1 /\ h3 \subseteq h1
  BY DEF Accounts
<1>2. \A b \in Messages : p2[b] # "pending" => p3[b] # "pending"
  BY DEF Accounts
<1>3. \A m \in h1 : m \in h3 \/ m \in w3 \/ p3[batch[m]] # "pending"
  BY <1>2 DEF Accounts
<1>4. \A b \in Messages :
         \/ p3[b] = p1[b]
         \/ p1[b] = "pending" /\ p3[b] = "rejected"
         \/ /\ p1[b] = "pending" /\ p3[b] = "resolved"
            /\ \E m \in w3 : batch[m] = b
  BY DEF Accounts
<1>5. QED
  BY <1>1, <1>3, <1>4 DEF Accounts

\* A step of one queue accounts for all messages when it does so for its own.
LEMMA AccountsLifted ==
    ASSUME NEW g \in Gens, NEW q, NEW w, NEW p, NEW q2, NEW w2, NEW p2,
           \A h \in Gens \ {g} : q2[h] = q[h],
           Accounts(MessagesOf(q[g]), w, p, MessagesOf(q2[g]), w2, p2)
    PROVE  Accounts(HeldIn(q), w, p, HeldIn(q2), w2, p2)
<1>1. \A m : m \in HeldIn(q) <=> \E h \in Gens : m \in MessagesOf(q[h])
  BY DEF HeldIn
<1>2. \A m : m \in HeldIn(q2) <=> \E h \in Gens : m \in MessagesOf(q2[h])
  BY DEF HeldIn
<1>3. QED
  BY <1>1, <1>2 DEF Accounts

\* What is known of messages and batches stays known.
LEMMA KnownKept ==
    ASSUME NEW g \in Gens, NEW q, NEW s, NEW p, NEW q2, NEW s2, NEW p2,
           Typed(q, s, p), BatchInv, Known(q, s, p), \A h \in Gens \ {g} : q2[h] = q[h],
           Accounts(HeldIn(q), Written(s), p, HeldIn(q2), Written(s2), p2),
           KnownQueue(q2[g], s2, p2)
    PROVE  Known(q2, s2, p2)
<1>1. \A b \in Messages : p[b] # "pending" => p2[b] # "pending"
  BY DEF Accounts
<1>2. \A m \in Messages : batch[m] # 0 => batch[m] \in Messages
  BY DEF BatchInv
<1>3. Written(s) \subseteq Written(s2)
  BY DEF Accounts
<1>4. ASSUME NEW h \in Gens, h # g
      PROVE  KnownQueue(q2[h], s2, p2)
  <2>1. q[h] \in QueueType /\ q2[h] = q[h] /\ KnownQueue(q[h], s, p)
    BY <1>4 DEF Typed, Known
  <2>2. QED
    BY <1>1, <1>2, <1>3, <2>1, TaskCount DEF KnownQueue, KnownTask
<1>5. ASSUME NEW h \in Gens, NEW m \in MessagesOf(q[h])
      PROVE  batch[m] # 0
  BY <1>5 DEF Known, KnownQueue, KnownTask, MessagesOf
<1>6. \A m \in Written(s2) : batch[m] # 0
  BY <1>5 DEF Known, Accounts, HeldIn
<1>7. QED
  BY <1>4, <1>6 DEF Known

\* A queue that runs accounts for its messages.
LEMMA RanAccounts ==
    ASSUME NEW x \in QueueType, NEW s \in Seq(Messages), NEW p \in [Messages -> Outcomes],
           NEW x2 \in QueueType, NEW s2 \in Seq(Messages), NEW p2,
           Ran(x, s, p, x2, s2, p2), BatchInv, KnownQueue(x, s, p)
    PROVE  /\ Accounts(MessagesOf(x), Written(s), p, MessagesOf(x2), Written(s2), p2)
           /\ KnownQueue(x2, s2, p2)
<1>1. CASE x2 = x /\ s2 = s /\ p2 = p
  BY <1>1 DEF Accounts
<1>2. CASE /\ x.worker.stage = "idle" /\ x2.worker.stage = "idle"
           /\ Len(x2.tasks) = 0 /\ s2 = s
           /\ p2 = Settled(p, {x.tasks[i] : i \in 1..Len(x.tasks)}, "rejected")
  <2>1. \A b \in Messages : p2[b] = p[b] \/ (p[b] = "pending" /\ p2[b] = "rejected")
    BY <1>2, SettledShape DEF Outcomes
  <2>2. ASSUME NEW i \in 1..Len(x.tasks)
        PROVE  p2[batch[x.tasks[i].msg]] # "pending"
    <3> DEFINE ts == {x.tasks[j] : j \in 1..Len(x.tasks)}
               t == x.tasks[i]
    <3>1. t \in ts /\ batch[t.msg] \in Messages /\ t.tells \in BOOLEAN
      BY TaskCount DEF BatchInv, KnownQueue, KnownTask
    <3>2. p2 = Settled(p, ts, "rejected")
      BY <1>2
    <3>3. ~t.tells => p[batch[t.msg]] # "pending"
      BY DEF KnownQueue, KnownTask
    <3> HIDE DEF ts, t
    <3>4. CASE t.tells
      BY <3>1, <3>2, <3>4, SettledShape DEF Outcomes, t
    <3>5. CASE ~t.tells
      BY <2>1, <3>1, <3>3, <3>5 DEF t
    <3>6. QED
      BY <3>1, <3>4, <3>5
  <2>3. MessagesOf(x2) = {}
    BY <1>2 DEF MessagesOf
  <2>4. \A m \in MessagesOf(x) : p2[batch[m]] # "pending"
    BY <1>2, <2>2 DEF MessagesOf
  <2>5. QED
    BY <1>2, <2>1, <2>3, <2>4 DEF Accounts, KnownQueue
<1>3. CASE Takes(x, x2) /\ x2.worker.stage = "wait" /\ s2 = s /\ p2 = p
  <2>1. Accounts(MessagesOf(x), Written(s), p, MessagesOf(x2), Written(s2), p2)
    BY <1>3, TakesPending DEF Accounts
  <2>2. KnownQueue(x2, s2, p2)
    BY <1>3, TaskCount DEF KnownQueue, Takes
  <2>3. QED
    BY <2>1, <2>2
<1>4. CASE /\ Takes(x, x2) /\ x2.worker.stage = "write"
           /\ Adds(s, x.tasks[1].msg, s2) /\ p2 = p
  <2> DEFINE m == x.tasks[1].msg
  <2>1. m \in Messages /\ m \in Pending(x) /\ m \in MessagesOf(x)
    BY <1>4, TaskCount, TakesPending DEF Takes, Pending, MessagesOf
  <2>2. Written(s2) = Written(s) \cup {m}
    BY <1>4, <2>1, AddsWritten
  <2>3. Accounts(MessagesOf(x), Written(s), p, MessagesOf(x2), Written(s2), p2)
    BY <1>4, <2>1, <2>2, TakesPending DEF Accounts
  <2>4. KnownQueue(x2, s2, p2)
    BY <1>4, <2>2, TaskCount DEF KnownQueue, Takes
  <2>5. QED
    BY <2>3, <2>4
<1>5. QED
  BY <1>1, <1>2, <1>3, <1>4 DEF Ran

\* What the invariant says of queues, written messages and promises.
MessagesOK(q, s, p) == Known(q, s, p) /\ Apart(q, s)

\* A step of process() keeps it, whatever queues and promises it starts from.
LEMMA RunsKeeps ==
    ASSUME NEW g \in Gens, NEW q, NEW p, NEW ended, Typed(q, sent, p), ws \in Gens \cup {0},
           drainTimer \in BOOLEAN, BatchInv, MessagesOK(q, sent, p), Runs(g, q, p, ended)
    PROVE  /\ Accounts(HeldIn(q), Written(sent), p, HeldIn(queue'), Written(sent'), promise')
           /\ MessagesOK(queue', sent', promise')
           /\ InOrder(q, sent) => InOrder(queue', sent')
<1>1. /\ q[g] \in QueueType /\ sent \in Seq(Messages) /\ p \in [Messages -> Outcomes]
      /\ KnownQueue(q[g], sent, p)
  BY DEF Typed, MessagesOK, Known
<1>2. /\ queue'[g] \in QueueType /\ sent' \in Seq(Messages)
      /\ Ran(q[g], sent, p, queue'[g], sent', promise')
      /\ \A h \in Gens \ {g} : queue'[h] = q[h]
  BY RunsShape DEF Typed
<1>3. Works(q[g], sent, queue'[g], sent')
  BY <1>1, <1>2, RanWorks
<1>4. /\ Accounts(MessagesOf(q[g]), Written(sent), p, MessagesOf(queue'[g]), Written(sent'),
                  promise')
      /\ KnownQueue(queue'[g], sent', promise')
  BY <1>1, <1>2, RanAccounts
<1>5. Accounts(HeldIn(q), Written(sent), p, HeldIn(queue'), Written(sent'), promise')
  BY <1>2, <1>4, AccountsLifted
<1>6. Known(queue', sent', promise')
  BY <1>2, <1>4, <1>5, KnownKept DEF MessagesOK
<1>7. Apart(queue', sent') /\ (InOrder(q, sent) => InOrder(queue', sent'))
  BY <1>1, <1>2, <1>3, WorksApart DEF MessagesOK
<1>8. QED
  BY <1>5, <1>6, <1>7 DEF MessagesOK

-----------------------------------------------------------------------------
(* A task ends, or goes back to a queue *)

\* The worker of queue g is done with its task, which failed or was written.
Freed(g) == [queue EXCEPT ![g].worker = Idle]

\* Such a worker keeps messages apart, and its task's caller has been told.
LEMMA EndsKeeps ==
    ASSUME NEW g \in Gens, NEW o \in {"resolved", "rejected"}, NEW p2,
           Typed(queue, sent, promise), BatchInv, MessagesOK(queue, sent, promise),
           queue[g].worker.stage # "idle", o = "resolved" => queue[g].worker.stage = "write",
           p2 = Settled(promise, {queue[g].worker.task}, o)
    PROVE  /\ Typed(Freed(g), sent, p2)
           /\ MessagesOK(Freed(g), sent, p2)
           /\ InOrder(queue, sent) => InOrder(Freed(g), sent)
           /\ HeldIn(Freed(g)) \subseteq HeldIn(queue)
           /\ Accounts(HeldIn(queue), Written(sent), promise,
                       HeldIn(Freed(g)), Written(sent), p2)
           /\ \A t \in {queue[g].worker.task} :
                 ~(p2[batch[t.msg]] = "pending") /\ batch[t.msg] # 0 /\ t \in TaskType
<1> DEFINE x == queue[g]
           x2 == [x EXCEPT !.worker = Idle]
           t == x.worker.task
<1>1. /\ x \in QueueType /\ sent \in Seq(Messages) /\ promise \in [Messages -> Outcomes]
      /\ KnownQueue(x, sent, promise) /\ x.worker.stage # "idle"
      /\ \A b \in Messages : batch[b] # 0 => batch[b] \in Messages
  BY DEF Typed, MessagesOK, Known, BatchInv
<1>2. t \in TaskType /\ t.msg \in Messages /\ t.tells \in BOOLEAN
  BY <1>1, QueueFields, WorkerFields, TaskFields
<1>3. /\ batch[t.msg] # 0 /\ batch[t.msg] \in Messages
      /\ ~t.tells => promise[batch[t.msg]] # "pending"
      /\ x.worker.stage = "write" => t.msg \in Written(sent)
  BY <1>1, <1>2 DEF KnownQueue, KnownTask
<1>4. x2 \in QueueType /\ x2.tasks = x.tasks /\ x2.worker.stage = "idle"
  BY <1>1, WorkerKinds DEF QueueType
<1>5. /\ Freed(g) \in [Gens -> QueueType] /\ Freed(g)[g] = x2
      /\ \A h \in Gens \ {g} : Freed(g)[h] = queue[h]
  BY <1>4 DEF Freed, Typed
<1> HIDE DEF x, x2, t
<1>6. /\ p2 = Settled(promise, {t}, o)
      /\ o = "resolved" => x.worker.stage = "write"
  BY DEF t, x
<1>7. /\ p2 \in [Messages -> Outcomes]
      /\ \A b \in Messages : \/ p2[b] = promise[b]
                             \/ promise[b] = "pending" /\ p2[b] = o /\ batch[t.msg] = b
      /\ t.tells => p2[batch[t.msg]] # "pending"
  <2> DEFINE ts == {t}
  <2>1. /\ p2 = Settled(promise, ts, o)
        /\ promise \in [Messages -> {"none", "pending", "resolved", "rejected"}]
    BY <1>1, <1>6 DEF Outcomes
  <2>2. \A u \in ts : u = t
    OBVIOUS
  <2>3. t \in ts
    OBVIOUS
  <2> HIDE DEF ts
  <2>4. p2 \in [Messages -> {"none", "pending", "resolved", "rejected"}]
    BY <2>1, SettledShape
  <2>5. \A b \in Messages : \/ p2[b] = promise[b]
                            \/ promise[b] = "pending" /\ p2[b] = o /\ batch[t.msg] = b
    BY <2>1, <2>2, SettledShape
  <2>6. t.tells => p2[batch[t.msg]] # "pending"
    BY <1>3, <2>1, <2>3, SettledShape
  <2>7. QED
    BY <2>4, <2>5, <2>6 DEF Outcomes
<1>8. p2[batch[t.msg]] # "pending"
  BY <1>2, <1>3, <1>7
<1>9. /\ Pending(x2) \subseteq Pending(x) /\ MessagesOf(x2) \subseteq MessagesOf(x)
      /\ MessagesOf(x) \subseteq MessagesOf(x2) \cup {t.msg}
  BY <1>1, <1>4 DEF Pending, MessagesOf, t
<1>10. Works(x, sent, x2, sent)
  BY <1>4, <1>9 DEF Works, Distinct, Ordered
<1>11. Accounts(MessagesOf(x), Written(sent), promise, MessagesOf(x2), Written(sent), p2)
  BY <1>3, <1>6, <1>7, <1>8, <1>9 DEF Accounts
<1>12. Accounts(HeldIn(queue), Written(sent), promise, HeldIn(Freed(g)), Written(sent), p2)
  BY <1>5, <1>11, AccountsLifted DEF x
<1>13. KnownQueue(x2, sent, p2)
  <2>1. \A b \in Messages : promise[b] # "pending" => p2[b] # "pending"
    BY <1>7
  <2>2. ASSUME NEW i \in 1..Len(x.tasks) PROVE KnownTask(x2.tasks[i], p2)
    BY <1>1, <1>4, <2>1, TaskCount DEF KnownQueue, KnownTask
  <2>3. QED
    BY <1>4, <2>2 DEF KnownQueue
<1>14. Known(Freed(g), sent, p2)
  BY <1>5, <1>12, <1>13, KnownKept DEF MessagesOK
<1>15. Apart(Freed(g), sent) /\ (InOrder(queue, sent) => InOrder(Freed(g), sent))
  BY <1>1, <1>5, <1>10, WorksApart DEF MessagesOK, x
<1>16. Typed(Freed(g), sent, p2)
  BY <1>1, <1>5, <1>7 DEF Typed
<1>17. QED
  BY <1>2, <1>3, <1>8, <1>12, <1>14, <1>15, <1>16 DEF MessagesOK, Accounts, t, x

\* A task is put in front of a queue.
Put(x, t) == [x EXCEPT !.tasks = <<t>> \o @, !.due = TRUE]
PutFirst(q, k, t) == [q EXCEPT ![k] = Put(@, t)]

\* Such a queue.
LEMMA PutShape ==
    ASSUME NEW x \in QueueType, NEW t \in TaskType
    PROVE  /\ Put(x, t) \in QueueType /\ Put(x, t).worker = x.worker
           /\ Len(Put(x, t).tasks) = Len(x.tasks) + 1
           /\ Put(x, t).tasks[1] = t
           /\ \A i \in 1..Len(x.tasks) : Put(x, t).tasks[i + 1] = x.tasks[i]
           /\ \A i \in 1..Len(Put(x, t).tasks) :
                i = 1 \/ (i - 1 \in 1..Len(x.tasks) /\ Put(x, t).tasks[i] = x.tasks[i - 1])
           /\ MessagesOf(Put(x, t)) = MessagesOf(x) \cup {t.msg}
           /\ Pending(Put(x, t)) = Pending(x) \cup {t.msg}
<1> DEFINE x2 == Put(x, t)
<1>1. x.tasks \in Seq(TaskType) /\ <<t>> \in Seq(TaskType) /\ Len(<<t>>) = 1 /\ <<t>>[1] = t
  BY QueueFields
<1> DEFINE ts == <<t>> \o x.tasks
<1>2. /\ ts \in Seq(TaskType) /\ Len(ts) = Len(x.tasks) + 1
      /\ \A i \in 1..Len(ts) : ts[i] = IF i <= 1 THEN <<t>>[i] ELSE x.tasks[i - 1]
      /\ Len(x.tasks) \in Nat
  BY <1>1, ConcatProperties, LenProperties
<1> HIDE DEF ts
<1>3. x2 = [x EXCEPT !.tasks = ts, !.due = TRUE]
  BY DEF ts, Put
<1> HIDE DEF x2
<1>4. x2 \in QueueType /\ x2.tasks = ts /\ x2.worker = x.worker
  BY <1>2, <1>3 DEF QueueType
<1>5. /\ Len(x2.tasks) = Len(x.tasks) + 1
      /\ x2.tasks[1] = t
      /\ \A i \in 1..Len(x.tasks) : i + 1 \in 1..Len(x2.tasks) /\ x2.tasks[i + 1] = x.tasks[i]
      /\ \A i \in 1..Len(x2.tasks) :
           i = 1 \/ (i - 1 \in 1..Len(x.tasks) /\ x2.tasks[i] = x.tasks[i - 1])
  BY <1>1, <1>2, <1>4
<1>6. 1 \in 1..Len(x2.tasks) /\ t.msg \in Messages
  <2>1. t.msg \in Messages
    BY TaskFields
  <2>2. Len(x2.tasks) \in Nat /\ Len(x2.tasks) >= 1
    BY <1>2, <1>5
  <2>3. QED
    BY <2>1, <2>2
<1>7. MessagesOf(x2) = MessagesOf(x) \cup {t.msg}
  <2>1. MessagesOf(x2) \subseteq MessagesOf(x) \cup {t.msg}
    BY <1>4, <1>5 DEF MessagesOf
  <2>2. MessagesOf(x) \cup {t.msg} \subseteq MessagesOf(x2)
    BY <1>4, <1>5, <1>6 DEF MessagesOf
  <2>3. QED
    BY <2>1, <2>2
<1>8. Pending(x2) = Pending(x) \cup {t.msg}
  <2>1. Pending(x2) \subseteq Pending(x) \cup {t.msg}
    BY <1>4, <1>5 DEF Pending
  <2>2. Pending(x) \cup {t.msg} \subseteq Pending(x2)
    BY <1>4, <1>5, <1>6 DEF Pending
  <2>3. QED
    BY <2>1, <2>2
<1>9. QED
  BY <1>4, <1>5, <1>7, <1>8 DEF x2

\* A task that is put in front keeps messages apart, and in order if it comes before them.
LEMMA PutKeeps ==
    ASSUME NEW k \in Gens, NEW q, NEW s, NEW p, NEW t \in TaskType,
           Typed(q, s, p), MessagesOK(q, s, p), KnownTask(t, p),
           \A g \in Gens : t.msg \notin Pending(q[g]), t.msg \notin Written(s)
    PROVE  /\ Typed(PutFirst(q, k, t), s, p)
           /\ MessagesOK(PutFirst(q, k, t), s, p)
           /\ HeldIn(PutFirst(q, k, t)) = HeldIn(q) \cup {t.msg}
           /\ /\ k = 1 /\ InOrder(q, s)
              /\ \A n \in Written(s) : n < t.msg
              /\ \A i \in 1..Len(q[1].tasks) : t.msg < q[1].tasks[i].msg
              /\ q[1].worker.stage # "wait"
              => InOrder(PutFirst(q, k, t), s)
<1> DEFINE q2 == PutFirst(q, k, t)
           x == q[k]
           x2 == Put(x, t)
<1>1. x \in QueueType /\ q \in [Gens -> QueueType]
  BY DEF Typed
<1>3. q2 = [q EXCEPT ![k] = x2]
  BY <1>1 DEF PutFirst
<1>2. /\ x2 \in QueueType /\ x2.worker = x.worker
      /\ Len(x2.tasks) = Len(x.tasks) + 1
      /\ x2.tasks[1] = t
      /\ \A i \in 1..Len(x.tasks) : x2.tasks[i + 1] = x.tasks[i]
      /\ \A i \in 1..Len(x2.tasks) :
           i = 1 \/ (i - 1 \in 1..Len(x.tasks) /\ x2.tasks[i] = x.tasks[i - 1])
      /\ MessagesOf(x2) = MessagesOf(x) \cup {t.msg}
      /\ Pending(x2) = Pending(x) \cup {t.msg}
  BY <1>1, PutShape
<1> HIDE DEF x2, q2
<1>4. /\ q2 \in [Gens -> QueueType] /\ q2[k] = x2
      /\ \A h \in Gens \ {k} : q2[h] = q[h]
  BY <1>1, <1>2, <1>3
<1>5. Typed(q2, s, p)
  BY <1>4 DEF Typed
<1>6. HeldIn(q2) = HeldIn(q) \cup {t.msg}
  <2>1. \A m : m \in HeldIn(q) <=> \E h \in Gens : m \in MessagesOf(q[h])
    BY DEF HeldIn
  <2>2. \A m : m \in HeldIn(q2) <=> \E h \in Gens : m \in MessagesOf(q2[h])
    BY DEF HeldIn
  <2>3. QED
    BY <1>2, <1>4, <2>1, <2>2
<1>7. \A m \in Pending(x) : m # t.msg
  OBVIOUS
<1>8. \A i \in 1..Len(x.tasks) : x.tasks[i].msg # t.msg
  BY <1>1, <1>7, TaskCount DEF Pending
<1>9. Distinct(x2)
  <2>1. Distinct(x)
    BY DEF MessagesOK, Apart
  <2>2. x.worker.stage = "wait" => x.worker.task.msg # t.msg
    BY <1>1, <1>7, TaskCount DEF Pending
  <2>3. x2.worker.stage = "wait" =>
          \A i \in 1..Len(x2.tasks) : x2.worker.task.msg # x2.tasks[i].msg
    <3> SUFFICES ASSUME x2.worker.stage = "wait", NEW i \in 1..Len(x2.tasks)
                 PROVE  x2.worker.task.msg # x2.tasks[i].msg
      OBVIOUS
    <3> HIDE DEF x
    <3>1. CASE i = 1
      BY <1>2, <2>2, <3>1
    <3>2. CASE i # 1
      <4>1. i - 1 \in 1..Len(x.tasks) /\ x2.tasks[i] = x.tasks[i - 1]
        BY <1>2, <3>2
      <4>2. x.worker.task.msg # x.tasks[i - 1].msg
        BY <1>2, <2>1, <4>1 DEF Distinct
      <4>3. QED
        BY <1>2, <4>1, <4>2
    <3>3. QED
      BY <3>1, <3>2
  <2>4. ASSUME NEW i \in 1..Len(x2.tasks), NEW j \in 1..Len(x2.tasks),
               x2.tasks[i].msg = x2.tasks[j].msg
        PROVE  i = j
    <3>1. CASE i = 1 \/ j = 1
      BY <1>2, <1>8, <2>4, <3>1
    <3>2. CASE i # 1 /\ j # 1
      <4>0. /\ i - 1 \in 1..Len(x.tasks) /\ x2.tasks[i] = x.tasks[i - 1]
            /\ j - 1 \in 1..Len(x.tasks) /\ x2.tasks[j] = x.tasks[j - 1]
        BY <1>2, <3>2
      <4>1. i - 1 = j - 1
        BY <2>1, <2>4, <4>0 DEF Distinct
      <4>2. QED
        BY <4>1
    <3>3. QED
      BY <3>1, <3>2
  <2>5. QED
    BY <2>3, <2>4 DEF Distinct
<1>10. Apart(q2, s)
  <2>1. \A h \in Gens : Distinct(q2[h]) /\ Pending(q2[h]) \cap Written(s) = {}
    BY <1>2, <1>4, <1>9 DEF MessagesOK, Apart
  <2>2. \A g, h \in Gens : g # h => Pending(q2[g]) \cap Pending(q2[h]) = {}
    <3> SUFFICES ASSUME NEW g \in Gens, NEW h \in Gens, g # h, NEW m,
                        m \in Pending(q2[g]), m \in Pending(q2[h])
                 PROVE  FALSE
      OBVIOUS
    <3>1. ~(m \in Pending(q[g]) /\ m \in Pending(q[h]))
      BY DEF MessagesOK, Apart
    <3>2. CASE g = k
      BY <1>2, <1>4, <3>1, <3>2
    <3>3. CASE h = k
      BY <1>2, <1>4, <3>1, <3>3
    <3>4. QED
      BY <1>4, <3>1, <3>2, <3>3
  <2>3. QED
    BY <2>1, <2>2 DEF MessagesOK, Apart
<1>11. Known(q2, s, p)
  <2>1. KnownQueue(x, s, p)
    BY DEF MessagesOK, Known
  <2>2. ASSUME NEW i \in 1..Len(x2.tasks) PROVE KnownTask(x2.tasks[i], p)
    BY <1>2, <2>1 DEF KnownQueue
  <2>3. KnownQueue(x2, s, p)
    BY <1>2, <2>1, <2>2 DEF KnownQueue
  <2>4. QED
    BY <1>4, <2>3 DEF MessagesOK, Known
<1>12. ASSUME k = 1, InOrder(q, s), \A n \in Written(s) : n < t.msg,
              \A i \in 1..Len(q[1].tasks) : t.msg < q[1].tasks[i].msg,
              q[1].worker.stage # "wait"
       PROVE  InOrder(q2, s)
  <2>1. ASSUME NEW i \in 1..Len(x2.tasks), NEW j \in 1..Len(x2.tasks), i < j
        PROVE  x2.tasks[i].msg < x2.tasks[j].msg
    <3> DEFINE Moved(n) == n - 1 \in 1..Len(x.tasks) /\ x2.tasks[n] = x.tasks[n - 1]
    <3>0. \A n \in 1..Len(x2.tasks) : n = 1 \/ Moved(n)
      BY <1>2
    <3> HIDE DEF Moved
    <3>1. Moved(j)
      <4>1. j # 1
        BY <2>1
      <4>2. QED
        BY <2>1, <3>0, <4>1
    <3>2. CASE i = 1
      BY <1>2, <1>12, <3>1, <3>2 DEF Moved
    <3>3. CASE i # 1
      <4>1. Moved(i)
        BY <2>1, <3>0, <3>3
      <4>3. i - 1 < j - 1
        BY <2>1
      <4>4. QED
        BY <1>12, <3>1, <4>1, <4>3 DEF InOrder, Ordered, Moved
    <3>4. QED
      BY <3>2, <3>3
  <2>2. \A m \in Pending(x2), n \in Written(s) : n < m
    BY <1>2, <1>12 DEF InOrder, Ordered
  <2>3. Ordered(x2, s)
    BY <1>2, <1>12, <2>1, <2>2 DEF InOrder, Ordered
  <2>4. QED
    BY <1>4, <1>12, <2>3 DEF InOrder
<1>13. QED
  BY <1>5, <1>6, <1>10, <1>11, <1>12 DEF MessagesOK, q2

-----------------------------------------------------------------------------
(* The steps of queues *)

\* Queues with the same tasks, waiting and with the worker.
Alike(q, q2) == \A g \in Gens : /\ q2[g].tasks = q[g].tasks
                                /\ q2[g].worker.stage = q[g].worker.stage
                                /\ q2[g].worker.task = q[g].worker.task

\* What is known of messages is known of queues that are alike.
LEMMA AlikeKeeps ==
    ASSUME NEW q, NEW q2, NEW s, NEW p, Alike(q, q2)
    PROVE  /\ MessagesOK(q, s, p) => MessagesOK(q2, s, p)
           /\ InOrder(q, s) => InOrder(q2, s)
           /\ HeldIn(q2) = HeldIn(q)
<1>1. \A g \in Gens : /\ MessagesOf(q2[g]) = MessagesOf(q[g])
                      /\ Pending(q2[g]) = Pending(q[g])
  BY DEF Alike, MessagesOf, Pending
<1>2. \A g \in Gens : Distinct(q[g]) => Distinct(q2[g])
  BY DEF Alike, Distinct
<1>3. \A g \in Gens : KnownQueue(q[g], s, p) => KnownQueue(q2[g], s, p)
  BY DEF Alike, KnownQueue
<1>4. \A g \in Gens : Ordered(q[g], s) => Ordered(q2[g], s)
  BY <1>1 DEF Alike, Ordered
<1>5. HeldIn(q2) = HeldIn(q)
  BY <1>1 DEF HeldIn
<1>6. MessagesOK(q, s, p) => MessagesOK(q2, s, p)
  BY <1>1, <1>2, <1>3 DEF MessagesOK, Known, Apart
<1>7. InOrder(q, s) => InOrder(q2, s)
  BY <1>1, <1>4, Numbers DEF InOrder
<1>8. QED
  BY <1>5, <1>6, <1>7

\* What the types say of the parts that a step of a queue is about.
LEMMA TypesUsed ==
    ASSUME TypeOK
    PROVE  /\ Typed(queue, sent, promise)
           /\ ws \in Gens \cup {0} /\ sendingQueue \in Gens \cup {0}
           /\ drainTimer \in BOOLEAN
           /\ calls.connect \in Nat /\ calls.disconnect \in Nat
<1>1. /\ calls.connect \in 0..MaxConnects /\ calls.disconnect \in 0..MaxDisconnects
      /\ MaxConnects \in Nat /\ MaxDisconnects \in Nat
  BY BoundsAssumption DEF TypeOK
<1>2. QED
  <2>1. Typed(queue, sent, promise)
    BY DEF TypeOK, Typed, Outcomes
  <2>2. ws \in Gens \cup {0} /\ sendingQueue \in Gens \cup {0} /\ drainTimer \in BOOLEAN
    BY DEF TypeOK
  <2>3. calls.connect \in Nat /\ calls.disconnect \in Nat
    BY <1>1
  <2>4. QED
    BY <2>1, <2>2, <2>3

\* A task that is tried has been sent.
LEMMA TaskKnown ==
    ASSUME TypeOK, BatchInv, MessagesOK(queue, sent, promise), NEW m \in HeldIn(queue)
    PROVE  m \in Messages /\ batch[m] # 0 /\ batch[m] \in Messages
BY DEF HeldIn, MessagesOf, MessagesOK, Known, KnownQueue, KnownTask, BatchInv

\* What a step of a queue does and keeps.
QueueStep ==
    /\ Typed(queue', sent', promise')
    /\ MessagesOK(queue', sent', promise')
    /\ OrderInv => OrderInv'
    /\ Accounts(HeldIn(queue), Written(sent), promise, HeldIn(queue'), Written(sent'), promise')
    /\ drainTimer' \in BOOLEAN
    /\ drainTimer' => drainTimer \/ DefaultWsTransportConfig.connectionStrategy # "LEAVE_OPEN"
    /\ UNCHANGED <<batch, sendingQueue, conf, sock, ws, connecting, disconnecting, calls>>

\* A queue runs after something that keeps messages, too.
LEMMA RunsAfter ==
    ASSUME TypeOK, BatchInv, MessagesOK(queue, sent, promise), OrderInv,
           NEW g \in Gens, NEW q, NEW p, NEW ended, Runs(g, q, p, ended),
           Typed(q, sent, p), MessagesOK(q, sent, p),
           calls.connect <= 1 /\ InOrder(queue, sent) => InOrder(q, sent),
           Accounts(HeldIn(queue), Written(sent), promise, HeldIn(q), Written(sent), p)
    PROVE  QueueStep
<1>1. ws \in Gens \cup {0} /\ drainTimer \in BOOLEAN
  BY TypesUsed
<1>2. /\ Typed(queue', sent', promise')
      /\ drainTimer' \in BOOLEAN
      /\ drainTimer' => drainTimer \/ DefaultWsTransportConfig.connectionStrategy # "LEAVE_OPEN"
      /\ UNCHANGED <<batch, sendingQueue, conf, sock, ws, connecting, disconnecting, calls>>
  BY <1>1, RunsShape
<1>3. /\ Accounts(HeldIn(q), Written(sent), p, HeldIn(queue'), Written(sent'), promise')
      /\ MessagesOK(queue', sent', promise')
      /\ InOrder(q, sent) => InOrder(queue', sent')
  BY <1>1, RunsKeeps
<1>4. Accounts(HeldIn(queue), Written(sent), promise, HeldIn(queue'), Written(sent'), promise')
  BY <1>3, TaskKnown, AccountsTwice
<1>5. OrderInv'
  BY <1>2, <1>3 DEF OrderInv
<1>6. QED
  BY <1>2, <1>3, <1>4, <1>5 DEF QueueStep

\* Nothing happens to messages and promises.
LEMMA AccountsSame ==
    ASSUME NEW h, NEW w, NEW p
    PROVE  Accounts(h, w, p, h, w, p)
BY DEF Accounts

\* The scheduled call of process() is a step of a queue.
LEMMA ProcessDueStep ==
    ASSUME TypeOK, BatchInv, MessagesOK(queue, sent, promise), OrderInv,
           NEW g \in Gens, ProcessDue(g)
    PROVE  QueueStep
<1> DEFINE x2 == [queue[g] EXCEPT !.due = FALSE]
           q == [queue EXCEPT ![g] = x2]
<1>1. Runs(g, q, promise, FALSE)
  BY DEF ProcessDue
<1>2. queue \in [Gens -> QueueType] /\ queue[g] \in QueueType
  BY DEF TypeOK
<1>3. x2 \in QueueType /\ x2.tasks = queue[g].tasks /\ x2.worker = queue[g].worker
  BY <1>2 DEF QueueType
<1> HIDE DEF x2
<1>4. Typed(q, sent, promise) /\ Alike(queue, q)
  BY <1>2, <1>3, TypesUsed DEF Typed, Alike
<1> HIDE DEF q
<1>5. MessagesOK(q, sent, promise) /\ (InOrder(queue, sent) => InOrder(q, sent))
  BY <1>4, AlikeKeeps
<1>6. Accounts(HeldIn(queue), Written(sent), promise, HeldIn(q), Written(sent), promise)
  BY <1>4, AlikeKeeps, AccountsSame
<1>7. QED
  BY <1>1, <1>4, <1>5, <1>6, RunsAfter

\* The worker's task has failed, or was written.
LEMMA TaskEndsStep ==
    ASSUME TypeOK, BatchInv, MessagesOK(queue, sent, promise), OrderInv,
           NEW g \in Gens, NEW o \in {"resolved", "rejected"}, TaskEnds(g, queue, o),
           queue[g].worker.stage # "idle", o = "resolved" => queue[g].worker.stage = "write"
    PROVE  QueueStep
<1> DEFINE p == Settled(promise, {queue[g].worker.task}, o)
<1>1. Runs(g, Freed(g), p, TRUE)
  BY DEF TaskEnds, Freed
<1>2. p = Settled(promise, {queue[g].worker.task}, o) /\ Typed(queue, sent, promise)
  BY TypesUsed
<1> HIDE DEF p
<1>3. /\ Typed(Freed(g), sent, p) /\ MessagesOK(Freed(g), sent, p)
      /\ InOrder(queue, sent) => InOrder(Freed(g), sent)
      /\ Accounts(HeldIn(queue), Written(sent), promise, HeldIn(Freed(g)), Written(sent), p)
  BY <1>2, EndsKeeps
<1>4. QED
  BY <1>1, <1>3, RunsAfter

\* The worker has given up waiting for the socket.
LEMMA GivesUpStep ==
    ASSUME TypeOK, BatchInv, MessagesOK(queue, sent, promise), OrderInv,
           NEW g \in Gens, GivesUp(g), queue[g].worker.stage = "wait"
    PROVE  QueueStep
<1> DEFINE t == queue[g].worker.task
           p == Settled(promise, {t}, "rejected")
           u == [t EXCEPT !.tells = FALSE]
           k == sendingQueue
<1>1. /\ Typed(queue, sent, promise) /\ sendingQueue \in Gens \cup {0}
      /\ queue \in [Gens -> QueueType]
      /\ calls.connect \in Nat
  BY TypesUsed DEF TypeOK
<1>2. p = Settled(promise, {queue[g].worker.task}, "rejected")
  OBVIOUS
<1> HIDE DEF p
<1>3. /\ Typed(Freed(g), sent, p) /\ MessagesOK(Freed(g), sent, p)
      /\ InOrder(queue, sent) => InOrder(Freed(g), sent)
      /\ Accounts(HeldIn(queue), Written(sent), promise, HeldIn(Freed(g)), Written(sent), p)
      /\ p[batch[t.msg]] # "pending" /\ batch[t.msg] # 0 /\ t \in TaskType
  BY <1>1, <1>2, EndsKeeps
<1>4. CASE k = 0
  <2>1. Runs(g, Freed(g), p, TRUE)
    BY <1>4 DEF GivesUp, TaskEnds, Requeue, Freed, p
  <2>2. QED
    BY <1>3, <2>1, RunsAfter
<1>5. CASE k # 0
  <2> DEFINE q == PutFirst(Freed(g), k, u)
  <2>1. k \in Gens /\ k \in Nat
    BY <1>1, <1>5, Numbers
  <2>2. /\ queue[k] \in QueueType /\ queue[g] \in QueueType
        /\ queue[g].tasks \in Seq(TaskType) /\ queue[k].tasks \in Seq(TaskType)
    BY <1>1, <2>1, QueueFields
  <2>3. [Requeue(t) EXCEPT ![g].worker = Idle] = q
    <3>1. CASE k = g
      BY <1>1, <1>5, <2>1, <2>2, <3>1 DEF Requeue, PutFirst, Put, Freed, QueueType
    <3>2. CASE k # g
      BY <1>1, <1>5, <2>1, <2>2, <3>2 DEF Requeue, PutFirst, Put, Freed, QueueType
    <3>3. QED
      BY <3>1, <3>2
  <2>4. Runs(g, q, p, TRUE)
    BY <2>3 DEF GivesUp, TaskEnds, p
  <2>5. /\ u \in TaskType /\ u.msg = t.msg /\ u.tells = FALSE
        /\ t.msg \in Messages /\ t.msg \in Nat
    BY <1>3, TaskFields, Numbers
  <2>6. KnownTask(u, p)
    BY <1>3, <2>5 DEF KnownTask
  <2>7. Freed(g)[g].tasks = queue[g].tasks /\ Freed(g)[g].worker.stage = "idle"
    BY <1>1, <2>2, WorkerKinds DEF Freed, QueueType
  <2>8. t.msg \in Pending(queue[g])
    BY <2>5 DEF Pending
  <2>9. u.msg \notin Written(sent)
    BY <2>5, <2>8 DEF MessagesOK, Apart
  <2>10. \A h \in Gens : u.msg \notin Pending(Freed(g)[h])
    <3>1. u.msg \notin Pending(Freed(g)[g])
      BY <2>5, <2>7 DEF MessagesOK, Apart, Distinct, Pending
    <3>2. ASSUME NEW h \in Gens, h # g PROVE u.msg \notin Pending(Freed(g)[h])
      <4>1. Freed(g)[h] = queue[h]
        BY <1>1, <3>2 DEF Freed
      <4>2. QED
        BY <2>5, <2>8, <3>2, <4>1 DEF MessagesOK, Apart
    <3>3. QED
      BY <3>1, <3>2
  <2> HIDE DEF t, u, q
  <2>11. /\ Typed(q, sent, p) /\ MessagesOK(q, sent, p)
         /\ HeldIn(q) = HeldIn(Freed(g)) \cup {u.msg}
         /\ /\ k = 1 /\ InOrder(Freed(g), sent)
            /\ \A n \in Written(sent) : n < u.msg
            /\ \A i \in 1..Len(Freed(g)[1].tasks) : u.msg < Freed(g)[1].tasks[i].msg
            /\ Freed(g)[1].worker.stage # "wait"
            => InOrder(q, sent)
    <3> DEFINE f == Freed(g)
    <3>1. /\ k \in Gens /\ u \in TaskType /\ KnownTask(u, p)
          /\ Typed(f, sent, p) /\ MessagesOK(f, sent, p)
          /\ u.msg \notin Written(sent)
      BY <1>3, <2>1, <2>5, <2>6, <2>9
    <3>2. \A h \in Gens : u.msg \notin Pending(f[h])
      BY <2>10
    <3>3. q = PutFirst(f, k, u)
      BY DEF q
    <3> HIDE DEF f, k
    <3>4. /\ Typed(PutFirst(f, k, u), sent, p)
          /\ MessagesOK(PutFirst(f, k, u), sent, p)
          /\ HeldIn(PutFirst(f, k, u)) = HeldIn(f) \cup {u.msg}
          /\ /\ k = 1 /\ InOrder(f, sent)
             /\ \A n \in Written(sent) : n < u.msg
             /\ \A i \in 1..Len(f[1].tasks) : u.msg < f[1].tasks[i].msg
             /\ f[1].worker.stage # "wait"
             => InOrder(PutFirst(f, k, u), sent)
      BY <3>1, <3>2, PutKeeps
    <3>5. QED
      BY <3>3, <3>4 DEF f
  <2>12. u.msg \in HeldIn(queue)
    BY <2>5, <2>8 DEF HeldIn, MessagesOf, Pending
  <2>13. Accounts(HeldIn(queue), Written(sent), promise, HeldIn(q), Written(sent), p)
    BY <1>3, <2>11, <2>12 DEF Accounts
  <2>14. ASSUME calls.connect <= 1, InOrder(queue, sent) PROVE InOrder(q, sent)
    <3>1. k = 1
      BY <1>1, <2>1, <2>14, Numbers DEF OrderInv
    <3>2. g = 1
      BY <2>5, <2>8, <2>14 DEF InOrder, MessagesOf, Pending
    <3>3. /\ \A n \in Written(sent) : n < u.msg
          /\ \A i \in 1..Len(Freed(g)[1].tasks) : u.msg < Freed(g)[1].tasks[i].msg
      BY <2>5, <2>7, <2>8, <2>14, <3>2 DEF InOrder, Ordered, t
    <3>4. QED
      BY <1>3, <2>7, <2>11, <2>14, <3>1, <3>2, <3>3
  <2>15. QED
    BY <2>4, <2>11, <2>13, <2>14, RunsAfter
<1>6. QED
  BY <1>4, <1>5

\* So is a look at the socket.
LEMMA LookAgainStep ==
    ASSUME TypeOK, BatchInv, MessagesOK(queue, sent, promise), OrderInv,
           NEW g \in Gens, LookAgain(g)
    PROVE  QueueStep
<1> DEFINE x == queue[g]
           w == x.worker
<1>1. /\ w.stage = "wait" /\ queue[g].worker.stage # "idle"
      /\ queue \in [Gens -> QueueType] /\ x \in QueueType
  BY DEF LookAgain, TypeOK
<1>2. /\ w \in WorkerType /\ w.task \in TaskType /\ w.sock \in Gens
      /\ \E n \in MaxLooks : w.left \in 0..n
      /\ w = [stage |-> "wait", task |-> w.task, sock |-> w.sock, left |-> w.left]
      /\ w.task.msg \in Messages
  BY <1>1, QueueFields, WorkerFields, TaskFields
<1>3. CASE w.left = 0 /\ GivesUp(g)
  BY <1>1, <1>3, GivesUpStep
<1>4. CASE w.left > 0 /\ Writes(g)
  <2>1. CASE TaskEnds(g, queue, "rejected")
    BY <1>1, <2>1, TaskEndsStep
  <2>2. CASE /\ queue' = [queue EXCEPT ![g].worker = [stage |-> "write", task |-> w.task]]
             /\ sent' = Append(sent, w.task.msg)
             /\ UNCHANGED <<sendingQueue, conf, drainTimer, socketVars, batch, promise, calls>>
    <3> DEFINE w2 == [stage |-> "write", task |-> w.task]
               x2 == [x EXCEPT !.worker = w2]
               m == w.task.msg
    <3>1. w2 \in WorkerType /\ w2.stage = "write" /\ w2.task = w.task
      BY <1>2, WorkerKinds
    <3>2. queue' = [queue EXCEPT ![g] = x2]
      BY <2>2
    <3> HIDE DEF w2
    <3>3. x2 \in QueueType /\ x2.tasks = x.tasks /\ x2.worker = w2
      BY <1>1, <3>1 DEF QueueType
    <3> HIDE DEF x2
    <3>4. /\ queue' \in [Gens -> QueueType] /\ queue'[g] = x2
          /\ \A h \in Gens \ {g} : queue'[h] = queue[h]
      BY <1>1, <3>2, <3>3
    <3>5. /\ sent \in Seq(Messages) /\ sent' \in Seq(Messages) /\ Adds(sent, m, sent')
          /\ promise \in [Messages -> Outcomes]
      BY <1>2, <2>2, AddsShape DEF TypeOK, Outcomes
    <3>6. Typed(queue', sent', promise')
      BY <2>2, <3>4, <3>5 DEF Typed
    <3>7. Written(sent') = Written(sent) \cup {m} /\ m \in Messages
      BY <1>2, <3>5, AddsWritten
    <3>8. /\ MessagesOf(x2) = MessagesOf(x)
          /\ Pending(x2) \subseteq Pending(x)
          /\ m \in Pending(x) /\ m \in MessagesOf(x)
          /\ Distinct(x) => Distinct(x2) /\ m \notin Pending(x2)
      BY <1>1, <1>2, <3>1, <3>3 DEF MessagesOf, Pending, Distinct
    <3>9. ASSUME Ordered(x, sent) PROVE Ordered(x2, sent')
      <4>1. \A n \in Written(sent) : n < m
        BY <3>8, <3>9 DEF Ordered
      <4>2. \A n \in Pending(x2) : m < n
        BY <1>1, <3>1, <3>3, <3>9 DEF Ordered, Pending
      <4>3. \A n \in Pending(x2), l \in Written(sent') : l < n
        BY <3>7, <3>8, <3>9, <4>2 DEF Ordered
      <4>4. \A k \in 1..Len(sent) : sent[k] < m
        BY <3>5, <4>1, WrittenCount DEF Written
      <4>5. \A k, l \in 1..Len(sent') : k < l => sent'[k] < sent'[l]
        BY <3>5, <3>9, <4>4, WrittenCount DEF Ordered, Adds
      <4>6. QED
        BY <3>1, <3>3, <3>9, <4>3, <4>5 DEF Ordered
    <3>10. Works(x, sent, x2, sent')
      BY <3>5, <3>8, <3>9 DEF Works
    <3>11. Apart(queue', sent') /\ (InOrder(queue, sent) => InOrder(queue', sent'))
      BY <3>4, <3>5, <3>10, WorksApart DEF MessagesOK
    <3>12. Accounts(MessagesOf(x), Written(sent), promise,
                    MessagesOf(x2), Written(sent'), promise')
      BY <2>2, <3>7, <3>8 DEF Accounts
    <3>13. Accounts(HeldIn(queue), Written(sent), promise,
                    HeldIn(queue'), Written(sent'), promise')
      BY <3>4, <3>12, AccountsLifted
    <3>14. KnownQueue(x2, sent', promise')
      BY <1>1, <2>2, <3>1, <3>3, <3>7 DEF KnownQueue, MessagesOK, Known
    <3>15. Known(queue', sent', promise')
      BY <3>4, <3>13, <3>14, KnownKept, TypesUsed DEF MessagesOK
    <3>16. drainTimer' = drainTimer /\ drainTimer' \in BOOLEAN
      BY <2>2 DEF TypeOK
    <3>17. UNCHANGED <<batch, sendingQueue, conf, sock, ws, connecting, disconnecting, calls>>
      BY <2>2 DEF socketVars
    <3>18. OrderInv'
      BY <3>11, <3>17 DEF OrderInv
    <3>19. drainTimer' => drainTimer
      BY <3>16, Zenon
    <3>20. QED
      BY <3>6, <3>11, <3>13, <3>15, <3>16, <3>17, <3>18, <3>19 DEF QueueStep, MessagesOK
  <2>3. QED
    BY <1>4, <2>1, <2>2 DEF Writes
<1>5. CASE /\ w.left > 0
           /\ queue' = [queue EXCEPT ![g].worker.left = @ - 1]
           /\ UNCHANGED <<sendingQueue, conf, drainTimer, socketVars, messageVars, calls>>
  <2> DEFINE w2 == [w EXCEPT !.left = @ - 1]
             x2 == [x EXCEPT !.worker = w2]
  <2>1. w2 = [stage |-> "wait", task |-> w.task, sock |-> w.sock, left |-> w.left - 1]
    BY <1>2
  <2>2. PICK n \in MaxLooks : w.left \in 0..n
    BY <1>2
  <2>3. n \in Nat /\ w.left - 1 \in 0..n
    BY <1>5, <2>2, LooksTyped
  <2>4. w2 \in WorkerType /\ w2.stage = w.stage /\ w2.task = w.task
    <3> DEFINE l == w.left - 1
    <3>1. l \in 0..n /\ w.task \in TaskType /\ w.sock \in Gens
      BY <1>2, <2>3
    <3>2. w2 = [stage |-> "wait", task |-> w.task, sock |-> w.sock, left |-> l]
      BY <2>1
    <3> HIDE DEF l, w2
    <3>3. [stage |-> "wait", task |-> w.task, sock |-> w.sock, left |-> l] \in WorkerType
      BY <3>1, WorkerKinds
    <3>4. QED
      BY <1>1, <3>2, <3>3
  <2>5. queue' = [queue EXCEPT ![g] = x2]
    BY <1>5
  <2> HIDE DEF w2
  <2>6. x2 \in QueueType /\ x2.tasks = x.tasks /\ x2.worker = w2
    BY <1>1, <2>4 DEF QueueType
  <2> HIDE DEF x2
  <2>7. queue' \in [Gens -> QueueType] /\ Alike(queue, queue')
    BY <1>1, <2>4, <2>5, <2>6 DEF Alike
  <2>8. UNCHANGED <<sent, promise, batch, sendingQueue, conf, sock, ws, connecting,
                    disconnecting, calls, drainTimer>>
    BY <1>5 DEF messageVars, socketVars
  <2>9. Typed(queue', sent', promise')
    BY <2>7, <2>8, TypesUsed DEF Typed
  <2>10. /\ MessagesOK(queue', sent', promise') /\ HeldIn(queue') = HeldIn(queue)
         /\ InOrder(queue, sent) => InOrder(queue', sent')
    BY <2>7, <2>8, AlikeKeeps
  <2>11. OrderInv'
    BY <2>8, <2>10 DEF OrderInv
  <2>12. Accounts(HeldIn(queue), Written(sent), promise,
                  HeldIn(queue'), Written(sent'), promise')
    BY <2>8, <2>10, AccountsSame
  <2>13. drainTimer' \in BOOLEAN
    BY <2>8 DEF TypeOK
  <2>14. drainTimer' => drainTimer
    BY <2>8, Zenon
  <2>15. QED
    BY <2>8, <2>9, <2>10, <2>11, <2>12, <2>13, <2>14 DEF QueueStep
<1>6. QED
  BY <1>3, <1>4, <1>5 DEF LookAgain

\* And the end of a write.
LEMMA WriteEndsStep ==
    ASSUME TypeOK, BatchInv, MessagesOK(queue, sent, promise), OrderInv,
           NEW g \in Gens, WriteEnds(g)
    PROVE  QueueStep
<1>1. queue[g].worker.stage = "write" /\ queue[g].worker.stage # "idle"
  BY DEF WriteEnds
<1>2. CASE TaskEnds(g, queue, "resolved")
  BY <1>1, <1>2, TaskEndsStep
<1>3. CASE TaskEnds(g, queue, "rejected")
  BY <1>1, <1>3, TaskEndsStep
<1>4. QED
  BY <1>2, <1>3 DEF WriteEnds, WriteFails

\* A step of a queue keeps the types and the batches.
LEMMA QueueStepTypes ==
    ASSUME TypeOK, BatchInv, QueueStep
    PROVE  TypeOK' /\ BatchInv'
<1>1. UNCHANGED <<batch, sendingQueue, conf, sock, ws, connecting, disconnecting, calls>>
  BY DEF QueueStep
<1>2. /\ Typed(queue', sent', promise') /\ drainTimer' \in BOOLEAN
      /\ Accounts(HeldIn(queue), Written(sent), promise,
                  HeldIn(queue'), Written(sent'), promise')
  BY DEF QueueStep
<1>3. TypeOK'
  BY <1>1, <1>2 DEF TypeOK, Typed, Outcomes
<1>4. \A b \in Messages : promise[b] = "none" <=> promise'[b] = "none"
  BY <1>2 DEF Accounts
<1>5. Begun' = Begun
  BY <1>1 DEF Begun
<1>6. BatchInv'
  BY <1>1, <1>4, <1>5 DEF BatchInv
<1>7. QED
  BY <1>3, <1>6

-----------------------------------------------------------------------------
(* The other steps: messages *)

\* What the other steps keep, but for those of sendMessages(): messages are held as
\* before, or let go by a disconnect.
OtherStep ==
    /\ Typed(queue', sent', promise')
    /\ MessagesOK(queue', sent', promise')
    /\ InOrder(queue, sent) => InOrder(queue', sent')
    /\ \/ HeldIn(queue') = HeldIn(queue)
       \/ HeldIn(queue') \subseteq HeldIn(queue) /\ sendingQueue # 0 /\ sendingQueue' = 0
    /\ UNCHANGED <<batch, promise, sent>>

\* Queues that are alike hold the same.
LEMMA AlikeStep ==
    ASSUME TypeOK, MessagesOK(queue, sent, promise), queue' \in [Gens -> QueueType],
           Alike(queue, queue'), UNCHANGED <<batch, promise, sent>>
    PROVE  OtherStep
<1>1. Typed(queue', sent', promise')
  BY TypesUsed DEF Typed
<1>2. /\ MessagesOK(queue', sent', promise')
      /\ InOrder(queue, sent) => InOrder(queue', sent')
      /\ HeldIn(queue') = HeldIn(queue)
  BY AlikeKeeps
<1>3. QED
  BY <1>1, <1>2 DEF OtherStep

\* Nothing happens to the queues.
LEMMA SameStep ==
    ASSUME TypeOK, MessagesOK(queue, sent, promise), UNCHANGED <<queue, batch, promise, sent>>
    PROVE  OtherStep
BY AlikeStep DEF Alike, TypeOK

\* A queue is paused or resumed.
LEMMA PauseStep ==
    ASSUME TypeOK, MessagesOK(queue, sent, promise), UNCHANGED <<batch, promise, sent>>,
           Pause \/ Resume
    PROVE  OtherStep
<1> DEFINE k == sendingQueue
<1>1. queue \in [Gens -> QueueType] /\ k \in Gens \cup {0}
  BY DEF TypeOK
<1>2. CASE queue' = queue
  BY <1>2, SameStep
<1>3. CASE k # 0 /\ queue' = [queue EXCEPT ![k].paused = TRUE]
  <2>1. queue[k] \in QueueType /\ k \in Gens
    BY <1>1, <1>3
  <2> DEFINE x2 == [queue[k] EXCEPT !.paused = TRUE]
  <2>2. x2 \in QueueType /\ x2.tasks = queue[k].tasks /\ x2.worker = queue[k].worker
    BY <2>1 DEF QueueType
  <2>3. queue' = [queue EXCEPT ![k] = x2]
    BY <1>3
  <2> HIDE DEF x2
  <2>4. queue' \in [Gens -> QueueType] /\ Alike(queue, queue')
    BY <1>1, <2>1, <2>2, <2>3 DEF Alike
  <2>5. QED
    BY <2>4, AlikeStep
<1>4. CASE k # 0 /\ queue' = [queue EXCEPT ![k].paused = FALSE, ![k].due = TRUE]
  <2>1. queue[k] \in QueueType /\ k \in Gens
    BY <1>1, <1>4
  <2> DEFINE x2 == [queue[k] EXCEPT !.paused = FALSE, !.due = TRUE]
  <2>2. x2 \in QueueType /\ x2.tasks = queue[k].tasks /\ x2.worker = queue[k].worker
    BY <2>1 DEF QueueType
  <2>3. queue' = [queue EXCEPT ![k] = x2]
    BY <1>1, <1>4, <2>1 DEF QueueType
  <2> HIDE DEF x2
  <2>4. queue' \in [Gens -> QueueType] /\ Alike(queue, queue')
    BY <1>1, <2>1, <2>2, <2>3 DEF Alike
  <2>5. QED
    BY <2>4, AlikeStep
<1>5. QED
  BY <1>2, <1>3, <1>4 DEF Pause, Resume

\* A call of drain() is scheduled or made.
LEMMA DrainsStep ==
    ASSUME TypeOK, MessagesOK(queue, sent, promise), UNCHANGED <<batch, promise, sent>>,
           NEW g \in Gens, NEW drains \in BOOLEAN, queue' = [queue EXCEPT ![g].drains = drains]
    PROVE  OtherStep
<1>1. queue[g] \in QueueType /\ queue \in [Gens -> QueueType]
  BY DEF TypeOK
<1> DEFINE x2 == [queue[g] EXCEPT !.drains = drains]
<1>2. x2 \in QueueType /\ x2.tasks = queue[g].tasks /\ x2.worker = queue[g].worker
  BY <1>1 DEF QueueType
<1>3. queue' = [queue EXCEPT ![g] = x2]
  OBVIOUS
<1> HIDE DEF x2
<1>4. queue' \in [Gens -> QueueType] /\ Alike(queue, queue')
  BY <1>1, <1>2, <1>3 DEF Alike
<1>5. QED
  BY <1>4, AlikeStep

\* disconnect() drops the tasks of the queue in use.
LEMMA LetGoStep ==
    ASSUME TypeOK, BatchInv, MessagesOK(queue, sent, promise),
           UNCHANGED <<batch, promise, sent>>, LetGo
    PROVE  OtherStep
<1> DEFINE k == sendingQueue
           x == queue[k]
           x2 == [x EXCEPT !.tasks = <<>>, !.live = FALSE]
<1>1. /\ queue \in [Gens -> QueueType] /\ k \in Gens \cup {0} /\ queue' = Flushed
      /\ sendingQueue' = 0
  BY DEF TypeOK, LetGo
<1>2. CASE queue' = queue
  BY <1>2, SameStep
<1>3. CASE k # 0 /\ queue' = [queue EXCEPT ![k].tasks = <<>>, ![k].live = FALSE]
  <2>1. x \in QueueType /\ k \in Gens
    BY <1>1, <1>3
  <2>2. <<>> \in Seq(TaskType)
    OBVIOUS
  <2>3. x2 \in QueueType /\ x2.tasks = <<>> /\ x2.worker = x.worker
    BY <2>1, <2>2 DEF QueueType
  <2>4. queue' = [queue EXCEPT ![k] = x2]
    BY <1>1, <1>3, <2>1 DEF QueueType
  <2> HIDE DEF x2
  <2>5. /\ queue' \in [Gens -> QueueType] /\ queue'[k] = x2
        /\ \A h \in Gens \ {k} : queue'[h] = queue[h]
    BY <1>1, <2>1, <2>3, <2>4
  <2>6. Len(x2.tasks) = 0
    BY <2>3
  <2>7. /\ Pending(x2) \subseteq Pending(x) /\ MessagesOf(x2) \subseteq MessagesOf(x)
        /\ Distinct(x2)
    BY <2>3, <2>6 DEF Pending, MessagesOf, Distinct
  <2>8. Ordered(x, sent) => Ordered(x2, sent)
    BY <2>3, <2>6, <2>7 DEF Ordered
  <2>9. sent \in Seq(Messages) /\ Works(x, sent, x2, sent)
    BY <2>7, <2>8 DEF Works, TypeOK
  <2>10. Apart(queue', sent) /\ (InOrder(queue, sent) => InOrder(queue', sent))
    <3> HIDE DEF k
    <3>1. QED
      BY <2>1, <2>5, <2>9, WorksApart DEF MessagesOK
  <2>11. KnownQueue(x2, sent, promise)
    BY <2>1, <2>3, <2>6 DEF KnownQueue, MessagesOK, Known
  <2>12. Known(queue', sent, promise)
    BY <2>5, <2>11 DEF MessagesOK, Known
  <2>13. HeldIn(queue') \subseteq HeldIn(queue)
    BY <2>5, <2>7 DEF HeldIn
  <2>14. Typed(queue', sent', promise')
    BY <2>5, TypesUsed DEF Typed
  <2>15. QED
    BY <1>1, <1>3, <2>10, <2>12, <2>13, <2>14 DEF OtherStep, MessagesOK
<1>4. QED
  BY <1>1, <1>2, <1>3 DEF Flushed

\* The k messages that are sent next: the numbers that follow those of the ones begun.
First == Cardinality(Begun) + 1
These(k) == First..(First + k - 1)

\* What sendMessages() does, in these words.
LEMMA SendShape ==
    ASSUME TypeOK, BatchInv, NEW k \in BatchSizes, sendMessages(k)
    PROVE  /\ First \in Nat /\ First \in These(k) /\ These(k) \subseteq Messages
           /\ k \in Nat /\ k > 0
           /\ \A m \in Begun : m \in Nat /\ m < First
           /\ \A m \in These(k) : m \in Nat /\ m >= First /\ batch[m] = 0
           /\ batch' = [m \in Messages |-> IF m \in These(k) THEN First ELSE batch[m]]
           /\ \/ /\ sendingQueue = 0
                 /\ promise' = [promise EXCEPT ![First] = "rejected"]
                 /\ queue' = queue
              \/ /\ sendingQueue # 0
                 /\ promise' = [promise EXCEPT ![First] = "pending"]
                 /\ queue' = [queue EXCEPT
                       ![sendingQueue].tasks = @ \o [i \in 1..k |->
                                                       [msg |-> First + i - 1, tells |-> TRUE]],
                       ![sendingQueue].due = TRUE]
           /\ UNCHANGED <<sock, ws, connecting, disconnecting, sendingQueue, conf, drainTimer,
                          sent, calls>>
<1>1. First = Cardinality({m \in Messages : batch[m] # 0}) + 1
  BY DEF First, Begun
<1>2. First \in Nat /\ Begun = 1..(First - 1)
  BY DEF First, BatchInv
<1>3. k \in Nat /\ k > 0 /\ These(k) \subseteq Messages
  BY <1>1, MessagesAssumption DEF sendMessages, These
<1>4. \A m \in These(k) : m \in Nat /\ m >= First
  BY <1>2, <1>3 DEF These
<1>5. \A m \in Begun : m \in Nat /\ m < First
  BY <1>2
<1>6. \A m \in These(k) : batch[m] = 0
  <2> SUFFICES ASSUME NEW m \in These(k), batch[m] # 0 PROVE FALSE
    OBVIOUS
  <2>1. m \in Begun
    BY <1>3 DEF Begun
  <2>2. QED
    BY <1>2, <1>4, <1>5, <2>1
<1>7. First \in These(k)
  BY <1>2, <1>3 DEF These
<1>8. /\ batch' = [m \in Messages |-> IF m \in These(k) THEN First ELSE batch[m]]
      /\ \/ /\ sendingQueue = 0
            /\ promise' = [promise EXCEPT ![First] = "rejected"]
            /\ queue' = queue
         \/ /\ sendingQueue # 0
            /\ promise' = [promise EXCEPT ![First] = "pending"]
            /\ queue' = [queue EXCEPT
                  ![sendingQueue].tasks = @ \o [i \in 1..k |->
                                                  [msg |-> First + i - 1, tells |-> TRUE]],
                  ![sendingQueue].due = TRUE]
      /\ UNCHANGED <<sock, ws, connecting, disconnecting, sendingQueue, conf, drainTimer,
                     sent, calls>>
  BY <1>1 DEF sendMessages, These, socketVars
<1>9. QED
  BY <1>2, <1>3, <1>4, <1>5, <1>6, <1>7, <1>8

\* Batches stay known by the first of their messages.
LEMMA SendBatches ==
    ASSUME TypeOK, BatchInv, NEW k \in BatchSizes, sendMessages(k)
    PROVE  /\ BatchInv'
           /\ batch' \in [Messages -> Messages \cup {0}]
           /\ promise' \in [Messages -> Outcomes]
           /\ \A m \in Messages : batch[m] # 0 => batch'[m] = batch[m] /\ batch[m] # First
           /\ \A b \in Messages \ {First} : promise'[b] = promise[b]
           /\ promise'[First] \in {"pending", "rejected"}
           /\ \A m \in These(k) : batch'[m] = First
<1>1. /\ First \in Nat /\ First \in These(k) /\ These(k) \subseteq Messages
      /\ k \in Nat /\ k > 0
      /\ \A m \in These(k) : m \in Nat /\ m >= First /\ batch[m] = 0
      /\ batch' = [m \in Messages |-> IF m \in These(k) THEN First ELSE batch[m]]
      /\ \/ promise' = [promise EXCEPT ![First] = "rejected"]
         \/ promise' = [promise EXCEPT ![First] = "pending"]
  BY SendShape
<1>2. /\ batch \in [Messages -> Messages \cup {0}] /\ promise \in [Messages -> Outcomes]
      /\ First \in Messages /\ First # 0
  BY <1>1, Numbers DEF TypeOK, Outcomes
<1>3. batch' \in [Messages -> Messages \cup {0}] /\ promise' \in [Messages -> Outcomes]
  BY <1>1, <1>2 DEF Outcomes
<1>4. ASSUME NEW m \in Messages, batch[m] # 0
      PROVE  batch'[m] = batch[m] /\ batch[m] # First /\ batch[m] \notin These(k)
  <2>1. batch[m] \in Messages /\ batch[batch[m]] = batch[m]
    BY <1>4 DEF BatchInv
  <2>2. QED
    BY <1>1, <1>2, <1>4, <2>1
<1>5. \A m \in These(k) : batch'[m] = First
  BY <1>1
<1>6. /\ \A b \in Messages \ {First} : promise'[b] = promise[b]
      /\ promise'[First] \in {"pending", "rejected"}
  BY <1>1, <1>2
<1>7. Begun' = 1..(First + k - 1)
  <2>1. Begun = 1..(First - 1)
    BY DEF First, BatchInv
  <2>2. \A m \in Messages : batch'[m] # 0 <=> m \in Begun \/ m \in These(k)
    BY <1>1, <1>2 DEF Begun
  <2>3. Begun' = Begun \cup These(k)
    BY <1>1, <2>2 DEF Begun
  <2>4. QED
    BY <1>1, <1>2, <2>1, <2>3 DEF These
<1>8. Cardinality(1..(First + k - 1)) = First + k - 1
  BY <1>1, FS_Interval
<1>9. \A m \in Messages : batch'[m] # 0 => batch'[m] \in Messages /\ batch'[batch'[m]] = batch'[m]
  <2> SUFFICES ASSUME NEW m \in Messages, batch'[m] # 0
               PROVE  batch'[m] \in Messages /\ batch'[batch'[m]] = batch'[m]
    OBVIOUS
  <2>1. CASE m \in These(k)
    BY <1>1, <1>2, <1>5, <2>1
  <2>2. CASE m \notin These(k)
    <3>1. batch'[m] = batch[m] /\ batch[m] # 0
      BY <1>1, <2>2
    <3>2. batch[m] \in Messages /\ batch[batch[m]] = batch[m]
      BY <3>1 DEF BatchInv
    <3>3. batch'[batch[m]] = batch[batch[m]]
      BY <1>4, <3>1, <3>2
    <3>4. QED
      BY <3>1, <3>2, <3>3
  <2>3. QED
    BY <2>1, <2>2
<1>10. \A m \in Messages : batch'[m] = m <=> promise'[m] # "none"
  <2> SUFFICES ASSUME NEW m \in Messages PROVE batch'[m] = m <=> promise'[m] # "none"
    OBVIOUS
  <2>1. batch[m] = m <=> promise[m] # "none"
    BY DEF BatchInv
  <2>2. CASE m = First
    BY <1>1, <1>5, <1>6, <2>2
  <2>3. CASE m # First /\ m \in These(k)
    BY <1>1, <1>2, <1>5, <1>6, <2>1, <2>3
  <2>4. CASE m \notin These(k)
    BY <1>1, <1>6, <2>1, <2>4
  <2>5. QED
    BY <2>2, <2>3, <2>4
<1>11. BatchInv'
  BY <1>1, <1>7, <1>8, <1>9, <1>10 DEF BatchInv
<1>12. QED
  BY <1>3, <1>4, <1>5, <1>6, <1>11

\* The tasks of a batch, at the end of a queue.
Batch(k) == [i \in 1..k |-> [msg |-> First + i - 1, tells |-> TRUE]]
With(x, k) == [x EXCEPT !.tasks = @ \o Batch(k), !.due = TRUE]

\* A queue with a batch at its end.
LEMMA BatchShape ==
    ASSUME NEW k \in Nat, First \in Nat, These(k) \subseteq Messages, NEW x \in QueueType
    PROVE  /\ With(x, k) \in QueueType /\ With(x, k).worker = x.worker
           /\ Len(x.tasks) \in Nat /\ Len(With(x, k).tasks) = Len(x.tasks) + k
           /\ \A i \in 1..Len(x.tasks) : With(x, k).tasks[i] = x.tasks[i]
           /\ \A i \in 1..Len(With(x, k).tasks) : i \notin 1..Len(x.tasks) =>
                /\ With(x, k).tasks[i].msg = First + (i - Len(x.tasks)) - 1
                /\ With(x, k).tasks[i].msg \in These(k)
                /\ With(x, k).tasks[i].tells = TRUE
           /\ MessagesOf(With(x, k)) = MessagesOf(x) \cup These(k)
           /\ Pending(With(x, k)) = Pending(x) \cup These(k)
<1> DEFINE ts == x.tasks \o Batch(k)
           x2 == With(x, k)
<1>1. \A i \in 1..k : /\ First + i - 1 \in These(k)
                      /\ Batch(k)[i] = [msg |-> First + i - 1, tells |-> TRUE]
                      /\ Batch(k)[i] \in TaskType
  BY DEF These, Batch, TaskType
<1>2. Batch(k) \in Seq(TaskType) /\ Len(Batch(k)) = k
  <2>1. Batch(k) \in [1..k -> TaskType]
    BY <1>1 DEF Batch
  <2>2. QED
    BY <2>1, SeqDef, LenProperties
<1>3. x.tasks \in Seq(TaskType) /\ Len(x.tasks) \in Nat
  BY QueueFields
<1>4. /\ ts \in Seq(TaskType) /\ Len(ts) = Len(x.tasks) + k
      /\ \A i \in 1..Len(ts) : ts[i] = IF i <= Len(x.tasks) THEN x.tasks[i]
                                       ELSE Batch(k)[i - Len(x.tasks)]
  <2> DEFINE b == Batch(k)
  <2>1. b \in Seq(TaskType) /\ Len(b) = k
    BY <1>2
  <2> HIDE DEF b
  <2>2. /\ x.tasks \o b \in Seq(TaskType) /\ Len(x.tasks \o b) = Len(x.tasks) + Len(b)
        /\ \A i \in 1..(Len(x.tasks) + Len(b)) :
             (x.tasks \o b)[i] = IF i <= Len(x.tasks) THEN x.tasks[i] ELSE b[i - Len(x.tasks)]
    BY <1>3, <2>1, ConcatProperties
  <2>3. QED
    BY <2>1, <2>2 DEF b
<1> HIDE DEF ts
<1>5. x2 = [x EXCEPT !.tasks = ts, !.due = TRUE]
  BY DEF ts, With
<1> HIDE DEF x2
<1>6. x2 \in QueueType /\ x2.tasks = ts /\ x2.worker = x.worker
  BY <1>4, <1>5 DEF QueueType
<1>7. \A i \in 1..Len(x.tasks) : i \in 1..Len(ts) /\ ts[i] = x.tasks[i]
  BY <1>3, <1>4
<1>8. ASSUME NEW i \in 1..Len(ts), i \notin 1..Len(x.tasks)
      PROVE  /\ ts[i].msg = First + (i - Len(x.tasks)) - 1
             /\ ts[i].msg \in These(k) /\ ts[i].tells = TRUE
  <2>1. i - Len(x.tasks) \in 1..k /\ ts[i] = Batch(k)[i - Len(x.tasks)]
    BY <1>3, <1>4, <1>8
  <2> DEFINE j == i - Len(x.tasks)
  <2>2. /\ First + j - 1 \in These(k)
        /\ ts[i] = [msg |-> First + j - 1, tells |-> TRUE]
    BY <1>1, <2>1
  <2>3. ts[i].msg = First + j - 1 /\ ts[i].tells = TRUE
    BY <2>2
  <2>4. QED
    BY <2>2, <2>3
<1>9. ASSUME NEW m \in These(k)
      PROVE  \E i \in 1..Len(ts) : ts[i].msg = m
  <2> DEFINE j == m - First + 1
  <2>1. j \in 1..k /\ First + j - 1 = m
    BY DEF These
  <2> DEFINE l == Len(x.tasks) + j
  <2>0. l \in 1..Len(ts) /\ ~(l <= Len(x.tasks)) /\ l - Len(x.tasks) = j
    BY <1>3, <1>4, <2>1
  <2>2. l \in 1..Len(ts) /\ ts[l] = Batch(k)[j]
    BY <1>4, <2>0
  <2>3. ts[l].msg = m
    <3>1. ts[l] = [msg |-> First + j - 1, tells |-> TRUE]
      BY <1>1, <2>1, <2>2
    <3>2. ts[l].msg = First + j - 1
      BY <3>1
    <3>3. QED
      BY <2>1, <3>2
  <2>4. QED
    BY <2>2, <2>3
<1>10. MessagesOf(x2) = MessagesOf(x) \cup These(k)
  <2>1. MessagesOf(x2) \subseteq MessagesOf(x) \cup These(k)
    BY <1>6, <1>7, <1>8 DEF MessagesOf
  <2>2. MessagesOf(x) \cup These(k) \subseteq MessagesOf(x2)
    BY <1>6, <1>7, <1>9 DEF MessagesOf
  <2>3. QED
    BY <2>1, <2>2
<1>11. Pending(x2) = Pending(x) \cup These(k)
  <2>1. Pending(x2) \subseteq Pending(x) \cup These(k)
    BY <1>6, <1>7, <1>8 DEF Pending
  <2>2. Pending(x) \cup These(k) \subseteq Pending(x2)
    BY <1>6, <1>7, <1>9 DEF Pending
  <2>3. QED
    BY <2>1, <2>2
<1>12. QED
  BY <1>3, <1>4, <1>6, <1>7, <1>8, <1>10, <1>11 DEF x2

\* Messages that are sent are held in the queue in use, behind the others, if there is one.
LEMMA SendKeeps ==
    ASSUME TypeOK, BatchInv, MessagesOK(queue, sent, promise), OrderInv,
           NEW k \in BatchSizes, sendMessages(k)
    PROVE  /\ Typed(queue', sent', promise')
           /\ MessagesOK(queue, sent, promise)'
           /\ OrderInv'
           /\ sendingQueue = 0 => HeldIn(queue') = HeldIn(queue)
           /\ sendingQueue # 0 => HeldIn(queue') = HeldIn(queue) \cup These(k)
<1> DEFINE c == sendingQueue
           x == queue[c]
           x2 == With(x, k)
<1>1. /\ First \in Nat /\ These(k) \subseteq Messages /\ k \in Nat
      /\ \A m \in Begun : m \in Nat /\ m < First
      /\ \A m \in These(k) : m \in Nat /\ m >= First /\ batch[m] = 0
      /\ \/ c = 0 /\ queue' = queue
         \/ /\ c # 0
            /\ queue' = [queue EXCEPT
                  ![c].tasks = @ \o [i \in 1..k |-> [msg |-> First + i - 1, tells |-> TRUE]],
                  ![c].due = TRUE]
      /\ UNCHANGED <<sendingQueue, sent, calls>>
  BY SendShape
<1>2. /\ promise' \in [Messages -> Outcomes]
      /\ \A m \in Messages : batch[m] # 0 => batch'[m] = batch[m] /\ batch[m] # First
      /\ \A b \in Messages \ {First} : promise'[b] = promise[b]
      /\ \A m \in These(k) : batch'[m] = First
      /\ \A m \in Messages : batch[m] # 0 => batch[m] \in Messages
  BY SendBatches DEF BatchInv
<1>3. /\ queue \in [Gens -> QueueType] /\ c \in Gens \cup {0} /\ sent \in Seq(Messages)
      /\ Typed(queue, sent, promise)
      /\ calls.connect \in Nat
  BY TypesUsed DEF TypeOK
<1>4. ASSUME NEW m \in Messages, batch[m] # 0
      PROVE  m \in Nat /\ m < First /\ m \notin These(k)
  BY <1>1, <1>4 DEF Begun
<1>5. \A m \in Written(sent) : m \in Messages /\ batch[m] # 0
  BY DEF MessagesOK, Known, Written
<1>6. \A h \in Gens : \A m \in MessagesOf(queue[h]) : m \in Messages /\ batch[m] # 0
  BY DEF MessagesOK, Known, KnownQueue, KnownTask, MessagesOf
<1>7. \A h \in Gens : Pending(queue[h]) \subseteq MessagesOf(queue[h])
  BY DEF Pending, MessagesOf
<1>8. ASSUME NEW t \in TaskType, KnownTask(t, promise)
      PROVE  batch'[t.msg] # 0 /\ (~t.tells => promise'[batch'[t.msg]] # "pending")
  <2>1. t.msg \in Messages /\ batch[t.msg] # 0 /\ (~t.tells => promise[batch[t.msg]] # "pending")
    BY <1>8, TaskFields DEF KnownTask
  <2>2. /\ batch'[t.msg] = batch[t.msg] /\ batch[t.msg] \in Messages \ {First}
    BY <1>2, <2>1
  <2>3. promise'[batch[t.msg]] = promise[batch[t.msg]]
    BY <1>2, <2>2
  <2>4. QED
    BY <2>1, <2>2, <2>3
<1>9. ASSUME NEW h \in Gens
      PROVE  /\ \A i \in 1..Len(queue[h].tasks) :
                  /\ batch'[queue[h].tasks[i].msg] # 0
                  /\ ~queue[h].tasks[i].tells
                       => promise'[batch'[queue[h].tasks[i].msg]] # "pending"
             /\ queue[h].worker.stage # "idle" =>
                  /\ batch'[queue[h].worker.task.msg] # 0
                  /\ ~queue[h].worker.task.tells
                       => promise'[batch'[queue[h].worker.task.msg]] # "pending"
             /\ queue[h].worker.stage = "write" => queue[h].worker.task.msg \in Written(sent)
  <2>1. KnownQueue(queue[h], sent, promise) /\ queue[h] \in QueueType
    BY <1>3 DEF MessagesOK, Known
  <2>2. /\ \A i \in 1..Len(queue[h].tasks) : /\ queue[h].tasks[i] \in TaskType
                                             /\ KnownTask(queue[h].tasks[i], promise)
        /\ queue[h].worker.stage # "idle" => /\ queue[h].worker.task \in TaskType
                                             /\ KnownTask(queue[h].worker.task, promise)
    BY <2>1, QueueFields, WorkerFields DEF KnownQueue
  <2>3. QED
    BY <1>8, <2>1, <2>2 DEF KnownQueue
<1>10. \A m \in Written(sent) : batch'[m] # 0
  BY <1>2, <1>5
<1>11. CASE c = 0 /\ queue' = queue
  <2>1. Typed(queue', sent', promise')
    BY <1>1, <1>2, <1>3, <1>11 DEF Typed
  <2>2. \A h \in Gens : KnownQueue(queue[h], sent, promise)'
    BY <1>1, <1>9, <1>11 DEF KnownQueue, KnownTask, Written
  <2>3. Known(queue, sent, promise)'
    BY <1>1, <1>10, <2>2 DEF Known, Written
  <2>4. Apart(queue, sent)'
    BY <1>1, <1>11 DEF MessagesOK, Apart, Distinct, Pending, Written
  <2>5. InOrder(queue', sent') <=> InOrder(queue, sent)
    BY <1>1, <1>11
  <2>6. QED
    BY <1>1, <1>11, <2>1, <2>3, <2>4, <2>5 DEF MessagesOK, OrderInv
<1>12. CASE /\ c # 0
            /\ queue' = [queue EXCEPT
                  ![c].tasks = @ \o [i \in 1..k |-> [msg |-> First + i - 1, tells |-> TRUE]],
                  ![c].due = TRUE]
  <2>1. x \in QueueType /\ c \in Gens
    BY <1>3, <1>12
  <2>2. queue' = [queue EXCEPT ![c] = x2]
    BY <1>3, <1>12, <2>1 DEF With, Batch, QueueType
  <2>3. /\ x2 \in QueueType /\ x2.worker = x.worker
        /\ Len(x.tasks) \in Nat /\ Len(x2.tasks) = Len(x.tasks) + k
        /\ \A i \in 1..Len(x.tasks) : x2.tasks[i] = x.tasks[i]
        /\ \A i \in 1..Len(x2.tasks) : i \notin 1..Len(x.tasks) =>
             /\ x2.tasks[i].msg = First + (i - Len(x.tasks)) - 1
             /\ x2.tasks[i].msg \in These(k)
             /\ x2.tasks[i].tells = TRUE
        /\ MessagesOf(x2) = MessagesOf(x) \cup These(k)
        /\ Pending(x2) = Pending(x) \cup These(k)
    BY <1>1, <2>1, BatchShape
  <2> HIDE DEF x2
  <2>4. /\ queue' \in [Gens -> QueueType] /\ queue'[c] = x2
        /\ \A h \in Gens \ {c} : queue'[h] = queue[h]
    BY <1>3, <2>1, <2>2, <2>3
  <2>5. Typed(queue', sent', promise')
    BY <1>1, <1>2, <1>3, <2>4 DEF Typed
  <2>6. HeldIn(queue') = HeldIn(queue) \cup These(k)
    <3>1. \A m : m \in HeldIn(queue) <=> \E h \in Gens : m \in MessagesOf(queue[h])
      BY DEF HeldIn
    <3>2. \A m : m \in HeldIn(queue') <=> \E h \in Gens : m \in MessagesOf(queue'[h])
      BY DEF HeldIn
    <3>3. QED
      BY <2>1, <2>3, <2>4, <3>1, <3>2
  <2>7. \A i \in 1..Len(x.tasks) : x.tasks[i].msg \in Nat /\ x.tasks[i].msg < First
    <3>1. \A i \in 1..Len(x.tasks) : x.tasks[i].msg \in MessagesOf(x)
      BY <2>1, TaskCount DEF MessagesOf
    <3>2. QED
      BY <1>4, <1>6, <2>1, <3>1
  <2>8. x.worker.stage # "idle" => x.worker.task.msg \in Nat /\ x.worker.task.msg < First
    <3>1. x.worker.stage # "idle" => x.worker.task.msg \in MessagesOf(x)
      BY <2>1, TaskCount DEF MessagesOf
    <3>2. QED
      BY <1>4, <1>6, <2>1, <3>1
  <2>9. ASSUME NEW i \in 1..Len(x2.tasks), i \notin 1..Len(x.tasks)
        PROVE  /\ i \in Int /\ Len(x.tasks) \in Int /\ i > Len(x.tasks)
               /\ x2.tasks[i].msg = First + (i - Len(x.tasks)) - 1
               /\ x2.tasks[i].msg \in Nat /\ x2.tasks[i].msg >= First
    <3>1. /\ i \in Int /\ Len(x.tasks) \in Int /\ i > Len(x.tasks)
      BY <2>3, <2>9
    <3>2. /\ x2.tasks[i].msg = First + (i - Len(x.tasks)) - 1
          /\ x2.tasks[i].msg \in These(k)
      BY <2>3, <2>9
    <3>3. QED
      BY <1>1, <3>1, <3>2
  <2>10. Distinct(x2)
    <3>1. Distinct(x)
      BY <2>1 DEF MessagesOK, Apart
    <3>2. x2.worker.stage = "wait" =>
            \A i \in 1..Len(x2.tasks) : x2.worker.task.msg # x2.tasks[i].msg
      <4> SUFFICES ASSUME x2.worker.stage = "wait", NEW i \in 1..Len(x2.tasks)
                   PROVE  x2.worker.task.msg # x2.tasks[i].msg
        OBVIOUS
      <4>1. CASE i \in 1..Len(x.tasks)
        BY <2>3, <3>1, <4>1 DEF Distinct
      <4>2. CASE i \notin 1..Len(x.tasks)
        <5>1. x2.tasks[i].msg \in Nat /\ x2.tasks[i].msg >= First
          BY <2>9, <4>2
        <5>2. x2.worker.task.msg \in Nat /\ x2.worker.task.msg < First
          BY <2>3, <2>8
        <5>3. QED
          BY <1>1, <5>1, <5>2
      <4>3. QED
        BY <4>1, <4>2
    <3>3. ASSUME NEW i \in 1..Len(x2.tasks), NEW j \in 1..Len(x2.tasks),
                 x2.tasks[i].msg = x2.tasks[j].msg
          PROVE  i = j
      <4>1. CASE i \in 1..Len(x.tasks) /\ j \in 1..Len(x.tasks)
        BY <2>3, <3>1, <3>3, <4>1 DEF Distinct
      <4>2. CASE i \in 1..Len(x.tasks) /\ j \notin 1..Len(x.tasks)
        <5>1. x2.tasks[j].msg \in Nat /\ x2.tasks[j].msg >= First
          BY <2>9, <4>2
        <5>2. x2.tasks[i].msg \in Nat /\ x2.tasks[i].msg < First
          BY <2>3, <2>7, <4>2
        <5>3. QED
          BY <1>1, <3>3, <5>1, <5>2
      <4>3. CASE i \notin 1..Len(x.tasks) /\ j \in 1..Len(x.tasks)
        <5>1. x2.tasks[i].msg \in Nat /\ x2.tasks[i].msg >= First
          BY <2>9, <4>3
        <5>2. x2.tasks[j].msg \in Nat /\ x2.tasks[j].msg < First
          BY <2>3, <2>7, <4>3
        <5>3. QED
          BY <1>1, <3>3, <5>1, <5>2
      <4>4. CASE i \notin 1..Len(x.tasks) /\ j \notin 1..Len(x.tasks)
        <5> DEFINE n == Len(x.tasks)
        <5>1. First + (i - n) - 1 = First + (j - n) - 1
          BY <2>9, <3>3, <4>4
        <5>2. i \in Int /\ j \in Int /\ n \in Int /\ First \in Int
          BY <1>1, <2>9, <4>4
        <5> HIDE DEF n
        <5>3. QED
          BY <5>1, <5>2
      <4>5. QED
        BY <4>1, <4>2, <4>3, <4>4
    <3>4. QED
      BY <3>2, <3>3 DEF Distinct
  <2>11. \A h \in Gens : These(k) \cap MessagesOf(queue[h]) = {} /\ These(k) \cap Written(sent) = {}
    BY <1>4, <1>5, <1>6
  <2>12. Apart(queue', sent)
    <3>1. \A h \in Gens : Distinct(queue'[h]) /\ Pending(queue'[h]) \cap Written(sent) = {}
      BY <2>1, <2>3, <2>4, <2>10, <2>11 DEF MessagesOK, Apart
    <3>2. ASSUME NEW g \in Gens, NEW h \in Gens, g # h
          PROVE  Pending(queue'[g]) \cap Pending(queue'[h]) = {}
      <4>1. Pending(queue[g]) \cap Pending(queue[h]) = {}
        BY <3>2 DEF MessagesOK, Apart
      <4>2. These(k) \cap Pending(queue[g]) = {} /\ These(k) \cap Pending(queue[h]) = {}
        BY <1>7, <2>11
      <4>3. CASE g = c
        BY <2>3, <2>4, <3>2, <4>1, <4>2, <4>3
      <4>4. CASE h = c
        BY <2>3, <2>4, <3>2, <4>1, <4>2, <4>4
      <4>5. QED
        BY <2>4, <4>1, <4>3, <4>4
    <3>3. QED
      BY <3>1, <3>2 DEF MessagesOK, Apart
  <2>13. Apart(queue, sent)'
    BY <1>1, <2>12 DEF Apart, Distinct, Pending, Written
  <2>14. \A h \in Gens : KnownQueue(queue[h], sent, promise)'
    <3>1. ASSUME NEW h \in Gens, h # c PROVE KnownQueue(queue[h], sent, promise)'
      BY <1>1, <1>9, <2>4, <3>1 DEF KnownQueue, KnownTask, Written
    <3>2. ASSUME NEW i \in 1..Len(x2.tasks)
          PROVE  /\ batch'[x2.tasks[i].msg] # 0
                 /\ ~x2.tasks[i].tells => promise'[batch'[x2.tasks[i].msg]] # "pending"
      <4>1. CASE i \in 1..Len(x.tasks)
        BY <1>9, <2>1, <2>3, <4>1
      <4>2. CASE i \notin 1..Len(x.tasks)
        <5>1. x2.tasks[i].msg \in These(k) /\ x2.tasks[i].tells = TRUE /\ First # 0
          BY <1>1, <2>3, <4>2, SendShape, Numbers
        <5>2. QED
          BY <1>2, <5>1
      <4>3. QED
        BY <4>1, <4>2
    <3>3. KnownQueue(queue[c], sent, promise)'
      BY <1>1, <1>9, <2>1, <2>3, <2>4, <3>2 DEF KnownQueue, KnownTask, Written
    <3>4. QED
      BY <1>1, <3>1, <3>3
  <2>15. Known(queue, sent, promise)'
    BY <1>1, <1>10, <2>14 DEF Known, Written
  <2>16. ASSUME calls.connect <= 1, InOrder(queue, sent) PROVE InOrder(queue', sent)
    <3>1. c = 1
      BY <1>3, <1>12, <2>1, <2>16, Numbers DEF OrderInv
    <3>2. Ordered(x, sent)
      BY <2>16, <3>1 DEF InOrder
    <3>3. ASSUME NEW i \in 1..Len(x2.tasks), NEW j \in 1..Len(x2.tasks), i < j
          PROVE  x2.tasks[i].msg < x2.tasks[j].msg
      <4>1. CASE j \in 1..Len(x.tasks)
        <5>1. i \in 1..Len(x.tasks)
          BY <2>3, <3>3, <4>1
        <5>2. QED
          BY <2>3, <3>2, <3>3, <4>1, <5>1 DEF Ordered
      <4>2. CASE i \in 1..Len(x.tasks) /\ j \notin 1..Len(x.tasks)
        <5>1. x2.tasks[j].msg \in Nat /\ x2.tasks[j].msg >= First
          BY <2>9, <4>2
        <5>2. x2.tasks[i].msg \in Nat /\ x2.tasks[i].msg < First
          BY <2>3, <2>7, <4>2
        <5>3. QED
          BY <1>1, <5>1, <5>2
      <4>3. CASE i \notin 1..Len(x.tasks) /\ j \notin 1..Len(x.tasks)
        <5> DEFINE n == Len(x.tasks)
        <5>1. /\ x2.tasks[i].msg = First + (i - n) - 1
              /\ x2.tasks[j].msg = First + (j - n) - 1
          BY <2>9, <4>3
        <5>2. i \in Int /\ j \in Int /\ n \in Int /\ First \in Int
          BY <1>1, <2>9, <4>3
        <5> HIDE DEF n
        <5>3. First + (i - n) - 1 < First + (j - n) - 1
          BY <3>3, <5>2
        <5>4. QED
          BY <5>1, <5>3
      <4>4. QED
        BY <4>1, <4>2, <4>3
    <3>4. ASSUME x2.worker.stage = "wait", NEW i \in 1..Len(x2.tasks)
          PROVE  x2.worker.task.msg < x2.tasks[i].msg
      <4>1. CASE i \in 1..Len(x.tasks)
        BY <2>3, <3>2, <3>4, <4>1 DEF Ordered
      <4>2. CASE i \notin 1..Len(x.tasks)
        <5>1. x2.tasks[i].msg \in Nat /\ x2.tasks[i].msg >= First
          BY <2>9, <4>2
        <5>2. x2.worker.task.msg \in Nat /\ x2.worker.task.msg < First
          BY <2>3, <2>8, <3>4
        <5>3. QED
          BY <1>1, <5>1, <5>2
      <4>3. QED
        BY <4>1, <4>2
    <3>5. \A m \in Pending(x2), n \in Written(sent) : n < m
      BY <1>1, <1>4, <1>5, <2>3, <3>2 DEF Ordered
    <3>6. Ordered(x2, sent)
      BY <3>2, <3>3, <3>4, <3>5 DEF Ordered
    <3>7. QED
      BY <2>4, <2>16, <3>1, <3>6 DEF InOrder
  <2>17. OrderInv'
    BY <1>1, <2>16 DEF OrderInv
  <2>18. QED
    BY <1>12, <2>5, <2>6, <2>13, <2>15, <2>17 DEF MessagesOK
<1>13. QED
  BY <1>1, <1>11, <1>12

-----------------------------------------------------------------------------
(* The other steps: connections *)

\* The types of what a connection is made of.
WireOK ==
    /\ sock \in [Gens -> {"none", "connecting", "refused", "open", "closing", "closed"}]
    /\ ws \in Gens \cup {0}
    /\ sendingQueue \in Gens \cup {0}
    /\ conf \in Gens \cup {0}
    /\ drainTimer \in BOOLEAN
    /\ connecting \in [Gens -> {"none", "closing old", "closed old", "pending",
                                "resolved", "rejected"}]
    /\ disconnecting \in {"none", "pending", "resolved", "rejected"}
    /\ calls \in [connect : 0..MaxConnects, disconnect : 0..MaxDisconnects]
    /\ sendingQueue <= calls.connect

\* A step keeps them, and no call is taken back.
WireStep == WireOK' /\ calls.connect <= calls.connect'

\* The calls of the user, counted.
LEMMA CallsFields ==
    ASSUME WireOK
    PROVE  /\ calls.connect \in 0..MaxConnects /\ calls.disconnect \in 0..MaxDisconnects
           /\ MaxConnects \in Nat /\ MaxDisconnects \in Nat
           /\ calls.connect \in Nat /\ calls.disconnect \in Nat
           /\ \A n \in 0..MaxConnects :
                /\ [calls EXCEPT !.connect = n]
                     \in [connect : 0..MaxConnects, disconnect : 0..MaxDisconnects]
                /\ [calls EXCEPT !.connect = n].connect = n
                /\ [calls EXCEPT !.connect = n].disconnect = calls.disconnect
           /\ \A n \in 0..MaxDisconnects :
                /\ [calls EXCEPT !.disconnect = n]
                     \in [connect : 0..MaxConnects, disconnect : 0..MaxDisconnects]
                /\ [calls EXCEPT !.disconnect = n].connect = calls.connect
                /\ [calls EXCEPT !.disconnect = n].disconnect = n
<1>1. /\ calls \in [connect : 0..MaxConnects, disconnect : 0..MaxDisconnects]
      /\ MaxConnects \in Nat /\ MaxDisconnects \in Nat
  BY BoundsAssumption DEF WireOK
<1>2. calls.connect \in 0..MaxConnects /\ calls.disconnect \in 0..MaxDisconnects
  BY <1>1
<1>3. calls.connect \in Nat /\ calls.disconnect \in Nat
  BY <1>1, <1>2
<1>4. /\ \A n \in 0..MaxConnects :
           /\ [calls EXCEPT !.connect = n]
                \in [connect : 0..MaxConnects, disconnect : 0..MaxDisconnects]
           /\ [calls EXCEPT !.connect = n].connect = n
           /\ [calls EXCEPT !.connect = n].disconnect = calls.disconnect
      /\ \A n \in 0..MaxDisconnects :
           /\ [calls EXCEPT !.disconnect = n]
                \in [connect : 0..MaxConnects, disconnect : 0..MaxDisconnects]
           /\ [calls EXCEPT !.disconnect = n].connect = calls.connect
           /\ [calls EXCEPT !.disconnect = n].disconnect = n
  BY <1>1
<1>5. QED
  BY <1>1, <1>2, <1>3, <1>4

\* Promises of connect() and disconnect() that an event settles are promises.
LEMMA SettleTyped ==
    ASSUME WireOK, NEW userWaits, NEW o \in {"resolved", "rejected"}, NEW failed,
           DisconnectsSettle(userWaits, o, failed)
    PROVE  /\ disconnecting' \in {"none", "pending", "resolved", "rejected"}
           /\ connecting' \in [Gens -> {"none", "closing old", "closed old", "pending",
                                        "resolved", "rejected"}]
BY DEF WireOK, DisconnectsSettle

\* disconnect(), called by the user or by the drain timer.
LEMMA DisconnectWire ==
    ASSUME WireOK, NEW byUser, Disconnect(byUser)
    PROVE  /\ sock' \in [Gens -> {"none", "connecting", "refused", "open", "closing", "closed"}]
           /\ ws' = 0 /\ sendingQueue' = 0 /\ conf' = 0 /\ drainTimer' = FALSE
           /\ disconnecting' \in {"none", "pending", "resolved", "rejected"}
           /\ connecting' \in [Gens -> {"none", "closing old", "closed old", "pending",
                                        "resolved", "rejected"}]
<1>1. ws' = 0 /\ sendingQueue' = 0 /\ conf' = 0 /\ drainTimer' = FALSE
  BY DEF Disconnect, LetGo
<1>2. CASE readyState = "closed" /\ DisconnectsSettle(byUser \/ UserWaits, "resolved", {})
           /\ UNCHANGED sock
  <2>1. sock' \in [Gens -> {"none", "connecting", "refused", "open", "closing", "closed"}]
    BY <1>2 DEF WireOK
  <2>2. QED
    BY <1>1, <1>2, <2>1, SettleTyped
<1>3. CASE /\ readyState \in {"open", "closing"}
           /\ sock' = [sock EXCEPT ![ws] = "closing"]
           /\ disconnecting' = IF byUser THEN "pending" ELSE disconnecting
           /\ UNCHANGED connecting
  BY <1>1, <1>3 DEF WireOK
<1>4. CASE /\ readyState \in {"connecting", "refused"}
           /\ sock' = [sock EXCEPT ![ws] = "closed"]
           /\ DisconnectsSettle(byUser \/ UserWaits, "rejected", {ws})
  <2>1. sock' \in [Gens -> {"none", "connecting", "refused", "open", "closing", "closed"}]
    BY <1>4 DEF WireOK
  <2>2. QED
    BY <1>1, <1>4, <2>1, SettleTyped
<1>5. QED
  BY <1>2, <1>3, <1>4 DEF Disconnect, CloseSocket

\* A socket that is made, or could not be.
LEMMA OpensTyped ==
    ASSUME WireOK, NEW g \in Gens, OpenSocket(g)
    PROVE  /\ sock' \in [Gens -> {"none", "connecting", "refused", "open", "closing", "closed"}]
           /\ ws' \in Gens \cup {0}
           /\ connecting' \in [Gens -> {"none", "closing old", "closed old", "pending",
                                        "resolved", "rejected"}]
BY DEF WireOK, OpenSocket

\* The steps that are not about messages keep the types of the connection.
LEMMA WireKept ==
    ASSUME WireOK,
           \/ connect \/ disconnect \/ DrainTimerFires \/ sendNoMessages
           \/ \E g \in Gens : \/ ConnectGoesOn(g) \/ DrainDue(g) \/ Opens(g)
                              \/ UnexpectedResponse(g) \/ PeerCloses(g) \/ Closes(g) \/ Fails(g)
    PROVE  WireStep
<1>0. /\ calls.connect \in Nat /\ 0 <= calls.connect /\ calls.connect <= calls.connect
      /\ 0 \in Gens \cup {0} /\ FALSE \in BOOLEAN
      /\ sendingQueue \in Nat /\ sendingQueue <= calls.connect
  <2>1. calls.connect \in Nat
    BY CallsFields
  <2>2. sendingQueue \in Gens \cup {0} /\ sendingQueue <= calls.connect
    BY DEF WireOK
  <2>3. QED
    BY <2>1, <2>2, Numbers
<1>1. CASE connect
  <2> DEFINE g == calls.connect + 1
  <2>1. g \in Gens /\ g \in 0..MaxConnects /\ g \in Nat /\ calls.connect <= g
    <3>1. /\ calls.connect \in Nat /\ MaxConnects \in Nat /\ calls.connect < MaxConnects
      BY <1>1, CallsFields DEF connect
    <3>2. QED
      BY <3>1 DEF Gens
  <2>2. calls' = [calls EXCEPT !.connect = g]
    BY <1>1 DEF connect
  <2>3. /\ calls' \in [connect : 0..MaxConnects, disconnect : 0..MaxDisconnects]
        /\ calls'.connect = g
    BY <2>1, <2>2, CallsFields
  <2>4. UNCHANGED disconnecting
    BY <1>1 DEF connect
  <2>5. CASE /\ sock' = [sock EXCEPT ![ws] = "closing"]
             /\ ws' = 0 /\ sendingQueue' = 0 /\ conf' = 0 /\ drainTimer' = FALSE
             /\ connecting' = [connecting EXCEPT ![g] = "closing old"]
    <3> HIDE DEF g
    <3>1. 0 <= g /\ calls.connect <= g
      BY <2>1
    <3>2. sock' \in [Gens -> {"none", "connecting", "refused", "open", "closing", "closed"}]
      BY <2>5 DEF WireOK
    <3>3. connecting' \in [Gens -> {"none", "closing old", "closed old", "pending",
                                    "resolved", "rejected"}]
      BY <2>1, <2>5 DEF WireOK
    <3>4. QED
      BY <1>0, <2>3, <2>4, <2>5, <3>1, <3>2, <3>3 DEF WireOK, WireStep
  <2>6. CASE conf' = g /\ sendingQueue' = g /\ OpenSocket(g) /\ UNCHANGED drainTimer
    <3> HIDE DEF g
    <3>1. g <= g /\ calls.connect <= g
      BY <2>1
    <3>2. /\ sock' \in [Gens -> {"none", "connecting", "refused", "open", "closing", "closed"}]
          /\ ws' \in Gens \cup {0}
          /\ connecting' \in [Gens -> {"none", "closing old", "closed old", "pending",
                                       "resolved", "rejected"}]
      BY <2>1, <2>6, OpensTyped
    <3>3. QED
      BY <2>1, <2>3, <2>4, <2>6, <3>1, <3>2 DEF WireOK, WireStep
  <2>7. CASE /\ conf' = g
             /\ connecting' = [connecting EXCEPT ![g] = "rejected"]
             /\ UNCHANGED <<sock, ws, sendingQueue, drainTimer>>
    <3> HIDE DEF g
    <3>1. sendingQueue <= g /\ calls.connect <= g
      BY <1>0, <2>1
    <3>2. connecting' \in [Gens -> {"none", "closing old", "closed old", "pending",
                                    "resolved", "rejected"}]
      BY <2>1, <2>7 DEF WireOK
    <3>3. QED
      BY <2>1, <2>3, <2>4, <2>7, <3>1, <3>2 DEF WireOK, WireStep
  <2>8. QED
    BY <1>1, <2>5, <2>6, <2>7 DEF connect
<1>2. CASE disconnect
  <2>1. calls' = [calls EXCEPT !.disconnect = calls.disconnect + 1]
        /\ calls.disconnect < MaxDisconnects
    BY <1>2 DEF disconnect
  <2>2. /\ calls' \in [connect : 0..MaxConnects, disconnect : 0..MaxDisconnects]
        /\ calls'.connect = calls.connect
    BY <2>1, CallsFields
  <2>3. QED
    BY <1>0, <1>2, <2>2, DisconnectWire DEF disconnect, WireOK, WireStep
<1>3. CASE DrainTimerFires
  BY <1>0, <1>3, DisconnectWire DEF DrainTimerFires, WireOK, WireStep
<1>4. CASE sendNoMessages
  BY <1>0, <1>4 DEF sendNoMessages, socketVars, WireOK, WireStep
<1>5. ASSUME NEW g \in Gens, ConnectGoesOn(g) PROVE WireStep
  BY <1>0, <1>5, OpensTyped DEF ConnectGoesOn, queueVars, WireOK, WireStep
<1>6. ASSUME NEW g \in Gens, DrainDue(g) PROVE WireStep
  <2>1. drainTimer' \in BOOLEAN
    BY <1>6 DEF DrainDue, DrainHandler, WireOK
  <2>2. QED
    BY <1>0, <1>6, <2>1 DEF DrainDue, socketVars, WireOK, WireStep
<1>7. ASSUME NEW g \in Gens, Opens(g) PROVE WireStep
  BY <1>0, <1>7 DEF Opens, WireOK, WireStep
<1>8. ASSUME NEW g \in Gens, UnexpectedResponse(g) \/ PeerCloses(g) PROVE WireStep
  BY <1>0, <1>8 DEF UnexpectedResponse, PeerCloses, queueVars, WireOK, WireStep
<1>9. ASSUME NEW g \in Gens, Closes(g) \/ Fails(g) PROVE WireStep
  <2>1. \E o \in {"resolved", "rejected"}, f \in {{}, {g}} : DisconnectsSettle(UserWaits, o, f)
    BY <1>9 DEF Closes, Fails
  <2>2. /\ disconnecting' \in {"none", "pending", "resolved", "rejected"}
        /\ connecting' \in [Gens -> {"none", "closing old", "closed old", "pending",
                                     "resolved", "rejected"}]
    BY <2>1, SettleTyped
  <2>3. /\ sock' = [sock EXCEPT ![g] = "closed"]
        /\ UNCHANGED <<ws, sendingQueue, conf, drainTimer, calls>>
    BY <1>9 DEF Closes, Fails
  <2>4. QED
    BY <1>0, <2>2, <2>3 DEF WireOK, WireStep
<1>10. QED
  BY <1>1, <1>2, <1>3, <1>4, <1>5, <1>6, <1>7, <1>8, <1>9

\* And they do no more to messages than let go of them.
LEMMA OtherSteps ==
    ASSUME TypeOK, BatchInv, MessagesOK(queue, sent, promise),
           \/ connect \/ disconnect \/ DrainTimerFires \/ sendNoMessages
           \/ \E g \in Gens : \/ ConnectGoesOn(g) \/ DrainDue(g) \/ Opens(g)
                              \/ UnexpectedResponse(g) \/ PeerCloses(g) \/ Closes(g) \/ Fails(g)
    PROVE  OtherStep
<1>1. CASE connect
  BY <1>1, SameStep DEF connect, messageVars
<1>2. CASE disconnect \/ DrainTimerFires
  BY <1>2, LetGoStep DEF disconnect, DrainTimerFires, Disconnect, messageVars
<1>3. CASE sendNoMessages
  <2>1. /\ sendingQueue \in Gens /\ TRUE \in BOOLEAN
        /\ queue' = [queue EXCEPT ![sendingQueue].drains = TRUE]
        /\ UNCHANGED <<batch, promise, sent>>
    BY <1>3 DEF sendNoMessages, messageVars, TypeOK
  <2>2. QED
    BY <2>1, DrainsStep
<1>4. ASSUME NEW g \in Gens, ConnectGoesOn(g) \/ UnexpectedResponse(g) \/ PeerCloses(g)
      PROVE  OtherStep
  BY <1>4, SameStep DEF ConnectGoesOn, UnexpectedResponse, PeerCloses, queueVars, messageVars
<1>5. ASSUME NEW g \in Gens, DrainDue(g) PROVE OtherStep
  <2>1. /\ FALSE \in BOOLEAN
        /\ queue' = [queue EXCEPT ![g].drains = FALSE]
        /\ UNCHANGED <<batch, promise, sent>>
    BY <1>5 DEF DrainDue, messageVars
  <2>2. QED
    BY <2>1, DrainsStep
<1>6. ASSUME NEW g \in Gens, Opens(g) \/ Closes(g) \/ Fails(g) PROVE OtherStep
  BY <1>6, PauseStep DEF Opens, Closes, Fails, messageVars
<1>7. QED
  BY <1>1, <1>2, <1>3, <1>4, <1>5, <1>6

-----------------------------------------------------------------------------
(* The invariant about messages *)

\* Nothing is sent at first.
LEMMA InitMessages == Init => MessageInv
<1> SUFFICES ASSUME Init PROVE MessageInv
  OBVIOUS
<1>1. /\ NewQueue \in QueueType /\ NewQueue.worker = Idle /\ Idle.stage = "idle"
      /\ NewQueue.tasks = <<>> /\ Len(NewQueue.tasks) = 0
  <2>1. <<>> \in Seq(TaskType) /\ Idle \in WorkerType /\ Idle.stage = "idle"
    BY EmptySeq, WorkerKinds
  <2>2. QED
    BY <2>1, EmptySeq DEF NewQueue, QueueType
<1>2. queue = [g \in Gens |-> NewQueue] /\ sent = <<>> /\ Len(sent) = 0
  BY EmptySeq DEF Init
<1>3. TypeOK
  <2>1. calls \in [connect : 0..MaxConnects, disconnect : 0..MaxDisconnects]
    BY BoundsAssumption DEF Init
  <2>2. queue \in [Gens -> QueueType] /\ sent \in Seq(Messages)
    BY <1>1, <1>2, EmptySeq
  <2>3. drainTimer \in BOOLEAN
    BY DEF Init
  <2>4. QED
    BY <2>1, <2>2, <2>3 DEF Init, TypeOK
<1>4. BatchInv
  <2>1. Begun = {}
    BY DEF Init, Begun
  <2>2. Cardinality(Begun) = 0 /\ 1..0 = {}
    BY <2>1, FS_EmptySet
  <2>3. Cardinality(Begun) \in Nat /\ Begun = 1..Cardinality(Begun)
    BY <2>1, <2>2
  <2>4. \A m \in Messages : batch[m] = 0 /\ promise[m] = "none" /\ m # 0
    BY Numbers DEF Init
  <2>5. QED
    BY <2>3, <2>4 DEF BatchInv
<1>5. \A g \in Gens : /\ queue[g].tasks = <<>> /\ Len(queue[g].tasks) = 0
                      /\ queue[g].worker.stage = "idle"
  BY <1>1, <1>2
<1>6. \A i : i \notin 1..0
  OBVIOUS
<1>7. \A g \in Gens : Pending(queue[g]) = {} /\ MessagesOf(queue[g]) = {}
  BY <1>5, <1>6 DEF Pending, MessagesOf
<1>8. Written(sent) = {}
  BY <1>2, <1>6 DEF Written
<1>9. \A g \in Gens : Distinct(queue[g]) /\ KnownQueue(queue[g], sent, promise)
  BY <1>5, <1>6 DEF Distinct, KnownQueue
<1>10. Known(queue, sent, promise) /\ Apart(queue, sent)
  BY <1>2, <1>6, <1>7, <1>8, <1>9 DEF Known, Apart
<1>11. OrderInv
  <2>1. sendingQueue = 0 /\ calls.connect = 0
    BY DEF Init
  <2>2. Ordered(queue[1], sent)
    BY <1>2, <1>5, <1>6, <1>7, Numbers DEF Ordered
  <2>3. QED
    BY <1>7, <2>1, <2>2 DEF OrderInv, InOrder
<1>12. QED
  BY <1>3, <1>4, <1>10, <1>11 DEF MessageInv

\* What is said of the queues, messages and promises after a step is said of the state
\* after it.
LEMMA SaidOfNext ==
    ASSUME UNCHANGED batch, MessagesOK(queue', sent', promise')
    PROVE  Known(queue, sent, promise)' /\ Apart(queue, sent)'
BY DEF MessagesOK, Known, KnownQueue, KnownTask, Apart, Distinct, Pending, Written

\* The types of the connection are a part of the invariant.
LEMMA WireInv == MessageInv => WireOK
BY DEF MessageInv, TypeOK, OrderInv, WireOK

\* A step of a queue keeps the invariant.
LEMMA QueueStepKeeps ==
    ASSUME MessageInv, QueueStep
    PROVE  MessageInv'
<1>1. TypeOK' /\ BatchInv'
  BY QueueStepTypes DEF MessageInv
<1>2. Known(queue, sent, promise)' /\ Apart(queue, sent)'
  BY SaidOfNext DEF QueueStep
<1>3. OrderInv'
  BY DEF QueueStep, MessageInv
<1>4. QED
  BY <1>1, <1>2, <1>3 DEF MessageInv

\* So does one of the others.
LEMMA OtherStepKeeps ==
    ASSUME MessageInv, OtherStep, WireStep
    PROVE  MessageInv'
<1>1. TypeOK'
  <2>1. /\ queue' \in [Gens -> QueueType] /\ sent' \in Seq(Messages)
        /\ promise' \in [Messages -> Outcomes]
    BY DEF OtherStep, Typed
  <2>2. batch' \in [Messages -> Messages \cup {0}]
    BY DEF OtherStep, MessageInv, TypeOK
  <2>3. QED
    BY <2>1, <2>2 DEF WireStep, WireOK, TypeOK, Outcomes
<1>2. BatchInv'
  <2>1. batch' = batch /\ promise' = promise
    BY DEF OtherStep
  <2>2. QED
    BY <2>1 DEF MessageInv, BatchInv, Begun
<1>3. Known(queue, sent, promise)' /\ Apart(queue, sent)'
  BY SaidOfNext DEF OtherStep
<1>4. OrderInv'
  <2>1. (sendingQueue <= calls.connect)'
    BY DEF WireStep, WireOK
  <2>2. ASSUME calls'.connect <= 1 PROVE InOrder(queue, sent)'
    <3>1. calls.connect \in Nat /\ calls'.connect \in Nat /\ calls.connect <= calls'.connect
      <4>1. calls.connect \in Nat
        BY WireInv, CallsFields
      <4>2. calls' \in [connect : 0..MaxConnects, disconnect : 0..MaxDisconnects]
        BY DEF WireStep, WireOK
      <4>3. calls'.connect \in 0..MaxConnects /\ MaxConnects \in Nat
        BY <4>2, BoundsAssumption
      <4>4. QED
        BY <4>1, <4>3 DEF WireStep
    <3>2. InOrder(queue, sent)
      BY <2>2, <3>1 DEF MessageInv, OrderInv
    <3>3. InOrder(queue', sent')
      BY <3>2 DEF OtherStep
    <3>4. QED
      BY <3>3 DEF InOrder, Ordered, MessagesOf, Pending, Written
  <2>3. QED
    BY <2>1, <2>2 DEF OrderInv
<1>5. QED
  BY <1>1, <1>2, <1>3, <1>4 DEF MessageInv

\* And sendMessages().
LEMMA SendStepKeeps ==
    ASSUME MessageInv, NEW k \in BatchSizes, sendMessages(k)
    PROVE  MessageInv'
<1>1. TypeOK /\ BatchInv /\ MessagesOK(queue, sent, promise) /\ OrderInv
  BY DEF MessageInv, MessagesOK
<1>2. Typed(queue', sent', promise') /\ MessagesOK(queue, sent, promise)' /\ OrderInv'
  BY <1>1, SendKeeps
<1>3. BatchInv' /\ batch' \in [Messages -> Messages \cup {0}]
  BY <1>1, SendBatches
<1>4. UNCHANGED <<sock, ws, connecting, disconnecting, sendingQueue, conf, drainTimer,
                  sent, calls>>
  BY <1>1, SendShape
<1>5. TypeOK'
  BY <1>1, <1>2, <1>3, <1>4 DEF TypeOK, Typed, Outcomes
<1>6. QED
  BY <1>2, <1>3, <1>5 DEF MessageInv, MessagesOK

\* The steps that are those of queues, and the others.
OfQueue == \E g \in Gens : ProcessDue(g) \/ LookAgain(g) \/ WriteEnds(g)
OfConnection ==
    \/ connect \/ disconnect \/ DrainTimerFires \/ sendNoMessages
    \/ \E g \in Gens : \/ ConnectGoesOn(g) \/ DrainDue(g) \/ Opens(g)
                       \/ UnexpectedResponse(g) \/ PeerCloses(g) \/ Closes(g) \/ Fails(g)

\* What each kind of step does.
LEMMA StepKinds ==
    ASSUME MessageInv, Next
    PROVE  \/ OfQueue /\ QueueStep
           \/ OfConnection /\ OtherStep /\ WireStep
           \/ \E k \in BatchSizes : sendMessages(k)
<1>1. TypeOK /\ BatchInv /\ MessagesOK(queue, sent, promise) /\ OrderInv /\ WireOK
  BY WireInv DEF MessageInv, MessagesOK
<1>2. OfQueue \/ OfConnection \/ \E k \in BatchSizes : sendMessages(k)
  BY DEF Next, OfQueue, OfConnection
<1>3. CASE OfQueue
  BY <1>1, <1>3, ProcessDueStep, LookAgainStep, WriteEndsStep DEF OfQueue
<1>4. CASE OfConnection
  BY <1>1, <1>4, OtherSteps, WireKept DEF OfConnection
<1>5. QED
  BY <1>2, <1>3, <1>4

\* Every step keeps the invariant.
LEMMA MessagesKept == MessageInv /\ [Next]_vars => MessageInv'
<1>1. ASSUME MessageInv, Next PROVE MessageInv'
  BY <1>1, StepKinds, QueueStepKeeps, OtherStepKeeps, SendStepKeeps
<1>2. ASSUME MessageInv, UNCHANGED vars PROVE MessageInv'
  <2>1. UNCHANGED <<sock, ws, connecting, disconnecting, queue, sendingQueue, conf,
                    drainTimer, batch, promise, sent, calls>>
    BY <1>2 DEF vars, socketVars, queueVars, messageVars
  <2>2. OtherStep
    BY <1>2, <2>1, SameStep DEF MessageInv, MessagesOK
  <2>3. WireStep
    <3>1. WireOK /\ calls.connect \in Nat
      BY <1>2, WireInv, CallsFields
    <3>2. calls.connect <= calls.connect
      BY <3>1
    <3>3. WireOK'
      BY <2>1, <3>1 DEF WireOK
    <3>4. QED
      BY <2>1, <3>2, <3>3 DEF WireStep
  <2>4. QED
    BY <1>2, <2>2, <2>3, OtherStepKeeps
<1>3. QED
  BY <1>1, <1>2

-----------------------------------------------------------------------------
(* The theorems about messages *)

\* The invariant holds: what the transport knows of the messages that it holds, and where
\* each of them is.
THEOREM MessageInvHolds == Spec => []MessageInv
<1>1. QED
  BY InitMessages, MessagesKept, PTL DEF Spec

\* Whatever sockets and queues come and go, the transport's variables have their types.
THEOREM TypeCorrect == Spec => []TypeOK
<1>1. MessageInv => TypeOK
  BY DEF MessageInv
<1>2. QED
  BY <1>1, MessageInvHolds, PTL

\* No message is written twice: not by a retry, not by the requeueing of a task that
\* gave up, not after a reconnect.
THEOREM WrittenOnceHolds == Spec => []WrittenOnce
<1>1. MessageInv => WrittenOnce
  <2>1. ASSUME MessageInv PROVE WrittenOnce
    <3>1. sent \in Seq(Messages) /\ \A k, l \in 1..Len(sent) : sent[k] = sent[l] => k = l
      BY <2>1 DEF MessageInv, TypeOK, Apart
    <3>2. DOMAIN sent = 1..Len(sent)
      BY <3>1, LenProperties
    <3>3. QED
      BY <3>1, <3>2 DEF WrittenOnce, IsInjective
  <2>2. QED
    BY <2>1
<1>2. QED
  BY <1>1, MessageInvHolds, PTL

\* On the first connection messages are written in the order in which they were sent,
\* though a message that gave up goes back to the front of the queue.
THEOREM WrittenInOrderHolds == Spec => []WrittenInOrder
<1>1. MessageInv => WrittenInOrder
  <2>1. ASSUME MessageInv PROVE WrittenInOrder
    <3>1. sent \in Seq(Messages) /\ DOMAIN sent = 1..Len(sent)
      BY <2>1, LenProperties DEF MessageInv, TypeOK
    <3>2. calls.connect <= 1 => Ordered(queue[1], sent)
      BY <2>1 DEF MessageInv, OrderInv, InOrder
    <3>3. QED
      BY <3>1, <3>2 DEF WrittenInOrder, Ordered
  <2>2. QED
    BY <2>1
<1>2. QED
  BY <1>1, MessageInvHolds, PTL

-----------------------------------------------------------------------------
(* The queues that are not in use *)

\* Those that are paused keep what they have, whatever happens.
Frozen(q, q2, k) ==
    \A h \in Gens \ {k} : /\ q2[h].paused = q[h].paused
                          /\ q[h].paused => q2[h].tasks = q[h].tasks

\* A queue that runs is not paused.
LEMMA ProcessFrozen ==
    ASSUME NEW q \in QueueType
    PROVE  Process(q).paused = q.paused /\ (q.paused => Process(q) = q)
<1>1. CASE ~MayRun(q)
  BY <1>1 DEF Process
<1>2. CASE MayRun(q) /\ ws = 0
  <2>1. Process(q) = [q EXCEPT !.tasks = <<>>]
    BY <1>2 DEF Process
  <2>2. QED
    BY <1>2, <2>1 DEF QueueType, MayRun
<1>3. CASE MayRun(q) /\ ws # 0
  <2>1. Process(q) = [q EXCEPT !.tasks = Tail(q.tasks), !.worker = Transmit(Head(q.tasks))]
    BY <1>3 DEF Process
  <2>2. QED
    BY <1>3, <2>1 DEF QueueType, MayRun
<1>4. QED
  BY <1>1, <1>2, <1>3

\* So a queue runs without a change to one that is paused.
LEMMA RunsFrozen ==
    ASSUME NEW g \in Gens, NEW q \in [Gens -> QueueType], NEW p, NEW ended, NEW k,
           Runs(g, q, p, ended), queue \in [Gens -> QueueType], Frozen(queue, q, k)
    PROVE  Frozen(queue, queue', k)
<1> DEFINE r == Process(q[g])
<1>1. queue' = [q EXCEPT ![g] = r]
  BY DEF Runs
<1>2. r.paused = q[g].paused /\ (q[g].paused => r = q[g])
  BY ProcessFrozen
<1> HIDE DEF r
<1>3. queue'[g] = r /\ \A h \in Gens \ {g} : queue'[h] = q[h]
  BY <1>1
<1>4. QED
  BY <1>2, <1>3 DEF Frozen

\* A task that ends.
LEMMA EndsFrozen ==
    ASSUME TypeOK, NEW g \in Gens, NEW q \in [Gens -> QueueType], NEW o,
           Frozen(queue, q, sendingQueue), TaskEnds(g, q, o)
    PROVE  Frozen(queue, queue', sendingQueue)
<1> DEFINE x2 == [q[g] EXCEPT !.worker = Idle]
           q2 == [q EXCEPT ![g] = x2]
           p == Settled(promise, {queue[g].worker.task}, o)
<1>1. Runs(g, q2, p, TRUE)
  BY DEF TaskEnds
<1>2. x2 \in QueueType /\ x2.paused = q[g].paused /\ x2.tasks = q[g].tasks
  BY WorkerKinds DEF QueueType
<1> HIDE DEF x2
<1>3. /\ q2 \in [Gens -> QueueType] /\ q2[g] = x2
      /\ \A h \in Gens \ {g} : q2[h] = q[h]
  BY <1>2
<1> HIDE DEF q2
<1>4. Frozen(queue, q2, sendingQueue)
  BY <1>2, <1>3 DEF Frozen
<1> HIDE DEF p
<1>5. queue \in [Gens -> QueueType]
  BY DEF TypeOK
<1>6. QED
  BY <1>1, <1>3, <1>4, <1>5, RunsFrozen

\* Queue k gets tasks.
LEMMA GetsFrozen ==
    ASSUME NEW q \in [Gens -> QueueType], NEW k \in Gens, NEW ts \in Seq(TaskType), NEW q2,
           q2 = [q EXCEPT ![k].tasks = ts, ![k].due = TRUE]
    PROVE  q2 \in [Gens -> QueueType] /\ Frozen(q, q2, k)
<1> DEFINE x2 == [q[k] EXCEPT !.tasks = ts, !.due = TRUE]
<1>1. x2 \in QueueType
  BY DEF QueueType
<1>2. q2 = [q EXCEPT ![k] = x2]
  BY DEF QueueType
<1> HIDE DEF x2
<1>3. QED
  BY <1>1, <1>2 DEF Frozen

\* Every step leaves them so.
LEMMA FrozenStep ==
    ASSUME MessageInv, [Next]_vars
    PROVE  Frozen(queue, queue', sendingQueue)
<1>0. /\ TypeOK /\ queue \in [Gens -> QueueType] /\ sendingQueue \in Gens \cup {0}
      /\ BatchInv
  BY DEF MessageInv, TypeOK
<1>1. CASE queue' = queue
  BY <1>1 DEF Frozen
<1>2. ASSUME NEW g \in Gens, ProcessDue(g) PROVE Frozen(queue, queue', sendingQueue)
  <2> DEFINE x2 == [queue[g] EXCEPT !.due = FALSE]
             q == [queue EXCEPT ![g] = x2]
  <2>1. Runs(g, q, promise, FALSE)
    BY <1>2 DEF ProcessDue
  <2>2. x2 \in QueueType /\ x2.paused = queue[g].paused /\ x2.tasks = queue[g].tasks
    BY <1>0 DEF QueueType
  <2> HIDE DEF x2
  <2>3. q \in [Gens -> QueueType] /\ Frozen(queue, q, sendingQueue)
    BY <1>0, <2>2 DEF Frozen
  <2> HIDE DEF q
  <2>4. QED
    BY <1>0, <2>1, <2>3, RunsFrozen
<1>3. ASSUME NEW g \in Gens, NEW o, TaskEnds(g, queue, o)
      PROVE  Frozen(queue, queue', sendingQueue)
  <2>1. Frozen(queue, queue, sendingQueue)
    BY DEF Frozen
  <2>2. QED
    BY <1>0, <1>3, <2>1, EndsFrozen
<1>4. ASSUME NEW g \in Gens, WriteEnds(g) PROVE Frozen(queue, queue', sendingQueue)
  BY <1>3, <1>4 DEF WriteEnds, WriteFails
<1>5. ASSUME NEW g \in Gens, NEW w \in WorkerType, queue' = [queue EXCEPT ![g].worker = w]
      PROVE  Frozen(queue, queue', sendingQueue)
  <2> DEFINE x2 == [queue[g] EXCEPT !.worker = w]
  <2>1. x2.paused = queue[g].paused /\ x2.tasks = queue[g].tasks
    BY <1>0 DEF QueueType
  <2> HIDE DEF x2
  <2>2. queue' = [queue EXCEPT ![g] = x2]
    BY <1>5 DEF x2
  <2>3. QED
    BY <1>0, <2>1, <2>2 DEF Frozen
<1>6. ASSUME NEW g \in Gens, LookAgain(g) PROVE Frozen(queue, queue', sendingQueue)
  <2> DEFINE w == queue[g].worker
  <2>0. /\ w.stage = "wait" /\ w \in WorkerType /\ w.task \in TaskType
        /\ w = [stage |-> "wait", task |-> w.task, sock |-> w.sock, left |-> w.left]
    BY <1>0, <1>6, QueueFields, WorkerFields DEF LookAgain
  <2>1. CASE GivesUp(g)
    <3>1. CASE sendingQueue = 0
      BY <1>3, <2>1, <3>1 DEF GivesUp, Requeue
    <3>2. CASE sendingQueue # 0
      <4> DEFINE k == sendingQueue
                 u == [w.task EXCEPT !.tells = FALSE]
                 ts == <<u>> \o queue[k].tasks
                 q == [queue EXCEPT ![k].tasks = ts, ![k].due = TRUE]
      <4>1. k \in Gens /\ queue[k].tasks \in Seq(TaskType) /\ u \in TaskType
        BY <1>0, <2>0, <3>2, QueueFields DEF TaskType
      <4>2. ts \in Seq(TaskType)
        <5> HIDE DEF u
        <5>1. <<u>> \in Seq(TaskType)
          BY <4>1
        <5>2. QED
          BY <4>1, <5>1, ConcatProperties
      <4>3. TaskEnds(g, q, "rejected")
        BY <2>1, <3>2 DEF GivesUp, Requeue
      <4>4. q \in [Gens -> QueueType] /\ Frozen(queue, q, k)
        <5> HIDE DEF ts
        <5>1. q = [queue EXCEPT ![k].tasks = ts, ![k].due = TRUE]
          OBVIOUS
        <5> HIDE DEF q, k
        <5>2. QED
          BY <1>0, <4>1, <4>2, <5>1, GetsFrozen
      <4> HIDE DEF q
      <4>5. QED
        BY <1>0, <4>3, <4>4, EndsFrozen
    <3>3. QED
      BY <3>1, <3>2
  <2>2. CASE Writes(g)
    <3>1. [stage |-> "write", task |-> w.task] \in WorkerType
      BY <2>0, WorkerKinds
    <3>2. QED
      BY <1>3, <1>5, <2>2, <3>1 DEF Writes
  <2>3. CASE queue' = [queue EXCEPT ![g].worker.left = @ - 1]
    <3> DEFINE w2 == [w EXCEPT !.left = @ - 1]
               x2 == [queue[g] EXCEPT !.worker = w2]
    <3>1. queue' = [queue EXCEPT ![g] = x2]
      BY <2>3
    <3> HIDE DEF w2
    <3>2. x2.paused = queue[g].paused /\ x2.tasks = queue[g].tasks
      BY <1>0 DEF QueueType
    <3> HIDE DEF x2
    <3>3. QED
      BY <1>0, <3>1, <3>2 DEF Frozen
  <2>4. QED
    BY <1>6, <2>1, <2>2, <2>3 DEF LookAgain
<1>7. ASSUME NEW k \in BatchSizes, sendMessages(k)
      PROVE  Frozen(queue, queue', sendingQueue)
  <2>1. CASE sendingQueue = 0
    BY <1>1, <1>7, <2>1 DEF sendMessages
  <2>2. CASE sendingQueue # 0
    <3>1. \A h \in Gens \ {sendingQueue} : queue'[h] = queue[h]
      BY <1>0, <1>7, <2>2, SendShape
    <3>2. QED
      BY <3>1 DEF Frozen
  <2>3. QED
    BY <2>1, <2>2
<1>8. ASSUME NEW g \in Gens, NEW b \in BOOLEAN, queue' = [queue EXCEPT ![g].drains = b]
      PROVE  Frozen(queue, queue', sendingQueue)
  <2> DEFINE x2 == [queue[g] EXCEPT !.drains = b]
  <2>1. x2.paused = queue[g].paused /\ x2.tasks = queue[g].tasks
    BY <1>0 DEF QueueType
  <2>2. queue' = [queue EXCEPT ![g] = x2]
    BY <1>8
  <2> HIDE DEF x2
  <2>3. QED
    BY <1>0, <2>1, <2>2 DEF Frozen
<1>9. CASE \A h \in Gens \ {sendingQueue} : queue'[h] = queue[h]
  BY <1>9 DEF Frozen
<1>10. CASE sendNoMessages
  BY <1>0, <1>8, <1>10 DEF sendNoMessages
<1>11. ASSUME NEW g \in Gens, DrainDue(g) PROVE Frozen(queue, queue', sendingQueue)
  BY <1>8, <1>11 DEF DrainDue
<1>12. CASE disconnect \/ DrainTimerFires
  BY <1>0, <1>9, <1>12 DEF disconnect, DrainTimerFires, Disconnect, LetGo, Flushed
<1>13. CASE connect
  BY <1>1, <1>13 DEF connect
<1>14. ASSUME NEW g \in Gens, ConnectGoesOn(g) \/ UnexpectedResponse(g) \/ PeerCloses(g)
       PROVE  Frozen(queue, queue', sendingQueue)
  BY <1>1, <1>14 DEF ConnectGoesOn, UnexpectedResponse, PeerCloses, queueVars
<1>15. ASSUME NEW g \in Gens, Opens(g) \/ Closes(g) \/ Fails(g)
       PROVE  Frozen(queue, queue', sendingQueue)
  BY <1>0, <1>9, <1>15 DEF Opens, Closes, Fails, Pause, Resume
<1>16. CASE UNCHANGED vars
  BY <1>1, <1>16 DEF vars, queueVars
<1>17. QED
  BY <1>2, <1>4, <1>6, <1>7, <1>10, <1>11, <1>12, <1>13, <1>14, <1>15, <1>16 DEF Next

\* A queue comes into use when connect() makes it.
LEMMA QueueInUse ==
    ASSUME MessageInv, Next
    PROVE  /\ calls.connect <= calls'.connect
           /\ \/ sendingQueue' = sendingQueue \/ sendingQueue' = 0
              \/ sendingQueue' = calls.connect + 1
<1>1. calls.connect \in Nat
  BY WireInv, CallsFields
<1>2. CASE QueueStep
  BY <1>1, <1>2 DEF QueueStep
<1>3. CASE OfConnection /\ WireStep
  <2>1. sendingQueue' = sendingQueue \/ sendingQueue' = 0 \/ sendingQueue' = calls.connect + 1
    BY <1>3 DEF OfConnection, connect, disconnect, DrainTimerFires, Disconnect, LetGo,
                sendNoMessages, ConnectGoesOn, DrainDue, Opens, UnexpectedResponse, PeerCloses,
                Closes, Fails, queueVars
  <2>2. QED
    BY <1>3, <2>1 DEF WireStep
<1>4. ASSUME NEW k \in BatchSizes, sendMessages(k)
      PROVE  calls.connect <= calls'.connect /\ sendingQueue' = sendingQueue
  BY <1>1, <1>4 DEF sendMessages
<1>5. QED
  BY <1>2, <1>3, <1>4, StepKinds

\* Queues that are not made yet are not paused.
LEMMA FreshKept == MessageInv /\ MessageInv' /\ FreshInv /\ [Next]_vars => FreshInv'
<1> SUFFICES ASSUME MessageInv, MessageInv', FreshInv, [Next]_vars,
                    NEW g \in Gens, g > calls'.connect
             PROVE  ~queue'[g].paused
  BY DEF FreshInv
<1>1. /\ calls.connect \in Nat /\ calls'.connect \in Nat
      /\ calls.connect <= calls'.connect
  <2>1. calls.connect \in Nat
    BY WireInv, CallsFields
  <2>2. calls'.connect \in Nat
    <3>1. calls' \in [connect : 0..MaxConnects, disconnect : 0..MaxDisconnects]
      BY DEF MessageInv, TypeOK
    <3>2. QED
      BY <3>1, BoundsAssumption
  <2>3. CASE Next
    BY <2>1, <2>2, <2>3, QueueInUse
  <2>4. CASE UNCHANGED vars
    BY <2>1, <2>4 DEF vars
  <2>5. QED
    BY <2>1, <2>2, <2>3, <2>4
<1>2. g \in Nat /\ g > calls.connect
  BY <1>1, Numbers
<1>3. sendingQueue <= calls.connect /\ sendingQueue \in Nat
  <2>1. sendingQueue \in Gens \cup {0} /\ sendingQueue <= calls.connect
    BY WireInv DEF WireOK
  <2>2. QED
    BY <2>1, Numbers
<1>4. g # sendingQueue
  BY <1>1, <1>2, <1>3
<1>5. ~queue[g].paused
  BY <1>2 DEF FreshInv
<1>6. QED
  BY <1>4, <1>5, FrozenStep DEF Frozen

\* None is paused at first.
LEMMA FreshInit == Init => FreshInv
BY DEF Init, FreshInv, NewQueue

-----------------------------------------------------------------------------
(* The buffer *)

\* The phase of each call of sendMessage, of the messages written and held and the batches.
PhaseOf(w, h, bs) ==
    [b \in Messages |->
        IF bs[b] # b THEN "new"
        ELSE IF \E m \in w : bs[m] = b THEN "sent"
        ELSE IF \E m \in h : bs[m] = b THEN "held" ELSE "dropped"]

\* Its cases.
LEMMA PhaseCases ==
    ASSUME NEW w, NEW h, NEW bs, NEW b \in Messages
    PROVE  /\ PhaseOf(w, h, bs)[b] \in {"new", "held", "sent", "dropped"}
           /\ bs[b] # b => PhaseOf(w, h, bs)[b] = "new"
           /\ bs[b] = b =>
                IF \E m \in w : bs[m] = b THEN PhaseOf(w, h, bs)[b] = "sent"
                ELSE IF \E m \in h : bs[m] = b THEN PhaseOf(w, h, bs)[b] = "held"
                ELSE PhaseOf(w, h, bs)[b] = "dropped"
<1>1. CASE bs[b] # b
  BY <1>1 DEF PhaseOf
<1>2. CASE bs[b] = b /\ \E m \in w : bs[m] = b
  BY <1>2 DEF PhaseOf
<1>3. CASE bs[b] = b /\ ~(\E m \in w : bs[m] = b) /\ \E m \in h : bs[m] = b
  BY <1>3 DEF PhaseOf
<1>4. CASE bs[b] = b /\ ~(\E m \in w : bs[m] = b) /\ ~(\E m \in h : bs[m] = b)
  BY <1>4 DEF PhaseOf
<1>5. QED
  BY <1>1, <1>2, <1>3, <1>4

\* The messages that a queue has which is paused and not in use any more; and those
\* that may still be sent, when queue k is in use.
DeadOf(x) == {m \in Messages : x.paused /\ \E i \in 1..Len(x.tasks) : x.tasks[i].msg = m}
DeadIn(q, k) == UNION {DeadOf(q[g]) : g \in Gens \ {k}}
LiveIn(q, k) == HeldIn(q) \ DeadIn(q, k)

\* They are the messages that are held, as the mapping has them.
LEMMA LiveIs ==
    ASSUME NEW q \in [Gens -> QueueType], NEW k, NEW s, Apart(q, s),
           \A g \in Gens :
              q[g].worker.stage = "write" => q[g].worker.task.msg \in Written(s)
    PROVE  {t.msg : t \in UNION {(IF q[g].paused /\ g # k THEN {} ELSE ToSet(q[g].tasks))
                                 \cup IF q[g].worker = Idle THEN {} ELSE {q[g].worker.task} :
                                 g \in Gens}} = LiveIn(q, k)
<1> DEFINE waits(g) == IF q[g].paused /\ g # k THEN {} ELSE ToSet(q[g].tasks)
           runs(g) == IF q[g].worker = Idle THEN {} ELSE {q[g].worker.task}
           here(g) == waits(g) \cup runs(g)
<1>1. ASSUME NEW g \in Gens
      PROVE  /\ \A i \in 1..Len(q[g].tasks) : q[g].tasks[i].msg \in Messages
             /\ ToSet(q[g].tasks) = {q[g].tasks[i] : i \in 1..Len(q[g].tasks)}
             /\ q[g].worker = Idle <=> q[g].worker.stage = "idle"
             /\ q[g].worker.stage \in {"idle", "wait", "write"}
             /\ q[g].worker.stage # "idle" => q[g].worker.task.msg \in Messages
  <2>1. /\ q[g].tasks \in Seq(TaskType) /\ q[g].worker \in WorkerType
        /\ \A i \in 1..Len(q[g].tasks) : q[g].tasks[i] \in TaskType
    BY QueueFields
  <2>2. ToSet(q[g].tasks) = {q[g].tasks[i] : i \in 1..Len(q[g].tasks)}
    BY <2>1, LenProperties DEF ToSet
  <2>3. QED
    BY <2>1, <2>2, WorkerFields, TaskFields
<1>2. ASSUME NEW g \in Gens
      PROVE  /\ \A t \in waits(g) : /\ t.msg \in Pending(q[g]) /\ t.msg \in MessagesOf(q[g])
                                    /\ g = k \/ t.msg \notin DeadOf(q[g])
             /\ \A m \in MessagesOf(q[g]) :
                   \/ \E t \in here(g) : t.msg = m
                   \/ g # k /\ m \in DeadOf(q[g])
  <2>1. CASE q[g].paused /\ g # k
    <3>1. waits(g) = {}
      BY <2>1
    <3>2. ASSUME NEW m \in MessagesOf(q[g])
          PROVE  (\E t \in here(g) : t.msg = m) \/ m \in DeadOf(q[g])
      BY <1>1, <2>1 DEF MessagesOf, DeadOf
    <3>3. QED
      BY <2>1, <3>1, <3>2
  <2>2. CASE ~(q[g].paused /\ g # k)
    <3>1. waits(g) = {q[g].tasks[i] : i \in 1..Len(q[g].tasks)}
      BY <1>1, <2>2
    <3>2. \A t \in waits(g) : /\ t.msg \in Pending(q[g]) /\ t.msg \in MessagesOf(q[g])
                              /\ g = k \/ t.msg \notin DeadOf(q[g])
      BY <1>1, <2>2, <3>1 DEF Pending, MessagesOf, DeadOf
    <3>3. \A m \in MessagesOf(q[g]) : \E t \in here(g) : t.msg = m
      BY <1>1, <3>1 DEF MessagesOf
    <3>4. QED
      BY <3>2, <3>3
  <2>3. QED
    BY <2>1, <2>2
<1>3. ASSUME NEW g \in Gens, NEW t \in runs(g)
      PROVE  /\ t.msg \in MessagesOf(q[g])
             /\ t.msg \in Pending(q[g]) \/ t.msg \in Written(s)
             /\ t.msg \notin DeadOf(q[g])
  <2>1. t = q[g].worker.task /\ q[g].worker.stage \in {"wait", "write"}
    BY <1>1, <1>3
  <2>2. t.msg \in Messages /\ t.msg \in MessagesOf(q[g])
    BY <1>1, <2>1 DEF MessagesOf
  <2>3. CASE q[g].worker.stage = "wait"
    BY <1>1, <2>1, <2>2, <2>3 DEF Apart, Distinct, Pending, DeadOf
  <2>4. CASE q[g].worker.stage = "write"
    <3>1. t.msg \in Written(s) /\ t.msg \notin Pending(q[g])
      BY <2>1, <2>4 DEF Apart
    <3>2. t.msg \notin DeadOf(q[g])
      BY <3>1 DEF Pending, DeadOf
    <3>3. QED
      BY <2>2, <3>1, <3>2
  <2>5. QED
    BY <2>1, <2>3, <2>4
<1>4. \A h \in Gens : DeadOf(q[h]) \subseteq Pending(q[h])
  BY DEF DeadOf, Pending
<1>5. ASSUME NEW g \in Gens, NEW t \in here(g)
      PROVE  t.msg \in LiveIn(q, k)
  <2>1. /\ t.msg \in MessagesOf(q[g])
        /\ t.msg \in Pending(q[g]) \/ t.msg \in Written(s)
        /\ g = k \/ t.msg \notin DeadOf(q[g])
    <3>1. CASE t \in waits(g)
      BY <1>2, <3>1
    <3>2. CASE t \in runs(g)
      BY <1>3, <3>2
    <3>3. QED
      BY <3>1, <3>2
  <2> HIDE DEF here
  <2>2. ASSUME NEW h \in Gens \ {k}, t.msg \in DeadOf(q[h]) PROVE FALSE
    <3>1. t.msg \in Pending(q[h])
      BY <1>4, <2>2
    <3>2. h # g
      BY <2>1, <2>2
    <3>3. QED
      BY <2>1, <3>1, <3>2 DEF Apart
  <2>3. QED
    BY <2>1, <2>2 DEF LiveIn, HeldIn, DeadIn
<1>6. ASSUME NEW m \in LiveIn(q, k)
      PROVE  \E g \in Gens : \E t \in here(g) : t.msg = m
  <2>1. PICK g \in Gens : m \in MessagesOf(q[g])
    BY DEF LiveIn, HeldIn
  <2>2. g = k \/ m \notin DeadOf(q[g])
    BY DEF LiveIn, DeadIn
  <2>3. QED
    BY <1>2, <2>1, <2>2
<1> HIDE DEF here
<1>7. {t.msg : t \in UNION {here(g) : g \in Gens}} = LiveIn(q, k)
  BY <1>5, <1>6
<1>8. QED
  BY <1>7 DEF here

\* And those that were written.
LEMMA WrittenIs ==
    ASSUME NEW s \in Seq(Messages)
    PROVE  ToSet(s) = Written(s)
<1>1. DOMAIN s = 1..Len(s) /\ \A k \in 1..Len(s) : s[k] \in Messages
  BY LenProperties, ElementOfSeq
<1>2. QED
  BY <1>1 DEF ToSet, Written

\* So the mapping is the phase of what is held and written, before a step.
LEMMA PhaseIs ==
    ASSUME MessageInv
    PROVE  Phase = PhaseOf(Written(sent), LiveIn(queue, sendingQueue), batch)
<1>1. /\ queue \in [Gens -> QueueType] /\ Apart(queue, sent)
      /\ \A g \in Gens : queue[g].worker.stage = "write" =>
                            queue[g].worker.task.msg \in Written(sent)
  BY DEF MessageInv, TypeOK, Known, KnownQueue
<1>2. HeldMessages = LiveIn(queue, sendingQueue)
  BY <1>1, LiveIs DEF HeldMessages, Held
<1>3. ToSet(sent) = Written(sent)
  BY WrittenIs DEF MessageInv, TypeOK
<1>4. QED
  BY <1>2, <1>3 DEF Phase, PhaseOf, Sent

\* After the step.
LEMMA PhaseIsNext ==
    ASSUME MessageInv'
    PROVE  Phase' = PhaseOf(Written(sent'), LiveIn(queue', sendingQueue'), batch')
<1>1. /\ queue' \in [Gens -> QueueType]
      /\ \A g \in Gens : queue'[g].worker.stage = "write" =>
                            queue'[g].worker.task.msg \in Written(sent')
      /\ sent' \in Seq(Messages)
  BY DEF MessageInv, TypeOK, Known, KnownQueue, Written
<1>2. Apart(queue', sent')
  BY DEF MessageInv, Apart, Distinct, Pending, Written
<1>3. HeldMessages' = LiveIn(queue', sendingQueue')
  BY <1>1, <1>2, LiveIs DEF HeldMessages, Held
<1>4. ToSet(sent') = Written(sent')
  BY <1>1, WrittenIs
<1>5. QED
  BY <1>3, <1>4 DEF Phase, PhaseOf, Sent

\* A step accounts for messages, but that the queue in use may be let go of.
LetsGo == sendingQueue' # sendingQueue
StepAccounts ==
    /\ Written(sent) \subseteq Written(sent')
    /\ Written(sent') \subseteq Written(sent) \cup LiveIn(queue, sendingQueue)
    /\ LiveIn(queue', sendingQueue') \subseteq LiveIn(queue, sendingQueue)
    /\ \A m \in LiveIn(queue, sendingQueue) :
         \/ m \in LiveIn(queue', sendingQueue') \/ m \in Written(sent')
         \/ promise'[batch[m]] # "pending"
         \/ LetsGo
    /\ \A b \in Messages :
         \/ promise'[b] = promise[b]
         \/ promise[b] = "pending" /\ promise'[b] = "rejected"
         \/ /\ promise[b] = "pending" /\ promise'[b] = "resolved"
            /\ \E m \in Written(sent') : batch[m] = b
    /\ UNCHANGED batch

\* What was lost stays lost.
LEMMA DeadStays ==
    ASSUME NEW q, NEW q2, NEW k, NEW k2, Frozen(q, q2, k),
           k2 \in Gens /\ k2 # k => ~q[k2].paused
    PROVE  DeadIn(q, k) \subseteq DeadIn(q2, k2)
<1> SUFFICES ASSUME NEW h \in Gens \ {k}, NEW m \in DeadOf(q[h]) PROVE m \in DeadIn(q2, k2)
  BY DEF DeadIn
<1>1. h # k2 /\ m \in DeadOf(q2[h])
  BY DEF DeadOf, Frozen
<1>2. QED
  BY <1>1 DEF DeadIn

\* And while the queue in use stays, nothing else is lost.
LEMMA DeadSame ==
    ASSUME NEW q, NEW q2, NEW k, Frozen(q, q2, k)
    PROVE  DeadIn(q2, k) = DeadIn(q, k)
<1>1. \A h \in Gens \ {k} : DeadOf(q2[h]) = DeadOf(q[h])
  BY DEF DeadOf, Frozen
<1>2. QED
  BY <1>1 DEF DeadIn

\* What is lost is not written.
LEMMA DeadUnwritten ==
    ASSUME NEW q, NEW k, NEW s, Apart(q, s)
    PROVE  DeadIn(q, k) \cap Written(s) = {}
<1>1. \A g \in Gens : DeadOf(q[g]) \subseteq Pending(q[g])
  BY DEF DeadOf, Pending
<1>2. QED
  BY <1>1 DEF DeadIn, Apart

\* Such a step keeps the promise.
LEMMA AccountsRefine ==
    ASSUME MessageInv, MessageInv', StepAccounts
    PROVE  B!Next
<1> DEFINE w == Written(sent)
           h == LiveIn(queue, sendingQueue)
           w2 == Written(sent')
           h2 == LiveIn(queue', sendingQueue')
<1>1. Phase = PhaseOf(w, h, batch) /\ Phase' = PhaseOf(w2, h2, batch)
  BY PhaseIs, PhaseIsNext DEF StepAccounts
<1>2. Phase' \in [Messages -> B!Phases]
  BY <1>1, PhaseCases DEF PhaseOf, B!Phases
<1>3. promise' \in [Messages -> B!Promises]
  BY DEF MessageInv, TypeOK, B!Promises
<1>4. ASSUME NEW b \in Messages PROVE B!Step(b)
  <2>1. CASE batch[b] # b
    <3>1. Phase[b] = "new" /\ Phase'[b] = "new"
      BY <1>1, <2>1, PhaseCases
    <3>2. promise[b] = "none"
      BY <2>1 DEF MessageInv, BatchInv
    <3>3. promise'[b] = promise[b]
      BY <3>2 DEF StepAccounts
    <3>4. QED
      BY <3>1, <3>3 DEF B!Step
  <2>2. CASE batch[b] = b
    <3>1. B!Deliver(b) \/ B!Drop(b) \/ Phase'[b] = Phase[b]
      <4>1. CASE \E m \in w : batch[m] = b
        <5>1. \E m \in w2 : batch[m] = b
          BY <4>1 DEF StepAccounts
        <5>2. Phase[b] = "sent" /\ Phase'[b] = "sent"
          BY <1>1, <2>2, <4>1, <5>1, PhaseCases
        <5>3. QED
          BY <5>2
      <4>2. CASE ~(\E m \in w : batch[m] = b) /\ \E m \in h : batch[m] = b
        <5>1. Phase[b] = "held"
          BY <1>1, <2>2, <4>2, PhaseCases
        <5>2. CASE \E m \in w2 : batch[m] = b
          <6>1. Phase'[b] = "sent"
            BY <1>1, <2>2, <5>2, PhaseCases
          <6>2. QED
            BY <5>1, <6>1 DEF B!Deliver, B!Moves
        <5>3. CASE ~(\E m \in w2 : batch[m] = b) /\ \E m \in h2 : batch[m] = b
          <6>1. Phase'[b] = "held"
            BY <1>1, <2>2, <5>3, PhaseCases
          <6>2. QED
            BY <5>1, <6>1
        <5>4. CASE ~(\E m \in w2 : batch[m] = b) /\ ~(\E m \in h2 : batch[m] = b)
          <6>1. Phase'[b] = "dropped"
            BY <1>1, <2>2, <5>4, PhaseCases
          <6>2. promise'[b] # "pending" \/ LetsGo
            BY <4>2, <5>4 DEF StepAccounts
          <6>3. QED
            BY <5>1, <6>1, <6>2 DEF B!Drop, B!Moves, LetsGo
        <5>5. QED
          BY <5>2, <5>3, <5>4
      <4>3. CASE ~(\E m \in w : batch[m] = b) /\ ~(\E m \in h : batch[m] = b)
        <5>1. ~(\E m \in w2 : batch[m] = b) /\ ~(\E m \in h2 : batch[m] = b)
          BY <4>3 DEF StepAccounts
        <5>2. Phase[b] = "dropped" /\ Phase'[b] = "dropped"
          BY <1>1, <2>2, <4>3, <5>1, PhaseCases
        <5>3. QED
          BY <5>2
      <4>4. QED
        BY <4>1, <4>2, <4>3
    <3>2. B!Resolve(b) \/ B!Reject(b) \/ promise'[b] = promise[b]
      <4>1. CASE promise[b] = "pending" /\ promise'[b] = "rejected"
        BY <4>1 DEF B!Reject, B!Settles
      <4>2. CASE /\ promise[b] = "pending" /\ promise'[b] = "resolved"
                 /\ \E m \in w2 : batch[m] = b
        <5>1. Phase'[b] = "sent"
          BY <1>1, <2>2, <4>2, PhaseCases
        <5>2. QED
          BY <4>2, <5>1 DEF B!Resolve, B!Settles
      <4>3. QED
        BY <4>1, <4>2 DEF StepAccounts
    <3>3. QED
      BY <3>1, <3>2 DEF B!Step
  <2>3. QED
    BY <2>1, <2>2
<1>5. QED
  BY <1>2, <1>3, <1>4 DEF B!Next

\* sendMessages() keeps it: the messages are held, or refused.
LEMMA SendRefines ==
    ASSUME MessageInv, MessageInv', NEW k \in BatchSizes, sendMessages(k)
    PROVE  B!Next
<1> DEFINE w == Written(sent)
           h == LiveIn(queue, sendingQueue)
           h2 == LiveIn(queue', sendingQueue')
<1>0. TypeOK /\ BatchInv /\ MessagesOK(queue, sent, promise) /\ OrderInv /\ TypeOK'
  BY DEF MessageInv, MessagesOK
<1>1. Phase = PhaseOf(w, h, batch) /\ Phase' = PhaseOf(w, h2, batch')
  <2>1. sent' = sent
    BY DEF sendMessages
  <2>2. QED
    BY <2>1, PhaseIs, PhaseIsNext
<1>2. Phase' \in [Messages -> B!Phases]
  BY <1>1, PhaseCases DEF PhaseOf, B!Phases
<1>3. promise' \in [Messages -> B!Promises]
  BY <1>0 DEF TypeOK, B!Promises
<1>4. /\ First \in These(k) /\ These(k) \subseteq Messages
      /\ \A m \in These(k) : batch[m] = 0
      /\ batch' = [m \in Messages |-> IF m \in These(k) THEN First ELSE batch[m]]
      /\ \/ /\ sendingQueue = 0
            /\ promise' = [promise EXCEPT ![First] = "rejected"]
         \/ /\ sendingQueue # 0
            /\ promise' = [promise EXCEPT ![First] = "pending"]
  BY <1>0, SendShape
<1>5. /\ sendingQueue = 0 => h2 = h
      /\ sendingQueue # 0 => h2 = h \cup These(k)
  <2>1. /\ sendingQueue' = sendingQueue
        /\ DeadIn(queue', sendingQueue) = DeadIn(queue, sendingQueue)
    BY <1>0, SendShape, FrozenStep, DeadSame DEF Next
  <2>2. DeadIn(queue, sendingQueue) \subseteq HeldIn(queue)
    BY DEF DeadIn, DeadOf, HeldIn, MessagesOf
  <2>3. \A m \in HeldIn(queue) : m \notin These(k)
    BY <1>0, <1>4, TaskKnown
  <2>4. /\ sendingQueue = 0 => HeldIn(queue') = HeldIn(queue)
        /\ sendingQueue # 0 => HeldIn(queue') = HeldIn(queue) \cup These(k)
    BY <1>0, SendKeeps
  <2>5. QED
    BY <2>1, <2>2, <2>3, <2>4 DEF LiveIn
<1>6. /\ \A m \in w \cup h : m \in Messages /\ batch[m] # 0 /\ batch'[m] = batch[m]
                             /\ batch[m] # First
  <2>1. \A m \in w : m \in Messages /\ batch[m] # 0
    BY <1>0 DEF MessagesOK, Known, Written
  <2>2. \A m \in h : m \in Messages /\ batch[m] # 0
    BY <1>0, TaskKnown DEF LiveIn
  <2>3. QED
    BY <1>0, <2>1, <2>2, SendBatches
<1>7. promise \in [Messages -> {"none", "pending", "resolved", "rejected"}]
  BY <1>0 DEF TypeOK
<1>8. \A m \in Messages : m # 0
  BY Numbers
<1>9. ASSUME NEW b \in Messages PROVE B!Step(b)
  <2>1. CASE b = First
    <3>1. batch[b] # b /\ batch'[b] = b
      BY <1>4, <1>8, <2>1
    <3>2. Phase[b] = "new" /\ promise[b] = "none"
      BY <1>0, <1>1, <3>1, PhaseCases DEF BatchInv
    <3>3. ~(\E m \in w : batch'[m] = b)
      BY <1>6, <2>1
    <3>4. CASE sendingQueue = 0
      <4>1. ~(\E m \in h2 : batch'[m] = b)
        BY <1>5, <1>6, <2>1, <3>4
      <4>2. Phase'[b] = "dropped"
        BY <1>1, <3>1, <3>3, <4>1, PhaseCases
      <4>3. promise'[b] = "rejected"
        BY <1>4, <1>7, <2>1, <3>4
      <4>4. QED
        BY <3>2, <3>4, <4>2, <4>3 DEF B!Step, B!Send, B!Moves, B!Settles
    <3>5. CASE sendingQueue # 0
      <4>1. \E m \in h2 : batch'[m] = b
        BY <1>4, <1>5, <2>1, <3>1, <3>5
      <4>2. Phase'[b] = "held"
        BY <1>1, <3>1, <3>3, <4>1, PhaseCases
      <4>3. promise'[b] = "pending"
        BY <1>4, <1>7, <2>1, <3>5
      <4>4. QED
        BY <3>2, <3>5, <4>2, <4>3 DEF B!Step, B!Send, B!Moves, B!Settles
    <3>6. QED
      BY <3>4, <3>5
  <2>2. CASE b # First
    <3>1. promise'[b] = promise[b]
      BY <1>4, <1>7, <2>2
    <3>2. batch[b] = b <=> batch'[b] = b
      BY <1>4, <1>8, <2>2
    <3>3. (\E m \in w : batch[m] = b) <=> (\E m \in w : batch'[m] = b)
      BY <1>6
    <3>4. (\E m \in h : batch[m] = b) <=> (\E m \in h2 : batch'[m] = b)
      <4>1. \A m \in These(k) : batch'[m] # b
        BY <1>4, <2>2
      <4>2. QED
        BY <1>5, <1>6, <4>1
    <3>5. Phase'[b] = Phase[b]
      <4>1. CASE batch[b] # b
        BY <1>1, <3>2, <4>1, PhaseCases
      <4>2. CASE batch[b] = b /\ \E m \in w : batch[m] = b
        BY <1>1, <3>2, <3>3, <4>2, PhaseCases
      <4>3. CASE batch[b] = b /\ ~(\E m \in w : batch[m] = b) /\ \E m \in h : batch[m] = b
        BY <1>1, <3>2, <3>3, <3>4, <4>3, PhaseCases
      <4>4. CASE batch[b] = b /\ ~(\E m \in w : batch[m] = b) /\ ~(\E m \in h : batch[m] = b)
        BY <1>1, <3>2, <3>3, <3>4, <4>4, PhaseCases
      <4>5. QED
        BY <4>1, <4>2, <4>3, <4>4
    <3>6. QED
      BY <3>1, <3>5 DEF B!Step
  <2>3. QED
    BY <2>1, <2>2
<1>10. QED
  BY <1>2, <1>3, <1>9 DEF B!Next

\* Nothing is promised at first.
LEMMA InitRefines == Init => B!Init
<1> SUFFICES ASSUME Init PROVE B!Init
  OBVIOUS
<1>1. \A b \in Messages : batch[b] # b
  BY Numbers DEF Init
<1>2. Phase = [b \in Messages |-> "new"]
  BY <1>1 DEF Phase
<1>3. QED
  BY <1>2 DEF Init, B!Init

\* The steps of queues account for messages.
LEMMA QueueAccounts ==
    ASSUME MessageInv, MessageInv', Next, QueueStep
    PROVE  StepAccounts
<1>1. sendingQueue' = sendingQueue /\ UNCHANGED batch
  BY DEF QueueStep
<1>2. DeadIn(queue', sendingQueue) = DeadIn(queue, sendingQueue)
  BY FrozenStep, DeadSame
<1>3. DeadIn(queue', sendingQueue) \cap Written(sent') = {}
  BY DeadUnwritten DEF QueueStep, MessagesOK
<1>4. Accounts(HeldIn(queue), Written(sent), promise, HeldIn(queue'), Written(sent'), promise')
  BY DEF QueueStep
<1> DEFINE dead == DeadIn(queue, sendingQueue)
<1>5. /\ LiveIn(queue, sendingQueue) = HeldIn(queue) \ dead
      /\ LiveIn(queue', sendingQueue') = HeldIn(queue') \ dead
      /\ dead \cap Written(sent') = {}
  BY <1>1, <1>2, <1>3 DEF LiveIn
<1> HIDE DEF dead
<1>6. QED
  BY <1>1, <1>4, <1>5 DEF Accounts, StepAccounts

\* So do the others.
LEMMA OtherAccounts ==
    ASSUME MessageInv, MessageInv', FreshInv, Next, OtherStep
    PROVE  StepAccounts
<1>1. Frozen(queue, queue', sendingQueue)
  BY FrozenStep
<1>2. UNCHANGED <<batch, promise, sent>>
  BY DEF OtherStep
<1>3. CASE sendingQueue' = sendingQueue
  <2>1. DeadIn(queue', sendingQueue') = DeadIn(queue, sendingQueue)
    BY <1>1, <1>3, DeadSame
  <2>2. HeldIn(queue') = HeldIn(queue)
    BY <1>3 DEF OtherStep
  <2>3. LiveIn(queue', sendingQueue') = LiveIn(queue, sendingQueue)
    BY <2>1, <2>2 DEF LiveIn
  <2>4. QED
    BY <1>2, <2>3 DEF StepAccounts
<1>4. CASE sendingQueue' # sendingQueue
  <2>1. sendingQueue' \in Gens => ~queue[sendingQueue'].paused
    <3>1. sendingQueue' \in Gens => sendingQueue' = calls.connect + 1
      BY <1>4, QueueInUse, Numbers
    <3>2. calls.connect \in Nat
      BY WireInv, CallsFields
    <3>3. calls.connect + 1 > calls.connect
      BY <3>2
    <3>4. QED
      BY <3>1, <3>3 DEF FreshInv
  <2>2. DeadIn(queue, sendingQueue) \subseteq DeadIn(queue', sendingQueue')
    BY <1>1, <2>1, DeadStays
  <2>3. HeldIn(queue') \subseteq HeldIn(queue)
    BY DEF OtherStep
  <2>4. LiveIn(queue', sendingQueue') \subseteq LiveIn(queue, sendingQueue)
    BY <2>2, <2>3 DEF LiveIn
  <2>5. QED
    BY <1>2, <1>4, <2>4 DEF StepAccounts, LetsGo
<1>5. QED
  BY <1>3, <1>4

\* Every step of the transport is one of the buffer, or none.
LEMMA StepRefines ==
    MessageInv /\ MessageInv' /\ FreshInv /\ [Next]_vars => [B!Next]_B!vars
<1>1. ASSUME MessageInv, MessageInv', FreshInv, Next PROVE B!Next
  <2>1. CASE QueueStep
    BY <1>1, <2>1, QueueAccounts, AccountsRefine
  <2>2. CASE OtherStep
    BY <1>1, <2>2, OtherAccounts, AccountsRefine
  <2>3. CASE \E k \in BatchSizes : sendMessages(k)
    BY <1>1, <2>3, SendRefines
  <2>4. QED
    BY <1>1, <2>1, <2>2, <2>3, StepKinds
<1>2. ASSUME UNCHANGED vars PROVE UNCHANGED B!vars
  <2>1. UNCHANGED <<queue, sendingQueue, batch, promise, sent>>
    BY <1>2 DEF vars, queueVars, messageVars
  <2>2. HeldMessages' = HeldMessages
    BY <2>1 DEF HeldMessages, Held
  <2>3. Phase' = Phase
    BY <2>1, <2>2 DEF Phase, Sent
  <2>4. QED
    BY <2>1, <2>3 DEF B!vars
<1>3. QED
  BY <1>1, <1>2

\* The transport is a buffer: a promise resolves only with a message that was sent, no
\* message is sent after it was dropped, and while the queue stays in use, no message is
\* dropped with its caller waiting.  A message in a paused queue that connect() has
\* replaced counts as dropped: it is shown that it is never sent.
THEOREM RefinesBufferHolds == Spec => RefinesBuffer
<1>1. Spec => []FreshInv
  BY FreshInit, FreshKept, MessageInvHolds, PTL DEF Spec
<1>2. QED
  BY <1>1, InitRefines, StepRefines, MessageInvHolds, PTL DEF Spec, RefinesBuffer, B!Spec

-----------------------------------------------------------------------------
(* Connections that the user makes and ends in turn *)

\* What says nothing of sockets and calls says nothing of which of them is in use.
LEMMA InTurnSame ==
    ASSUME InTurnInv,
           UNCHANGED <<sock, ws, connecting, calls>>
    PROVE  InTurnInv'
BY DEF InTurnInv

\* connect(), called in turn, makes the next socket or throws.
LEMMA InTurnConnect ==
    ASSUME WireOK, Usage = "alternate", InTurnInv, connect
    PROVE  /\ InTurnInv' /\ ws = 0 /\ disconnecting # "pending"
           /\ UNCHANGED <<disconnecting, drainTimer>>
           /\ \/ UNCHANGED <<sock, ws>>
              \/ /\ ws' = calls.connect + 1 /\ ws' \in Gens
                 /\ sock' = [sock EXCEPT ![ws'] = "connecting"]
<1> DEFINE g == calls.connect + 1
<1>1. /\ calls.connect \in Nat /\ calls.disconnect \in Nat /\ MaxConnects \in Nat
      /\ calls.connect < MaxConnects
  BY CallsFields DEF connect
<1>2. g \in Gens /\ g \in 0..MaxConnects /\ g \in Nat /\ g # 0
  BY <1>1 DEF Gens
<1>3. calls' = [calls EXCEPT !.connect = g]
  BY DEF connect
<1>4. calls'.connect = g /\ calls'.disconnect = calls.disconnect
  BY <1>2, <1>3, CallsFields
<1>5. calls.connect = calls.disconnect /\ disconnecting # "pending"
  BY DEF connect, MayConnect, UserWaits
<1>6. ws = 0 /\ ~isConnected
  BY <1>5 DEF InTurnInv, isConnected, readyState
<1>7. /\ UNCHANGED <<disconnecting, drainTimer>>
      /\ \/ UNCHANGED <<sock, ws>> /\ connecting' = [connecting EXCEPT ![g] = "rejected"]
         \/ /\ ws' = g
            /\ sock' = [sock EXCEPT ![g] = "connecting"]
            /\ connecting' = [connecting EXCEPT ![g] = "pending"]
  BY <1>6 DEF connect, OpenSocket
<1>8. \A h \in Gens : /\ connecting'[h] \notin {"closing old", "closed old"}
                      /\ h > g => sock'[h] = "none"
  <2> SUFFICES ASSUME NEW h \in Gens
               PROVE  /\ connecting'[h] \notin {"closing old", "closed old"}
                      /\ h > g => sock'[h] = "none"
    OBVIOUS
  <2>1. connecting'[h] \notin {"closing old", "closed old"}
    BY <1>2, <1>7 DEF InTurnInv, WireOK
  <2>2. ASSUME h > g PROVE sock'[h] = "none"
    <3>1. h > calls.connect /\ h # g
      BY <1>1, <2>2, Numbers
    <3>2. sock[h] = "none"
      BY <3>1 DEF InTurnInv
    <3>3. QED
      BY <1>2, <1>7, <3>1, <3>2 DEF WireOK
  <2>3. QED
    BY <2>1, <2>2
<1>9. g = calls.disconnect + 1 /\ g # calls.disconnect
  BY <1>1, <1>5
<1> HIDE DEF g
<1>10. ws' = 0 \/ ws' = g
  BY <1>6, <1>7
<1>11. InTurnInv'
  BY <1>2, <1>4, <1>8, <1>9, <1>10 DEF InTurnInv
<1>12. QED
  BY <1>2, <1>5, <1>6, <1>7, <1>11 DEF g

\* The promises that an event settles are not waited for by a connect().
LEMMA InTurnSettle ==
    ASSUME WireOK, NEW userWaits, NEW o \in {"resolved", "rejected"}, NEW failed,
           DisconnectsSettle(userWaits, o, failed),
           \A g \in Gens : connecting[g] \notin {"closing old", "closed old"}
    PROVE  \A g \in Gens : connecting'[g] \notin {"closing old", "closed old"}
BY DEF DisconnectsSettle, WireOK

\* Nothing is in use after disconnect(), and no connect() goes on.
LEMMA InTurnDisconnect ==
    ASSUME WireOK, InTurnInv, NEW byUser, Disconnect(byUser)
    PROVE  /\ ws' = 0
           /\ \A g \in Gens : connecting'[g] \notin {"closing old", "closed old"}
           /\ \A g \in Gens : sock[g] = "none" => sock'[g] = "none"
<1>1. ws' = 0
  BY DEF Disconnect, LetGo
<1>2. \A g \in Gens : connecting[g] \notin {"closing old", "closed old"}
  BY DEF InTurnInv
<1>3. CASE readyState = "closed" /\ DisconnectsSettle(byUser \/ UserWaits, "resolved", {})
           /\ UNCHANGED sock
  BY <1>1, <1>2, <1>3, InTurnSettle
<1>4. CASE /\ readyState \in {"open", "closing"}
           /\ sock' = [sock EXCEPT ![ws] = "closing"]
           /\ disconnecting' = IF byUser THEN "pending" ELSE disconnecting
           /\ UNCHANGED connecting
  BY <1>1, <1>2, <1>4 DEF readyState, WireOK
<1>5. CASE /\ readyState \in {"connecting", "refused"}
           /\ sock' = [sock EXCEPT ![ws] = "closed"]
           /\ DisconnectsSettle(byUser \/ UserWaits, "rejected", {ws})
  <2>1. \A g \in Gens : sock[g] = "none" => sock'[g] = "none"
    BY <1>5 DEF readyState, WireOK
  <2>2. QED
    BY <1>1, <1>2, <1>5, <2>1, InTurnSettle
<1>6. QED
  BY <1>3, <1>4, <1>5 DEF Disconnect, CloseSocket

\* disconnect(), called in turn, is as often called as connect() then.
LEMMA InTurnCalls ==
    ASSUME WireOK, Usage = "alternate", InTurnInv, disconnect
    PROVE  /\ Disconnect(TRUE) /\ disconnecting # "pending"
           /\ calls'.connect = calls.connect
           /\ calls'.connect = calls'.disconnect
<1>0. calls.connect \in Nat /\ calls.disconnect \in Nat
  BY CallsFields
<1>1. /\ calls' = [calls EXCEPT !.disconnect = calls.disconnect + 1]
      /\ calls.disconnect < calls.connect /\ calls.disconnect < MaxDisconnects
      /\ Disconnect(TRUE) /\ disconnecting # "pending"
  BY <1>0 DEF disconnect, MayDisconnect, UserWaits
<1>2. calls.disconnect + 1 \in 0..MaxDisconnects /\ calls.connect = calls.disconnect + 1
  <2>1. calls.connect \in {calls.disconnect, calls.disconnect + 1}
    BY DEF InTurnInv
  <2>2. MaxDisconnects \in Nat /\ calls.connect # calls.disconnect
    BY <1>0, <1>1, BoundsAssumption
  <2>3. QED
    BY <1>0, <1>1, <2>1, <2>2
<1>3. calls'.connect = calls.connect /\ calls'.disconnect = calls.disconnect + 1
  BY <1>1, <1>2, CallsFields
<1>4. QED
  BY <1>1, <1>2, <1>3

\* The events of sockets say nothing of which is in use, and nothing of those that are not
\* made yet.
LEMMA InTurnEvent ==
    ASSUME WireOK, InTurnInv, NEW s \in Gens,
           Opens(s) \/ UnexpectedResponse(s) \/ PeerCloses(s) \/ Closes(s) \/ Fails(s)
    PROVE  InTurnInv'
<1>1. UNCHANGED <<ws, calls>>
  BY DEF Opens, UnexpectedResponse, PeerCloses, Closes, Fails, queueVars
<1>2. \A g \in Gens : connecting[g] \notin {"closing old", "closed old"}
  BY DEF InTurnInv
<1>3. \A g \in Gens : connecting'[g] \notin {"closing old", "closed old"}
  <2>1. CASE Opens(s)
    BY <1>2, <2>1 DEF Opens, WireOK
  <2>2. CASE UnexpectedResponse(s) \/ PeerCloses(s)
    BY <1>2, <2>2 DEF UnexpectedResponse, PeerCloses
  <2>3. CASE Closes(s)
    BY <1>2, <2>3, InTurnSettle DEF Closes
  <2>4. CASE Fails(s)
    BY <1>2, <2>4, InTurnSettle DEF Fails
  <2>5. QED
    BY <2>1, <2>2, <2>3, <2>4
<1>4. /\ sock[s] # "none"
      /\ \A g \in Gens \ {s} : sock'[g] = sock[g]
  BY DEF Opens, UnexpectedResponse, PeerCloses, Closes, Fails, WireOK
<1>5. \A g \in Gens : g > calls'.connect => sock'[g] = "none"
  BY <1>1, <1>4 DEF InTurnInv
<1>6. QED
  BY <1>1, <1>3, <1>5 DEF InTurnInv

\* Every step keeps the one in use the last one.
LEMMA InTurnKept ==
    ASSUME Usage = "alternate"
    PROVE  MessageInv /\ InTurnInv /\ [Next]_vars => InTurnInv'
<1>1. ASSUME MessageInv, InTurnInv, Next PROVE InTurnInv'
  <2>0. WireOK /\ calls.connect \in Nat /\ calls.disconnect \in Nat
    BY <1>1, WireInv, CallsFields
  <2>1. CASE QueueStep
    BY <1>1, <2>1, InTurnSame DEF QueueStep
  <2>2. ASSUME NEW k \in BatchSizes, sendMessages(k) PROVE InTurnInv'
    BY <1>1, <2>2, InTurnSame DEF sendMessages, socketVars
  <2>3. CASE OfConnection
    <3>1. CASE connect
      BY <1>1, <2>0, <3>1, InTurnConnect
    <3>2. CASE disconnect
      <4>1. Disconnect(TRUE) /\ calls'.connect = calls.connect
            /\ calls'.connect = calls'.disconnect
        BY <1>1, <2>0, <3>2, InTurnCalls
      <4>2. /\ ws' = 0
            /\ \A g \in Gens : connecting'[g] \notin {"closing old", "closed old"}
            /\ \A g \in Gens : sock[g] = "none" => sock'[g] = "none"
        BY <1>1, <2>0, <4>1, InTurnDisconnect
      <4>3. \A g \in Gens : g > calls'.connect => sock'[g] = "none"
        BY <1>1, <4>1, <4>2 DEF InTurnInv
      <4>4. QED
        BY <4>1, <4>2, <4>3 DEF InTurnInv
    <3>3. CASE DrainTimerFires
      <4>1. Disconnect(FALSE) /\ UNCHANGED calls
        BY <3>3 DEF DrainTimerFires
      <4>2. /\ ws' = 0
            /\ \A g \in Gens : connecting'[g] \notin {"closing old", "closed old"}
            /\ \A g \in Gens : sock[g] = "none" => sock'[g] = "none"
        BY <1>1, <2>0, <4>1, InTurnDisconnect
      <4>3. QED
        BY <1>1, <4>1, <4>2 DEF InTurnInv
    <3>4. CASE sendNoMessages
      BY <1>1, <3>4, InTurnSame DEF sendNoMessages, socketVars
    <3>5. ASSUME NEW g \in Gens, DrainDue(g) PROVE InTurnInv'
      BY <1>1, <3>5, InTurnSame DEF DrainDue, socketVars
    <3>6. ASSUME NEW g \in Gens, ConnectGoesOn(g) PROVE InTurnInv'
      BY <1>1, <3>6 DEF ConnectGoesOn, InTurnInv
    <3>7. QED
      BY <1>1, <2>0, <2>3, <3>1, <3>2, <3>3, <3>4, <3>5, <3>6, InTurnEvent DEF OfConnection
  <2>4. QED
    BY <1>1, <2>1, <2>2, <2>3, StepKinds
<1>2. ASSUME InTurnInv, UNCHANGED vars PROVE InTurnInv'
  BY <1>2, InTurnSame DEF vars, socketVars, queueVars
<1>3. QED
  BY <1>1, <1>2

\* No call has been made at first.
LEMMA InTurnInit == Init => InTurnInv
BY DEF Init, InTurnInv

-----------------------------------------------------------------------------
(* And that are left open *)

\* What leaves sockets and calls alone, and the timer unarmed, keeps them so.
LEMMA LeftOpenSame ==
    ASSUME LeftOpenInv, UNCHANGED <<sock, ws, disconnecting, calls>>, drainTimer' = FALSE
    PROVE  LeftOpenInv'
BY DEF LeftOpenInv

\* The drain timer is not armed.
LEMMA LeftOpenTimer ==
    ASSUME DefaultWsTransportConfig.connectionStrategy = "LEAVE_OPEN", LeftOpenInv, DrainHandler
    PROVE  drainTimer' = FALSE
BY DEF DrainHandler

\* The user's disconnect() closes the socket in use, or waits for it to close.
LEMMA LeftOpenDisconnect ==
    ASSUME WireOK, LeftOpenInv, disconnecting # "pending", Disconnect(TRUE)
    PROVE  /\ ws' = 0 /\ drainTimer' = FALSE
           /\ \A g \in Gens : \/ sock'[g] \in {"none", "closed"}
                              \/ /\ g = ws /\ sock'[g] = "closing"
                                 /\ disconnecting' = "pending"
<1>1. ws' = 0 /\ drainTimer' = FALSE
  BY DEF Disconnect, LetGo
<1>2. ws \in Gens \cup {0} /\ (ws # 0 => readyState = sock[ws])
  BY DEF WireOK, readyState
<1>3. \A g \in Gens \ {ws} : sock[g] \in {"none", "closed"}
  BY DEF LeftOpenInv
<1>4. CASE readyState = "closed" /\ UNCHANGED sock
  BY <1>1, <1>2, <1>3, <1>4, Numbers
<1>5. CASE sock' = [sock EXCEPT ![ws] = "closing"] /\ disconnecting' = "pending"
  BY <1>1, <1>2, <1>3, <1>5 DEF WireOK
<1>6. CASE sock' = [sock EXCEPT ![ws] = "closed"]
  BY <1>1, <1>2, <1>3, <1>6 DEF WireOK
<1>7. QED
  BY <1>4, <1>5, <1>6 DEF Disconnect, CloseSocket

\* A socket closes: the one in use, or the one that the user waits for.
LEMMA LeftOpenCloses ==
    ASSUME WireOK, LeftOpenInv, NEW s \in Gens, Closes(s) \/ Fails(s)
    PROVE  LeftOpenInv'
<1>1. /\ sock' = [sock EXCEPT ![s] = "closed"]
      /\ UNCHANGED <<ws, drainTimer, calls>>
      /\ sock[s] \notin {"none", "closed"}
  BY DEF Closes, Fails
<1>2. disconnecting' # "pending" /\ (disconnecting # "pending" => disconnecting' = disconnecting)
  BY DEF Closes, Fails, DisconnectsSettle, UserWaits
<1>3. \A g \in Gens : IF g = s THEN sock'[g] = "closed" ELSE sock'[g] = sock[g]
  BY <1>1 DEF WireOK
<1>4. ASSUME NEW g \in Gens \ {ws} PROVE sock'[g] \in {"none", "closed"}
  <2>1. CASE g = s
    BY <1>3, <2>1
  <2>2. CASE g # s
    <3>1. sock[g] \in {"none", "closed"} \/ (disconnecting = "pending" /\ sock[g] = "closing")
      BY DEF LeftOpenInv
    <3>2. ASSUME disconnecting = "pending" /\ sock[g] = "closing" PROVE FALSE
      <4>1. ws = 0 /\ s # ws
        BY <3>2, Numbers DEF LeftOpenInv
      <4>2. sock[s] = "closing"
        BY <1>1, <4>1 DEF LeftOpenInv
      <4>3. QED
        BY <2>2, <3>2, <4>1, <4>2 DEF LeftOpenInv
    <3>3. QED
      BY <1>3, <2>2, <3>1, <3>2
  <2>3. QED
    BY <2>1, <2>2
<1>5. QED
  BY <1>1, <1>2, <1>4 DEF LeftOpenInv

\* A socket that is not closed and that nobody waits for is the one in use.
LEMMA LeftOpenEvent ==
    ASSUME WireOK, LeftOpenInv, NEW s \in Gens,
           Opens(s) \/ UnexpectedResponse(s) \/ PeerCloses(s)
    PROVE  LeftOpenInv'
<1>1. /\ sock[s] \in {"connecting", "open"}
      /\ \A g \in Gens \ {s} : sock'[g] = sock[g]
      /\ UNCHANGED <<ws, disconnecting, drainTimer, calls>>
  BY DEF Opens, UnexpectedResponse, PeerCloses, queueVars, WireOK
<1>2. s = ws
  BY <1>1 DEF LeftOpenInv
<1>3. QED
  BY <1>1, <1>2 DEF LeftOpenInv

\* Every step keeps all other sockets closed.
LEMMA LeftOpenKept ==
    ASSUME Usage = "alternate", DefaultWsTransportConfig.connectionStrategy = "LEAVE_OPEN"
    PROVE  MessageInv /\ InTurnInv /\ LeftOpenInv /\ [Next]_vars => LeftOpenInv'
<1>1. ASSUME MessageInv, InTurnInv, LeftOpenInv, Next PROVE LeftOpenInv'
  <2>0. WireOK /\ calls.connect \in Nat /\ calls.disconnect \in Nat
    BY <1>1, WireInv, CallsFields
  <2>1. drainTimer = FALSE
    BY <1>1 DEF LeftOpenInv
  <2>2. CASE QueueStep
    <3>1. ~drainTimer' /\ drainTimer' \in BOOLEAN
      BY <2>1, <2>2 DEF QueueStep
    <3>2. drainTimer' = FALSE
      BY <3>1
    <3>3. QED
      BY <1>1, <2>2, <3>2, LeftOpenSame DEF QueueStep
  <2>3. ASSUME NEW k \in BatchSizes, sendMessages(k) PROVE LeftOpenInv'
    BY <1>1, <2>1, <2>3, LeftOpenSame DEF sendMessages, socketVars
  <2>4. CASE OfConnection
    <3>1. CASE connect
      <4>1. /\ ws = 0 /\ disconnecting # "pending"
            /\ UNCHANGED <<disconnecting, drainTimer>>
            /\ \/ UNCHANGED <<sock, ws>>
               \/ ws' \in Gens /\ sock' = [sock EXCEPT ![ws'] = "connecting"]
        BY <1>1, <2>0, <3>1, InTurnConnect
      <4>2. \A g \in Gens : sock[g] \in {"none", "closed"}
        BY <1>1, <4>1, Numbers DEF LeftOpenInv
      <4>3. \A g \in Gens \ {ws'} : sock'[g] \in {"none", "closed"}
        BY <2>0, <4>1, <4>2 DEF WireOK
      <4>4. QED
        BY <2>1, <4>1, <4>3 DEF LeftOpenInv
    <3>2. CASE disconnect
      <4>1. Disconnect(TRUE) /\ disconnecting # "pending"
        BY <1>1, <2>0, <3>2, InTurnCalls
      <4>2. /\ ws' = 0 /\ drainTimer' = FALSE
            /\ \A g \in Gens : \/ sock'[g] \in {"none", "closed"}
                               \/ /\ g = ws /\ sock'[g] = "closing"
                                  /\ disconnecting' = "pending"
        BY <1>1, <2>0, <4>1, LeftOpenDisconnect
      <4>3. QED
        BY <4>2 DEF LeftOpenInv
    <3>3. CASE DrainTimerFires
      BY <2>1, <3>3 DEF DrainTimerFires
    <3>4. CASE sendNoMessages
      BY <1>1, <2>1, <3>4, LeftOpenSame DEF sendNoMessages, socketVars
    <3>5. ASSUME NEW g \in Gens, DrainDue(g) PROVE LeftOpenInv'
      <4>1. drainTimer' = FALSE
        BY <1>1, <2>1, <3>5, LeftOpenTimer DEF DrainDue
      <4>2. QED
        BY <1>1, <3>5, <4>1, LeftOpenSame DEF DrainDue, socketVars
    <3>6. ASSUME NEW g \in Gens, ConnectGoesOn(g) PROVE LeftOpenInv'
      BY <1>1, <3>6 DEF ConnectGoesOn, InTurnInv
    <3>7. QED
      BY <1>1, <2>0, <2>4, <3>1, <3>2, <3>3, <3>4, <3>5, <3>6, LeftOpenEvent, LeftOpenCloses
         DEF OfConnection
  <2>5. QED
    BY <1>1, <2>2, <2>3, <2>4, StepKinds
<1>2. ASSUME LeftOpenInv, UNCHANGED vars PROVE LeftOpenInv'
  <2>1. UNCHANGED <<sock, ws, disconnecting, calls, drainTimer>>
    BY <1>2 DEF vars, socketVars, queueVars
  <2>2. drainTimer' = FALSE
    BY <1>2, <2>1 DEF LeftOpenInv
  <2>3. QED
    BY <1>2, <2>1, <2>2, LeftOpenSame
<1>3. QED
  BY <1>1, <1>2

\* There is no socket at first.
LEMMA LeftOpenInit == Init => LeftOpenInv
BY DEF Init, LeftOpenInv

\* Used in turn, with connections left open when they are idle: once disconnect() has
\* resolved, and until connect() is called, no socket is left that could send or receive.
THEOREM DisconnectedIsClosedHolds ==
    ASSUME Usage = "alternate", DefaultWsTransportConfig.connectionStrategy = "LEAVE_OPEN"
    PROVE  Spec => []DisconnectedIsClosed
<1>1. MessageInv /\ InTurnInv /\ LeftOpenInv => DisconnectedIsClosed
  <2> SUFFICES ASSUME MessageInv, InTurnInv, LeftOpenInv, disconnecting = "resolved",
                      calls.connect <= calls.disconnect, NEW g \in Gens
               PROVE  sock[g] \in {"none", "closed"}
    BY DEF DisconnectedIsClosed
  <2>1. calls.connect \in Nat /\ calls.disconnect \in Nat
    BY WireInv, CallsFields
  <2>2. calls.connect = calls.disconnect
    <3>1. calls.connect \in {calls.disconnect, calls.disconnect + 1}
      BY DEF InTurnInv
    <3>2. QED
      BY <2>1, <3>1
  <2>3. ws = 0 /\ g # ws
    BY <2>2, Numbers DEF InTurnInv
  <2>4. QED
    BY <2>3 DEF LeftOpenInv
<1>2. Spec => []InTurnInv
  BY InTurnInit, InTurnKept, MessageInvHolds, PTL DEF Spec
<1>3. Spec => []LeftOpenInv
  BY <1>2, LeftOpenInit, LeftOpenKept, MessageInvHolds, PTL DEF Spec
<1>4. QED
  BY <1>1, <1>2, <1>3, MessageInvHolds, PTL
=============================================================================
