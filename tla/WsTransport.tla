----------------------------- MODULE WsTransport -----------------------------
(***************************************************************************)
(* WsTransport: a web socket with a sending queue in front of it.           *)
(*                                                                         *)
(* The g-th call of connect() makes queue g and, once it gets there, socket *)
(* g; `ws` and `sendingQueue` say which of them the transport uses now.     *)
(* Sockets and queues that it has let go of live on: their events and their *)
(* running worker still act on the transport.                               *)
(*                                                                         *)
(* The socket (library `ws`) and the queue (library `async`, one worker)    *)
(* are external, modelled from how this class uses them.                    *)
(***************************************************************************)
EXTENDS Naturals, FiniteSets, Sequences, SequencesExt

CONSTANTS
    Messages,        \* what the user sends, in this order
    MaxConnects,     \* bound: how often connect() is called
    MaxDisconnects,  \* bound: how often the user calls disconnect()
    BatchSizes,      \* how many messages sendMessages may be given at once
    MESSAGING_MAX_RETRIES,
    GivenRetries,    \* messagingMaxRetries as the user gives it, 0 for not at all
    GivenStrategy,   \* connectionStrategy as the user gives it
    Usage            \* the user's calls of connect() and disconnect(): one at a time
                     \* ("sequential"), as TransportClient calls them; those where each
                     \* connect() is followed by a disconnect() ("alternate"), as it
                     \* does while no logout fails; or "any"

ASSUME BoundsAssumption == /\ MaxConnects \in Nat \ {0}
                           /\ MaxDisconnects \in Nat
ASSUME MessagesAssumption == Messages \subseteq Nat \ {0} /\ BatchSizes \subseteq Nat
ASSUME RetriesAssumption == MESSAGING_MAX_RETRIES \in Nat /\ GivenRetries \in Nat
ASSUME StrategyAssumption ==
    GivenStrategy \in {"none", "LEAVE_OPEN", "CLOSE_IMMEDIATE", "CLOSE_AFTER_TIMEOUT"}
ASSUME UsageAssumption == Usage \in {"alternate", "sequential", "any"}

VARIABLES
    sock,        \* readyState of each socket; "refused": still CONNECTING, but
                 \* the server has answered with something else
    ws,          \* the socket in use, 0 for none
    queue,       \* the queues, see QueueType
    sendingQueue,\* the queue in use, 0 for none
    conf,        \* the connect() whose configuration is in use, 0 for none
    drainTimer,  \* the drain timer is armed
    connecting,  \* of each connect(): how far it is
    disconnecting,\* the user's last promise of disconnect()
    batch,       \* the first message of the batch each message was sent in, 0 before
    promise,     \* the promise of sendMessages, by the first message of the batch
    sent,        \* the messages written to a socket, in order
    calls        \* how many connect() and disconnect() the user has called

socketVars == <<sock, ws, connecting, disconnecting>>
queueVars == <<queue, sendingQueue, conf, drainTimer>>
messageVars == <<batch, promise, sent>>
vars == <<socketVars, queueVars, messageVars, calls>>

Gens == 1..MaxConnects

\* The configuration with its defaults, which also replace a given 0.  The intervals
\* are left out, and with them what adjustConfByConnectionStrategy does to one.
DefaultWsTransportConfig ==
    [messagingMaxRetries |-> IF GivenRetries = 0 THEN MESSAGING_MAX_RETRIES ELSE GivenRetries,
     connectionStrategy |-> IF GivenStrategy = "none" THEN "LEAVE_OPEN" ELSE GivenStrategy]

\* A task of a queue; `tells` when its callback settles the caller's promise.
TaskType == [msg : Messages, tells : BOOLEAN]

\* What the worker does: nothing; wait for a socket, with so many looks left;
\* write to it.
Idle == [stage |-> "idle"]
MaxLooks == {MESSAGING_MAX_RETRIES, DefaultWsTransportConfig.messagingMaxRetries}
WorkerType == {Idle} \cup [stage : {"wait"}, task : TaskType, sock : Gens,
                           left : UNION {0..n : n \in MaxLooks}]
                     \cup [stage : {"write"}, task : TaskType]

\* `due`, `drains`: a call of process(), of drain() is scheduled; `live`: drain() has
\* its handler.
QueueType == [tasks : Seq(TaskType), worker : WorkerType, paused : BOOLEAN,
              due : BOOLEAN, drains : BOOLEAN, live : BOOLEAN]

NewQueue == [tasks |-> <<>>, worker |-> Idle, paused |-> FALSE,
             due |-> FALSE, drains |-> FALSE, live |-> TRUE]

TypeOK ==
    /\ sock \in [Gens -> {"none", "connecting", "refused", "open", "closing", "closed"}]
    /\ ws \in Gens \cup {0}
    /\ queue \in [Gens -> QueueType]
    /\ sendingQueue \in Gens \cup {0}
    /\ conf \in Gens \cup {0}
    /\ drainTimer \in BOOLEAN
    /\ connecting \in [Gens -> {"none", "closing old", "closed old", "pending",
                                "resolved", "rejected"}]
    /\ disconnecting \in {"none", "pending", "resolved", "rejected"}
    /\ batch \in [Messages -> Messages \cup {0}]
    /\ promise \in [Messages -> {"none", "pending", "resolved", "rejected"}]
    /\ sent \in Seq(Messages)
    /\ calls \in [connect : 0..MaxConnects, disconnect : 0..MaxDisconnects]

Init == /\ sock = [g \in Gens |-> "none"]
        /\ ws = 0
        /\ queue = [g \in Gens |-> NewQueue]
        /\ sendingQueue = 0
        /\ conf = 0
        /\ drainTimer = FALSE
        /\ connecting = [g \in Gens |-> "none"]
        /\ disconnecting = "none"
        /\ batch = [m \in Messages |-> 0]
        /\ promise = [m \in Messages |-> "none"]
        /\ sent = <<>>
        /\ calls = [connect |-> 0, disconnect |-> 0]

\* The state of the socket in use; none is as good as a closed one.
readyState == IF ws = 0 THEN "closed" ELSE sock[ws]

isConnected == readyState = "open"

\* A connect() whose disconnect has resolved goes on in a microtask; timers and
\* I/O events come after it.
NoMicrotask == \A g \in Gens : connecting[g] # "closed old"

-----------------------------------------------------------------------------
(* The queue *)

\* drainHandler: the timer is rearmed, unless the socket is to be left open
\* (the default without a configuration).
DrainHandler ==
    drainTimer' = (conf # 0 /\ DefaultWsTransportConfig.connectionStrategy # "LEAVE_OPEN")

Looks == IF conf = 0 THEN MESSAGING_MAX_RETRIES
                     ELSE DefaultWsTransportConfig.messagingMaxRetries

\* Mutant: one look too many.
Transmit_OneMore(task) ==
    IF isConnected
    THEN [stage |-> "write", task |-> task]
    ELSE [stage |-> "wait", task |-> task, sock |-> ws, left |-> Looks + 1]

\* transmit, up to its first look at the socket.
Transmit(task) == IF isConnected
                  THEN [stage |-> "write", task |-> task]
                  ELSE [stage |-> "wait", task |-> task, sock |-> ws, left |-> Looks]

MayRun(q) == ~q.paused /\ q.worker = Idle /\ q.tasks # <<>>

\* process(): the worker takes the next task.  Without a socket the task fails
\* at once, and so do all after it.
Process(q) == CASE MayRun(q) /\ ws = 0 -> [q EXCEPT !.tasks = <<>>]
                [] MayRun(q) /\ ws # 0 -> [q EXCEPT !.tasks = Tail(q.tasks),
                                                    !.worker = Transmit(Head(q.tasks))]
                [] OTHER -> q

\* Mutant: the tasks are dropped without a word.
Refused_Silent(q) == {}

\* The tasks this run fails.
Refused(q) == IF MayRun(q) /\ ws = 0 THEN ToSet(q.tasks) ELSE {}

\* Settling the promises of some tasks: that of a batch is settled by the first of
\* its tasks that ends.
Settled(promises, tasks, outcome) ==
    [b \in Messages |-> IF promises[b] = "pending" /\ \E t \in tasks : t.tells /\ batch[t.msg] = b
                        THEN outcome ELSE promises[b]]

\* Queue g, in the queues qs, runs on; `ended` when its worker has just ended a
\* task.  drain() is called when a task has ended and none is left.
Runs(g, qs, promises, ended) ==
    LET q == qs[g]
        r == Process(q)
    IN  /\ queue' = [qs EXCEPT ![g] = r]
        /\ promise' = Settled(promises, Refused(q), "rejected")
        /\ sent' = IF r.worker # q.worker /\ r.worker.stage = "write"
                   THEN Append(sent, r.worker.task.msg) ELSE sent
        /\ IF (ended \/ Refused(q) # {}) /\ r.tasks = <<>> /\ r.worker = Idle /\ r.live
           THEN DrainHandler
           ELSE UNCHANGED drainTimer
        /\ UNCHANGED <<batch, sendingQueue, conf, socketVars, calls>>

\* The scheduled call of process().
ProcessDue(g) ==
    /\ queue[g].due
    /\ NoMicrotask
    /\ Runs(g, [queue EXCEPT ![g].due = FALSE], promise, FALSE)

\* The worker's callback: the task has ended, and the queue runs on at once.
TaskEnds(g, qs, outcome) ==
    Runs(g, [qs EXCEPT ![g].worker = Idle],
         Settled(promise, {queue[g].worker.task}, outcome), TRUE)

\* waitForSocketConnection looks again at the socket it was given; when that
\* one is open, the message goes to the socket now in use.
Writes(g) ==
    LET w == queue[g].worker
    IN  \/ /\ isConnected
           /\ queue' = [queue EXCEPT ![g].worker = [stage |-> "write", task |-> w.task]]
           /\ sent' = Append(sent, w.task.msg)
           /\ UNCHANGED <<sendingQueue, conf, drainTimer, socketVars, batch, promise, calls>>
        \/ /\ ~isConnected
           /\ TaskEnds(g, queue, "rejected")

\* Mutant: the message goes to the end of the queue.
Requeue_Behind(task) ==
    IF sendingQueue = 0 THEN queue
    ELSE [queue EXCEPT ![sendingQueue].tasks = Append(@, [task EXCEPT !.tells = FALSE]),
                       ![sendingQueue].due = TRUE]

\* No look is left: the message goes back to the front of the queue in use (when
\* there is one), with a callback that only logs; its caller is told it failed.
Requeue(task) ==
    IF sendingQueue = 0 THEN queue
    ELSE [queue EXCEPT ![sendingQueue].tasks = <<[task EXCEPT !.tells = FALSE]>> \o @,
                       ![sendingQueue].due = TRUE]

GivesUp(g) == TaskEnds(g, Requeue(queue[g].worker.task), "rejected")

LookAgain(g) ==
    LET w == queue[g].worker
    IN  /\ w.stage = "wait"
        /\ NoMicrotask
        /\ \/ /\ w.left = 0
              /\ GivesUp(g)
           \/ /\ w.left > 0
              /\ sock[w.sock] = "open"
              /\ Writes(g)
           \/ /\ w.left > 0
              /\ sock[w.sock] # "open"
              /\ queue' = [queue EXCEPT ![g].worker.left = @ - 1]
              /\ UNCHANGED <<sendingQueue, conf, drainTimer, socketVars,
                             messageVars, calls>>

\* Mutant: a message whose write failed is queued again.
WriteFails_Again(g) == TaskEnds(g, Requeue(queue[g].worker.task), "rejected")

WriteFails(g) == TaskEnds(g, queue, "rejected")

\* ws.send calls back.
WriteEnds(g) ==
    /\ queue[g].worker.stage = "write"
    /\ NoMicrotask
    /\ TaskEnds(g, queue, "resolved") \/ WriteFails(g)

\* sendMessages, with the next k messages; sendMessage has one.
sendMessages(k) ==
    LET first == Cardinality({m \in Messages : batch[m] # 0}) + 1
        these == first..(first + k - 1)
    IN  /\ k > 0
        /\ these \subseteq Messages
        /\ batch' = [m \in Messages |-> IF m \in these THEN first ELSE batch[m]]
        /\ \/ /\ sendingQueue = 0
              /\ promise' = [promise EXCEPT ![first] = "rejected"]
              /\ UNCHANGED queue
           \/ /\ sendingQueue # 0
              /\ promise' = [promise EXCEPT ![first] = "pending"]
              /\ queue' = [queue EXCEPT
                    ![sendingQueue].tasks = @ \o [i \in 1..k |->
                                                    [msg |-> first + i - 1, tells |-> TRUE]],
                    ![sendingQueue].due = TRUE]
        /\ UNCHANGED <<socketVars, sendingQueue, conf, drainTimer, sent, calls>>

\* sendMessages with an empty array: an idle queue drains.  (Its promise is rejected
\* without a queue, and never settles with one.)
sendNoMessages ==
    /\ 0 \in BatchSizes
    /\ sendingQueue # 0
    /\ queue[sendingQueue].tasks = <<>> /\ queue[sendingQueue].worker = Idle
    /\ queue' = [queue EXCEPT ![sendingQueue].drains = TRUE]
    /\ UNCHANGED <<socketVars, sendingQueue, conf, drainTimer, messageVars, calls>>

\* The scheduled call of drain(); kill() has taken the handler away.
DrainDue(g) ==
    /\ queue[g].drains
    /\ NoMicrotask
    /\ queue' = [queue EXCEPT ![g].drains = FALSE]
    /\ IF queue[g].live THEN DrainHandler ELSE UNCHANGED drainTimer
    /\ UNCHANGED <<sendingQueue, conf, socketVars, messageVars, calls>>

-----------------------------------------------------------------------------
(* disconnect() *)

\* The connect() calls that have not ended.
Unsettled == {g \in Gens : connecting[g] \in {"closing old", "closed old", "pending"}}

\* Mutant: the close event is not listened to.
DisconnectsSettle_ErrorsOnly(userWaits, outcome, failed) ==
    /\ disconnecting' = IF userWaits /\ outcome = "rejected" THEN outcome ELSE disconnecting
    /\ connecting' = [g \in Gens |->
          IF connecting[g] = "pending" /\ g \in failed THEN "rejected" ELSE connecting[g]]

\* An event of any socket settles every promise of disconnect() that waits: the
\* user's, and that of a connect(), which goes on or fails with it.  It also
\* fails the connect() whose socket has `failed`.
DisconnectsSettle(userWaits, outcome, failed) ==
    /\ disconnecting' = IF userWaits THEN outcome ELSE disconnecting
    /\ connecting' = [g \in Gens |->
          CASE connecting[g] = "closing old" /\ outcome = "resolved" -> "closed old"
            [] connecting[g] = "closing old" /\ outcome = "rejected" -> "rejected"
            [] connecting[g] = "pending" /\ g \in failed -> "rejected"
            [] OTHER -> connecting[g]]

UserWaits == disconnecting = "pending"

\* A queue that still holds tasks is emptied and its drain handler removed.
\* The promises of those tasks are left alone.
Flushed == IF sendingQueue = 0 \/ queue[sendingQueue].tasks = <<>> THEN queue
           ELSE [queue EXCEPT ![sendingQueue].tasks = <<>>,
                              ![sendingQueue].live = FALSE]

\* The timers are cleared, the references go.
LetGo == /\ queue' = Flushed
         /\ drainTimer' = FALSE
         /\ ws' = 0
         /\ sendingQueue' = 0
         /\ conf' = 0

\* Mutant: the promise resolves before the close event.
CloseSocket_AtOnce(byUser) ==
    /\ DisconnectsSettle(byUser \/ UserWaits, "resolved", {})
    /\ sock' = IF readyState = "closed" THEN sock ELSE [sock EXCEPT ![ws] = "closing"]

\* An open socket is closed with a handshake (unless its peer has begun one), and
\* its close event comes later; one that is still connecting has its error and
\* its close event at once.
CloseSocket(byUser) ==
    \/ /\ readyState = "closed"
       /\ DisconnectsSettle(byUser \/ UserWaits, "resolved", {})
       /\ UNCHANGED sock
    \/ /\ readyState \in {"open", "closing"}
       /\ sock' = [sock EXCEPT ![ws] = "closing"]
       /\ disconnecting' = IF byUser THEN "pending" ELSE disconnecting
       /\ UNCHANGED connecting
    \/ /\ readyState \in {"connecting", "refused"}
       /\ sock' = [sock EXCEPT ![ws] = "closed"]
       /\ DisconnectsSettle(byUser \/ UserWaits, "rejected", {ws})

Disconnect(byUser) ==
    /\ LetGo
    /\ CloseSocket(byUser)
    /\ UNCHANGED messageVars

MayDisconnect ==
    \/ Usage = "any"
    \/ /\ Unsettled = {}
       /\ ~UserWaits
       /\ Usage = "alternate" => calls.disconnect < calls.connect

disconnect ==
    /\ calls.disconnect < MaxDisconnects
    /\ MayDisconnect
    /\ Disconnect(TRUE)
    /\ calls' = [calls EXCEPT !.disconnect = @ + 1]

\* The drain timer disconnects, and nobody waits for it.
DrainTimerFires ==
    /\ drainTimer
    /\ NoMicrotask
    /\ Disconnect(FALSE)
    /\ UNCHANGED calls

-----------------------------------------------------------------------------
(* connect() *)

\* The headers are got and the socket is made, or one of the two throws.
OpenSocket(g) ==
    \/ /\ sock' = [sock EXCEPT ![g] = "connecting"]
       /\ ws' = g
       /\ connecting' = [connecting EXCEPT ![g] = "pending"]
    \/ /\ connecting' = [connecting EXCEPT ![g] = "rejected"]
       /\ UNCHANGED <<sock, ws>>

MayConnect ==
    \/ Usage = "any"
    \/ /\ Unsettled = {}
       /\ ~UserWaits
       /\ Usage = "alternate" => calls.connect = calls.disconnect

\* The configuration and a new queue come first, and in between the endpoint, which may
\* throw.  A transport that is connected disconnects then, which drops the two again (the
\* new queue is empty).
connect ==
    LET g == calls.connect + 1
    IN  /\ calls.connect < MaxConnects
        /\ MayConnect
        /\ calls' = [calls EXCEPT !.connect = g]
        /\ \/ /\ conf' = g
              /\ connecting' = [connecting EXCEPT ![g] = "rejected"]
              /\ UNCHANGED <<sock, ws, sendingQueue, drainTimer>>
           \/ /\ isConnected
              /\ sock' = [sock EXCEPT ![ws] = "closing"]
              /\ ws' = 0
              /\ sendingQueue' = 0
              /\ conf' = 0
              /\ drainTimer' = FALSE
              /\ connecting' = [connecting EXCEPT ![g] = "closing old"]
           \/ /\ ~isConnected
              /\ conf' = g
              /\ sendingQueue' = g
              /\ OpenSocket(g)
              /\ UNCHANGED drainTimer
        /\ UNCHANGED <<queue, disconnecting, messageVars>>

\* The old connection is closed: connect() opens the socket.
ConnectGoesOn(g) ==
    /\ connecting[g] = "closed old"
    /\ OpenSocket(g)
    /\ UNCHANGED <<disconnecting, queueVars, messageVars, calls>>

-----------------------------------------------------------------------------
(* The events of the sockets, the one in use or any other *)

\* pause() and resume() work on the queue in use.
Pause == queue' = IF sendingQueue = 0 THEN queue
                  ELSE [queue EXCEPT ![sendingQueue].paused = TRUE]

Resume == queue' = IF sendingQueue = 0 \/ ~queue[sendingQueue].paused THEN queue
                   ELSE [queue EXCEPT ![sendingQueue].paused = FALSE,
                                      ![sendingQueue].due = TRUE]

Opens(s) ==
    /\ sock[s] = "connecting"
    /\ NoMicrotask
    /\ sock' = [sock EXCEPT ![s] = "open"]
    /\ connecting' = [connecting EXCEPT ![s] = "resolved"]
    /\ Resume
    /\ UNCHANGED <<ws, disconnecting, sendingQueue, conf, drainTimer, messageVars, calls>>

\* The handshake is answered with anything but an upgrade: it is only logged.
UnexpectedResponse(s) ==
    /\ sock[s] = "connecting"
    /\ NoMicrotask
    /\ sock' = [sock EXCEPT ![s] = "refused"]
    /\ UNCHANGED <<ws, connecting, disconnecting, queueVars, messageVars, calls>>

\* The peer begins to close the connection.
PeerCloses(s) ==
    /\ sock[s] = "open"
    /\ NoMicrotask
    /\ sock' = [sock EXCEPT ![s] = "closing"]
    /\ UNCHANGED <<ws, connecting, disconnecting, queueVars, messageVars, calls>>

\* A close event, at the end of our own closing or of the connection.
Closes(s) ==
    /\ sock[s] \in {"open", "closing"}
    /\ NoMicrotask
    /\ sock' = [sock EXCEPT ![s] = "closed"]
    /\ Pause
    /\ DisconnectsSettle(UserWaits, "resolved", {})
    /\ UNCHANGED <<ws, sendingQueue, conf, drainTimer, messageVars, calls>>

\* An error event, and the close event that comes with it.
Fails(s) ==
    /\ sock[s] \in {"connecting", "open", "closing"}
    /\ NoMicrotask
    /\ sock' = [sock EXCEPT ![s] = "closed"]
    /\ Pause
    /\ DisconnectsSettle(UserWaits, "rejected", {s})
    /\ UNCHANGED <<ws, sendingQueue, conf, drainTimer, messageVars, calls>>

-----------------------------------------------------------------------------
Next == \/ connect \/ disconnect \/ DrainTimerFires
        \/ \E k \in BatchSizes : sendMessages(k)
        \/ sendNoMessages
        \/ \E g \in Gens : \/ ConnectGoesOn(g)
                           \/ ProcessDue(g) \/ DrainDue(g) \/ LookAgain(g) \/ WriteEnds(g)
                           \/ Opens(g) \/ UnexpectedResponse(g)
                           \/ PeerCloses(g) \/ Closes(g) \/ Fails(g)

\* Microtasks, scheduled calls and timers run; a write calls back; a socket that
\* is connecting gets an answer or an error, and one that is closing closes
\* (`ws` gives up waiting for the peer after a timeout).
Fairness ==
    \A g \in Gens :
        /\ WF_vars(ConnectGoesOn(g)) /\ WF_vars(ProcessDue(g)) /\ WF_vars(DrainDue(g))
        /\ WF_vars(LookAgain(g)) /\ WF_vars(WriteEnds(g))
        /\ WF_vars(sock[g] = "connecting" /\ (Opens(g) \/ UnexpectedResponse(g) \/ Fails(g)))
        /\ WF_vars(sock[g] = "closing" /\ (Closes(g) \/ Fails(g)))

Spec == Init /\ [][Next]_vars
FairSpec == Spec /\ Fairness

-----------------------------------------------------------------------------
(* Properties *)

\* The tasks that queue g may still send: nothing resumes a queue that is paused and
\* not in use any more, and only the task of its worker gets out of it.
Held(g) == (IF queue[g].paused /\ g # sendingQueue THEN {} ELSE ToSet(queue[g].tasks))
           \cup IF queue[g].worker = Idle THEN {} ELSE {queue[g].worker.task}

HeldMessages == {t.msg : t \in UNION {Held(g) : g \in Gens}}

\* No message is written twice, whatever is retried, requeued, reconnected.
WrittenOnce == IsInjective(sent)

\* On the first connection, messages are written in the order in which they were
\* sent, retried or not.
WrittenInOrder == calls.connect <= 1 => \A i, j \in DOMAIN sent : i < j => sent[i] < sent[j]

\* The mapping to the buffer, for each call of sendMessages by the first of its messages:
\* it is held while one of them may still be sent.
Sent(b) == \E m \in ToSet(sent) : batch[m] = b
Phase == [b \in Messages |->
    IF batch[b] # b THEN "new"
    ELSE IF Sent(b) THEN "sent"
    ELSE IF \E m \in HeldMessages : batch[m] = b THEN "held" ELSE "dropped"]

B == INSTANCE BufferedTransport WITH Calls <- Messages, phase <- Phase, buffer <- sendingQueue

\* The transport is a buffer: a promise resolves only when a message has been sent, a
\* message that was dropped is never sent, and while the queue stays in use no message
\* is dropped with its caller waiting.  (It is not all that ITransport asks for.)
RefinesBuffer == B!Spec

\* When disconnect() has resolved and connect() has not been called since, no
\* socket is left that could send, receive or connect.
DisconnectedIsClosed ==
    disconnecting = "resolved" /\ calls.connect <= calls.disconnect
        => \A g \in Gens : sock[g] \in {"none", "closed"}

\* disconnect() always ends.
DisconnectEnds == disconnecting = "pending" ~> disconnecting # "pending"

\* While the connection stays, every message in its queue is dealt with.
InCurrentQueue(m) == sendingQueue # 0 /\ \E t \in Held(sendingQueue) : t.msg = m
QueueMoves == \A m \in Messages :
    <>[]isConnected => []<>~InCurrentQueue(m)
=============================================================================
