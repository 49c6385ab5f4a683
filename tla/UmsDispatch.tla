----------------------------- MODULE UmsDispatch -----------------------------
(***************************************************************************)
(* What a wrapped UmsClient does with the messages it receives: the transport  *)
(* parses them and hands them to its dispatch callbacks, one for each start()   *)
(* that has ended; each tells responses from notifications and emits them to    *)
(* the user's callbacks.                                                     *)
(*                                                                         *)
(* UmsRequests has the life of a request; here a request is pending from when    *)
(* it is sent until its response.  The connection keeps the order of the        *)
(* messages.                                                                *)
(***************************************************************************)
EXTENDS StateMachine, UmsMessages, Naturals, Sequences, SequencesExt

CONSTANTS
    Callbacks,     \* the user's callbacks, each registered once
    Methods,       \* the notifications for which they may be registered
    Requests,      \* the names of the requests the user sends, each once
    None,
    MaxStarts,     \* bound: how often start() is called
    MaxReceived    \* bound: how many messages are received

ASSUME MethodsAssumption == Methods \subseteq DOMAIN wrapAgentNotifications
ASSUME RequestsAssumption == Requests \subseteq DOMAIN ResponseTo
ASSUME NoneAssumption == /\ None \notin Requests \cup DOMAIN Interface \cup {"not JSON", "untyped"}
                         /\ \A n \in Methods : WireType(n) # None
ASSUME DispatchBounds == MaxStarts \in Nat /\ MaxReceived \in Nat

VARIABLES
    running,    \* the process has not ended
    connected,
    handlers,   \* how many dispatch callbacks the transport has
    callback,   \* of each callback: the method, how many messages had been received
                \* when it was called, and the event it listens to
    pending,    \* the requests that wait for a response
    answer,     \* the interface of the response each request was resolved with
    inTransit,  \* the messages on their way, in order
    received,   \* the messages received, in order
    got,        \* what each callback was called with: places in `received`
    starts      \* how often start() has been called

requestVars == <<pending, answer>>
wireVars == <<connected, inTransit>>
vars == <<state, transition, running, handlers, callback, requestVars, wireVars, received, got, starts>>

\* A message is known by its interface and the request it answers; one that is not
\* JSON, and one without a type, have none.
Message == [is : Methods \cup {"not JSON", "untyped"}, reqId : {None}]
           \cup [is : {ResponseTo[r] : r \in Requests}, reqId : Requests]

CallbackType == [method : Methods \cup {None}, event : {WireType(n) : n \in Methods} \cup {None},
                 from : 0..MaxReceived]

TypeOK == /\ MachineTypeOK
          /\ running \in BOOLEAN
          /\ connected \in BOOLEAN
          /\ handlers \in 0..starts
          /\ callback \in [Callbacks -> CallbackType]
          /\ pending \subseteq Requests
          /\ answer \in [Requests -> DOMAIN AgentResponsesEvent \cup {None}]
          /\ inTransit \in Seq(Message)
          /\ received \in Seq(Message)
          /\ got \in [Callbacks -> Seq(1..MaxReceived)]
          /\ starts \in 0..MaxStarts

Init == /\ MachineInit
        /\ running = TRUE
        /\ connected = FALSE
        /\ handlers = 0
        /\ callback = [c \in Callbacks |-> [method |-> None, event |-> None, from |-> 0]]
        /\ pending = {}
        /\ answer = [r \in Requests |-> None]
        /\ inTransit = <<>>
        /\ received = <<>>
        /\ got = [c \in Callbacks |-> <<>>]
        /\ starts = 0

-----------------------------------------------------------------------------
(* The user *)

Registered(wrapper, n) == [method |-> n, event |-> wrapper[n], from |-> Len(received)]

\* Mutant: a callback takes the place of the one that listened to its event.
OnNotification_Replaces(c, wrapper, n) ==
    /\ state = "started"
    /\ callback[c].method = None
    /\ callback' = [d \in Callbacks |->
                      IF d = c THEN Registered(wrapper, n)
                      ELSE [callback[d] EXCEPT !.event = IF @ = wrapper[n] THEN None ELSE @]]
    /\ MachineUnchanged
    /\ UNCHANGED <<handlers, requestVars, wireVars, received, got, starts>>

\* onNotification, by the method of a wrapper for notifications n.
OnNotification(c, wrapper, n) ==
    /\ state = "started"
    /\ callback[c].method = None
    /\ callback' = [callback EXCEPT ![c] = Registered(wrapper, n)]
    /\ MachineUnchanged
    /\ UNCHANGED <<handlers, requestVars, wireVars, received, got, starts>>

SendMessage(r) ==
    /\ state = "started" /\ connected
    /\ r \notin pending /\ answer[r] = None
    /\ pending' = pending \cup {r}
    /\ MachineUnchanged
    /\ UNCHANGED <<handlers, callback, answer, wireVars, received, got, starts>>

-----------------------------------------------------------------------------
(* The server *)

Sends(m) ==
    /\ connected
    /\ Len(received) + Len(inTransit) < MaxReceived
    /\ inTransit' = Append(inTransit, m)
    /\ MachineUnchanged
    /\ UNCHANGED <<handlers, callback, requestVars, connected, received, got, starts>>

ServerNotifies(n) == Sends([is |-> n, reqId |-> None])

\* The server tells requests by their type, and answers each once.
ServerResponds(r) ==
    \E n \in DOMAIN ConsumerRequestsEvent :
        LET response == [is |-> ResponseTo[n], reqId |-> r]
        IN  /\ ConsumerRequestsEvent[n] = WireType(r)
            /\ r \in pending
            /\ response \notin ToSet(inTransit)
            /\ Sends(response)

Disconnect == connected' = FALSE /\ inTransit' = <<>>

ConnectionLost ==
    /\ connected
    /\ Disconnect
    /\ MachineUnchanged
    /\ UNCHANGED <<handlers, callback, requestVars, received, got, starts>>

-----------------------------------------------------------------------------
(* The dispatch *)

isResponseType(m) == m.reqId # None

\* The callbacks that a message is emitted to: JSON that is not a response, by type.
Listening(m) ==
    IF m.is \notin DOMAIN Interface \/ isResponseType(m) THEN {}
    ELSE {c \in Callbacks : callback[c].event = WireType(m.is)}

\* Each dispatch callback emits once.
Copies(n) == [i \in 1..handlers |-> n]

\* A message without a type is dropped in the dispatch callback.
Receive ==
    /\ inTransit # <<>>
    /\ Head(inTransit).is # "not JSON"
    /\ LET m == Head(inTransit)
       IN  /\ inTransit' = Tail(inTransit)
           /\ received' = Append(received, m)
           /\ got' = [c \in Callbacks |-> IF c \in Listening(m)
                                          THEN got[c] \o Copies(Len(received')) ELSE got[c]]
           /\ IF isResponseType(m) /\ handlers > 0 /\ m.reqId \in pending
              THEN /\ pending' = pending \ {m.reqId}
                   /\ answer' = [answer EXCEPT ![m.reqId] = m.is]
              ELSE UNCHANGED requestVars
    /\ MachineUnchanged
    /\ UNCHANGED <<handlers, callback, connected, starts>>

\* A message that is not JSON throws in the socket's event handler, where nothing
\* catches it: by default that ends the process.
Throws ==
    /\ inTransit # <<>>
    /\ Head(inTransit).is = "not JSON"
    /\ running' = FALSE
    /\ Disconnect
    /\ MachineUnchanged
    /\ UNCHANGED <<handlers, callback, requestVars, received, got, starts>>

-----------------------------------------------------------------------------
(* start() and stop(), cut down as in UmsRequests *)

Start == /\ starts < MaxStarts
         /\ Fire("start")
         /\ starts' = starts + 1
         /\ UNCHANGED <<handlers, callback, requestVars, wireVars, received, got>>

\* Mutant: the wrapper registers a dispatch callback as well.
OnMessage_Twice == handlers' = handlers + 2

OnMessage == handlers' = handlers + 1

StartEnds == /\ transition = "start"
             /\ Settle
             /\ connected' = TRUE
             /\ inTransit' = <<>>
             /\ OnMessage
             /\ UNCHANGED <<callback, requestVars, received, got, starts>>

Stop == /\ Fire("stop")
        /\ UNCHANGED <<handlers, callback, requestVars, wireVars, received, got, starts>>

StartOrStopFails ==
    /\ transition \in {"start", "stop"}
    /\ Settle
    /\ Disconnect \/ UNCHANGED wireVars
    /\ UNCHANGED <<handlers, callback, requestVars, received, got, starts>>

\* The calls of removeAllListeners() hand an event that is undefined to EventEmitter,
\* which removes its listeners: callbacks, and listeners for responses, stay.
StopEnds == /\ transition = "stop"
            /\ Settle
            /\ Disconnect
            /\ UNCHANGED <<handlers, callback, requestVars, received, got, starts>>

Turn == \/ \E c \in Callbacks : \E wrapper \in {wrapConsumerNotifications, wrapAgentNotifications} :
              \E n \in Methods \cap DOMAIN wrapper : OnNotification(c, wrapper, n)
        \/ \E r \in Requests : SendMessage(r) \/ ServerResponds(r)
        \/ \E n \in Methods \cup {"not JSON", "untyped"} : ServerNotifies(n)
        \/ Receive
        \/ Start \/ StartEnds \/ Stop \/ StartOrStopFails \/ StopEnds
        \/ ConnectionLost

Next == /\ running
        /\ \/ Turn /\ UNCHANGED running
           \/ Throws

Spec == Init /\ [][Next]_vars

-----------------------------------------------------------------------------
(* Properties *)

What(i) == received[i].is

\* What a callback is called with, and what a request is resolved with, is what the
\* declarations promise: the interface in the signature of the method, whatever the
\* types in the interfaces, the events and on the wire are.
TypedDelivery ==
    /\ \A c \in Callbacks : \A i \in DOMAIN got[c] : What(got[c][i]) = callback[c].method
    /\ \A r \in Requests : answer[r] \in {ResponseTo[r], None}

\* Every callback is called with the notifications that its client received after it
\* was registered, with all of them, in their order, and no more often than start()
\* has succeeded: over stops and restarts, and whatever other messages, callbacks and
\* lost connections lie between.
DeliversAll ==
    \A c \in Callbacks :
        /\ ToSet(got[c]) = {i \in DOMAIN received : /\ callback[c].from < i
                                                   /\ callback[c].method = What(i)}
        /\ \A i, j \in DOMAIN got[c] : i < j => got[c][i] <= got[c][j]
        /\ \A i \in DOMAIN got[c] : i + handlers \in DOMAIN got[c]
                                     => got[c][i] < got[c][i + handlers]
=============================================================================
