-------------------------- MODULE UmsDispatchProofs --------------------------
(***************************************************************************)
(* Proofs about UmsDispatch, for any callbacks, notifications and requests,  *)
(* any messages, and any number of starts.                                  *)
(*                                                                         *)
(* IInv is the inductive invariant: the types, how far a start has come, what   *)
(* is on the wire, what a callback listens to, and what it has been called      *)
(* with.                                                                    *)
(***************************************************************************)
EXTENDS UmsDispatch, SequenceTheorems, TLAPS

\* A start that has not ended has not left a dispatch callback.
PhaseInv == transition = "start" => handlers < starts

\* Messages come only over a connection that a start has made, which has left its
\* dispatch callback first; and a response on its way is one to the request it names.
WireInv ==
    /\ connected => handlers > 0
    /\ inTransit # <<>> => connected
    /\ Len(received) + Len(inTransit) <= MaxReceived
    /\ \A i \in 1..Len(inTransit) :
          inTransit[i].reqId # None => inTransit[i].is = ResponseTo[inTransit[i].reqId]

\* A callback listens, from when it is registered, to the wire type of the interface that
\* it is declared to take.
ListenInv ==
    \A c \in Callbacks :
        /\ callback[c].event = IF callback[c].method # None
                               THEN WireType(callback[c].method) ELSE None
        /\ callback[c].from <= Len(received)

\* The messages that callback c is to be called with.
Wanted(c, i) == /\ callback[c].from < i
                /\ callback[c].method = What(i)

\* What a callback has been called with: DeliversAll, place by place.
Delivered(c) ==
    /\ \A k \in 1..Len(got[c]) : got[c][k] \in 1..Len(received) /\ Wanted(c, got[c][k])
    /\ \A i \in 1..Len(received) : Wanted(c, i) => \E k \in 1..Len(got[c]) : got[c][k] = i
    /\ \A k, l \in 1..Len(got[c]) : k < l => got[c][k] <= got[c][l]
    /\ \A k, l \in 1..Len(got[c]) : l = k + handlers => got[c][k] < got[c][l]

DeliverInv == \A c \in Callbacks : Delivered(c)

AnswerInv == \A r \in Requests : answer[r] \in {ResponseTo[r], None}

IInv == TypeOK /\ PhaseInv /\ WireInv /\ ListenInv /\ DeliverInv /\ AnswerInv

-----------------------------------------------------------------------------
(* The messages as they are declared *)

\* The methods and the requests that there are.
LEMMA Names ==
    /\ Methods \subseteq {"MessagingEventNotification", "ExConversationChangeNotification",
                          "RoutingTaskNotification", "AgentStateNotification"}
    /\ Requests \subseteq {"InitConnection", "UpdateConversationField",
                           "ConsumerRequestConversation", "PublishEvent",
                           "SubscribeMessagingEvents", "SubscribeExConversations",
                           "UnsubscribeExConversations"}
<1>1. DOMAIN wrapAgentNotifications =
         {"MessagingEventNotification", "ExConversationChangeNotification",
          "RoutingTaskNotification", "AgentStateNotification"}
  BY DEF wrapAgentNotifications
<1>2. DOMAIN ResponseTo =
         {"InitConnection", "UpdateConversationField", "ConsumerRequestConversation",
          "PublishEvent", "SubscribeMessagingEvents", "SubscribeExConversations",
          "UnsubscribeExConversations"}
  BY DEF ResponseTo
<1>3. QED
  BY <1>1, <1>2, MethodsAssumption, RequestsAssumption

\* What is on the wire of a notification.
LEMMA NotificationTypes ==
    /\ WireType("MessagingEventNotification") = "ms.MessagingEventNotification"
    /\ WireType("ExConversationChangeNotification") = "cqm.ExConversationChangeNotification"
    /\ WireType("RoutingTaskNotification") = "routing.routingTaskNotification"
    /\ WireType("AgentStateNotification") = "routing.agentStateNotification"
<1>1. WireType("MessagingEventNotification") = "ms.MessagingEventNotification"
  BY DEF WireType, Interface, MessagingEventNotification, INotificationType, AnyType,
         ConsumerRequestsEvent, AgentResponsesEvent, ConsumerResponsesEvent,
         AgentNotificationsEvent
<1>2. WireType("ExConversationChangeNotification") = "cqm.ExConversationChangeNotification"
  BY DEF WireType, Interface, ExConversationChangeNotification, INotificationType, AnyType
<1>3. WireType("RoutingTaskNotification") = "routing.routingTaskNotification"
  BY DEF WireType, Interface, RoutingTaskNotification, INotificationType, AnyType
<1>4. WireType("AgentStateNotification") = "routing.agentStateNotification"
  BY DEF WireType, Interface, AgentStateNotification, INotificationType, AnyType
<1>5. QED
  BY <1>1, <1>2, <1>3, <1>4

\* What is on the wire of a request.
LEMMA RequestTypes ==
    /\ WireType("InitConnection") = "InitConnection"
    /\ WireType("UpdateConversationField") = "cm.UpdateConversationField"
    /\ WireType("ConsumerRequestConversation") = "cm.ConsumerRequestConversation"
    /\ WireType("PublishEvent") = "ms.PublishEvent"
    /\ WireType("SubscribeMessagingEvents") = "ms.SubscribeMessagingEvents"
    /\ WireType("SubscribeExConversations") = "cqm.SubscribeExConversations"
    /\ WireType("UnsubscribeExConversations") = "cqm.UnsubscribeExConversations"
<1>1. WireType("InitConnection") = "InitConnection"
  BY DEF WireType, Interface, InitConnection, ISendType, AnyType
<1>2. WireType("UpdateConversationField") = "cm.UpdateConversationField"
  BY DEF WireType, Interface, UpdateConversationField, ISendType, AnyType
<1>3. WireType("ConsumerRequestConversation") = "cm.ConsumerRequestConversation"
  BY DEF WireType, Interface, ConsumerRequestConversation, ISendType, AnyType
<1>4. WireType("PublishEvent") = "ms.PublishEvent"
  BY DEF WireType, Interface, PublishEvent, ISendType, AnyType
<1>5. WireType("SubscribeMessagingEvents") = "ms.SubscribeMessagingEvents"
  BY DEF WireType, Interface, SubscribeMessagingEvents, ISendType, AnyType
<1>6. WireType("SubscribeExConversations") = "cqm.SubscribeExConversations"
  BY DEF WireType, Interface, SubscribeExConversations, ISendType, AnyType
<1>7. WireType("UnsubscribeExConversations") = "cqm.UnsubscribeExConversations"
  BY DEF WireType, Interface, UnsubscribeExConversations, ISendType, AnyType
<1>8. QED
  BY <1>1, <1>2, <1>3, <1>4, <1>5, <1>6, <1>7

\* The wire tells one notification from another.
LEMMA TypesTell ==
    ASSUME NEW n \in Methods, NEW k \in Methods, WireType(n) = WireType(k)
    PROVE  n = k
BY Names, NotificationTypes

\* A method of a wrapper listens to what is on the wire of its notification.
LEMMA WrappersListen ==
    ASSUME NEW wrapper \in {wrapConsumerNotifications, wrapAgentNotifications},
           NEW n \in Methods \cap DOMAIN wrapper
    PROVE  wrapper[n] = WireType(n)
<1>1. CASE wrapper = wrapConsumerNotifications
  <2>1. n \in {"MessagingEventNotification", "ExConversationChangeNotification"}
    BY <1>1 DEF wrapConsumerNotifications
  <2>2. /\ wrapper["MessagingEventNotification"] = "ms.MessagingEventNotification"
        /\ wrapper["ExConversationChangeNotification"] = "cqm.ExConversationChangeNotification"
    BY <1>1 DEF wrapConsumerNotifications, ConsumerNotificationsEvent
  <2>3. QED
    BY <2>1, <2>2, NotificationTypes
<1>2. CASE wrapper = wrapAgentNotifications
  <2>1. /\ wrapper["MessagingEventNotification"] = "ms.MessagingEventNotification"
        /\ wrapper["ExConversationChangeNotification"] = "cqm.ExConversationChangeNotification"
        /\ wrapper["RoutingTaskNotification"] = "routing.routingTaskNotification"
        /\ wrapper["AgentStateNotification"] = "routing.agentStateNotification"
    BY <1>2 DEF wrapAgentNotifications, AgentNotificationsEvent
  <2>2. QED
    BY <2>1, Names, NotificationTypes
<1>3. QED
  BY <1>1, <1>2

\* The server takes a request for what it is.
LEMMA RequestsTell ==
    ASSUME NEW r \in Requests, NEW n \in DOMAIN ConsumerRequestsEvent,
           ConsumerRequestsEvent[n] = WireType(r)
    PROVE  n = r
<1>1. n \in {"InitConnection", "UpdateConversationField", "ConsumerRequestConversation",
             "PublishEvent", "SubscribeMessagingEvents", "SubscribeExConversations",
             "UnsubscribeExConversations"}
  BY DEF ConsumerRequestsEvent
<1>2. /\ ConsumerRequestsEvent["InitConnection"] = "InitConnection"
      /\ ConsumerRequestsEvent["UpdateConversationField"] = "cm.UpdateConversationField"
      /\ ConsumerRequestsEvent["ConsumerRequestConversation"] = "cm.ConsumerRequestConversation"
      /\ ConsumerRequestsEvent["PublishEvent"] = "ms.PublishEvent"
      /\ ConsumerRequestsEvent["SubscribeMessagingEvents"] = "ms.SubscribeMessagingEvents"
      /\ ConsumerRequestsEvent["SubscribeExConversations"] = "cqm.SubscribeExConversations"
      /\ ConsumerRequestsEvent["UnsubscribeExConversations"] = "cqm.UnsubscribeExConversations"
  BY DEF ConsumerRequestsEvent
<1>3. QED
  BY <1>1, <1>2, Names, RequestTypes

\* What is no notification is not taken for one: responses, and messages that are not
\* JSON or have no type.
LEMMA OthersTell ==
    /\ Methods \subseteq DOMAIN Interface
    /\ "not JSON" \notin DOMAIN Interface /\ "untyped" \notin DOMAIN Interface
    /\ \A r \in Requests : /\ ResponseTo[r] \in DOMAIN AgentResponsesEvent
                           /\ ResponseTo[r] \in DOMAIN Interface
                           /\ ResponseTo[r] \notin Methods
<1>1. DOMAIN Interface =
         {"InitConnection", "UpdateConversationField", "ConsumerRequestConversation",
          "PublishEvent", "SubscribeMessagingEvents", "SubscribeExConversations",
          "UnsubscribeExConversations", "RequestConversationResponse", "StringResp",
          "PublishEventResponse", "GenericSubscribeResponse", "GetUserProfileResponse",
          "SubscribeExConversationsResponse", "MessagingEventNotification",
          "ExConversationChangeNotification", "RoutingTaskNotification",
          "AgentStateNotification"}
  BY DEF Interface
<1>2. \A r \in Requests : ResponseTo[r] \in {"StringResp", "RequestConversationResponse",
         "PublishEventResponse", "GenericSubscribeResponse", "SubscribeExConversationsResponse"}
  BY Names DEF ResponseTo
<1>3. DOMAIN ConsumerResponsesEvent =
         {"RequestConversationResponse", "StringResp", "PublishEventResponse",
          "GenericSubscribeResponse", "SubscribeExConversationsResponse"}
  BY DEF ConsumerResponsesEvent
<1>4. DOMAIN ConsumerResponsesEvent \subseteq DOMAIN AgentResponsesEvent
  BY DEF AgentResponsesEvent
<1>5. QED
  BY <1>1, <1>2, <1>3, <1>4, Names

-----------------------------------------------------------------------------
(* Messages, callbacks and sequences *)

\* A message is a response to a request, or a notification, or something else.
LEMMA MessageShape ==
    ASSUME NEW m \in Message
    PROVE  \/ m.reqId = None /\ m.is \in Methods \cup {"not JSON", "untyped"}
           \/ m.reqId \in Requests /\ m.reqId # None /\ m.is \in {ResponseTo[r] : r \in Requests}
BY NoneAssumption DEF Message

\* What a message is, and what callbacks may be registered for.
LEMMA MessageNames ==
    ASSUME NEW m \in Message
    PROVE  /\ m.is # None
           /\ m.is \in Methods => m.reqId = None /\ m.is \in DOMAIN Interface
           /\ m.reqId = None /\ m.is \in DOMAIN Interface => m.is \in Methods
           /\ m.reqId # None => m.reqId \in Requests
<1>1. \A r \in Requests : ResponseTo[r] # None /\ ResponseTo[r] \notin Methods
  BY OthersTell, NoneAssumption
<1>2. \A n \in Methods : n # None
  BY OthersTell, NoneAssumption
<1>3. QED
  BY <1>1, <1>2, MessageShape, OthersTell, NoneAssumption

\* The messages that the server may send.
LEMMA MessageKinds ==
    /\ \A n \in Methods \cup {"not JSON", "untyped"} : [is |-> n, reqId |-> None] \in Message
    /\ \A r \in Requests : [is |-> ResponseTo[r], reqId |-> r] \in Message
BY DEF Message

\* The parts of a registered callback.
LEMMA CallbackFields ==
    ASSUME NEW x \in CallbackType
    PROVE  /\ x.method \in Methods \cup {None}
           /\ x.event \in {WireType(n) : n \in Methods} \cup {None}
           /\ x.from \in 0..MaxReceived
BY DEF CallbackType

\* Copies are put behind what a callback was called with before.
LEMMA CopiesAppended ==
    ASSUME NEW S, NEW g \in Seq(S), NEW n \in S, NEW copies \in Nat, NEW h,
           h = g \o [i \in 1..copies |-> n]
    PROVE  /\ h \in Seq(S) /\ Len(h) = Len(g) + copies
           /\ \A k \in 1..Len(h) : h[k] = IF k <= Len(g) THEN g[k] ELSE n
<1> DEFINE b == [i \in 1..copies |-> n]
<1>1. b \in [1..copies -> S] /\ \A k \in 1..copies : b[k] = n
  OBVIOUS
<1>2. h = g \o b
  OBVIOUS
<1> HIDE DEF b
<1>3. b \in Seq(S) /\ Len(b) = copies
  BY <1>1, SeqDef, LenProperties
<1>4. /\ h \in Seq(S) /\ Len(h) = Len(g) + Len(b)
      /\ \A k \in 1..(Len(g) + Len(b)) : h[k] = IF k <= Len(g) THEN g[k] ELSE b[k - Len(g)]
  BY <1>2, <1>3, ConcatProperties
<1>5. Len(g) \in Nat
  BY LenProperties
<1>6. \A k \in 1..(Len(g) + copies) : ~(k <= Len(g)) => k - Len(g) \in 1..copies
  BY <1>5
<1>7. QED
  BY <1>1, <1>3, <1>4, <1>6

\* What is used of the types and the invariant wherever a message is received: the first
\* of those on their way, what was received, and what callbacks listen to.
LEMMA ReceiveFacts ==
    ASSUME IInv, Receive
    PROVE  /\ Head(inTransit) \in Message /\ Head(inTransit) = inTransit[1]
           /\ received' = Append(received, Head(inTransit))
           /\ received' \in Seq(Message) /\ Len(received') = Len(received) + 1
           /\ Len(received) \in Nat /\ Len(received') \in 1..MaxReceived
           /\ \A i \in 1..Len(received) : received'[i] = received[i]
           /\ received'[Len(received')] = Head(inTransit)
           /\ inTransit' \in Seq(Message) /\ Len(inTransit') = Len(inTransit) - 1
           /\ \A i \in 1..Len(inTransit') : inTransit'[i] = inTransit[i + 1]
           /\ Len(inTransit) \in Nat \ {0}
           /\ handlers \in Nat \ {0} /\ handlers' = handlers
<1> DEFINE x == Head(inTransit)
<1>1. /\ inTransit \in Seq(Message) /\ received \in Seq(Message)
      /\ starts \in 0..MaxStarts /\ handlers \in 0..starts
      /\ inTransit # <<>> /\ handlers > 0 /\ Len(received) + Len(inTransit) <= MaxReceived
  BY DEF IInv, TypeOK, WireInv, Receive
<1>2. /\ inTransit' = Tail(inTransit) /\ received' = Append(received, x)
      /\ handlers' = handlers
  BY DEF Receive
<1>3. x \in Message /\ x = inTransit[1]
  BY <1>1, HeadTailProperties
<1> HIDE DEF x
<1>4. /\ received' \in Seq(Message) /\ Len(received') = Len(received) + 1
      /\ \A i \in 1..Len(received) : received'[i] = received[i]
      /\ received'[Len(received) + 1] = x
  BY <1>1, <1>2, <1>3, AppendProperties
<1>5. /\ inTransit' \in Seq(Message) /\ Len(inTransit') = Len(inTransit) - 1
      /\ \A i \in 1..Len(inTransit') : inTransit'[i] = inTransit[i + 1]
  BY <1>1, <1>2, HeadTailProperties
<1>6. Len(received) \in Nat /\ Len(inTransit) \in Nat \ {0}
  BY <1>1, LenProperties, EmptySeq
<1>7. Len(received') \in 1..MaxReceived
  BY <1>1, <1>4, <1>6, DispatchBounds
<1>8. handlers \in Nat \ {0}
  BY <1>1
<1>9. QED
  BY <1>2, <1>3, <1>4, <1>5, <1>6, <1>7, <1>8 DEF x

\* A callback listens to a message if, and only if, it was registered for it.
LEMMA ListeningIs ==
    ASSUME IInv, NEW c \in Callbacks, NEW m \in Message
    PROVE  c \in Listening(m) <=> callback[c].method = m.is
<1>1. callback[c] \in CallbackType
  BY DEF IInv, TypeOK
<1>2. /\ callback[c].method \in Methods \cup {None}
      /\ callback[c].event = IF callback[c].method # None
                             THEN WireType(callback[c].method) ELSE None
  BY <1>1, CallbackFields DEF IInv, ListenInv
<1>3. CASE m.is \in Methods
  <2>1. c \in Listening(m) <=> callback[c].event = WireType(m.is)
    BY <1>3, MessageNames DEF Listening, isResponseType
  <2>2. WireType(m.is) # None /\ m.is # None
    BY <1>3, NoneAssumption, MessageNames
  <2>3. QED
    BY <1>2, <1>3, <2>1, <2>2, TypesTell
<1>4. CASE m.is \notin Methods
  <2>1. c \notin Listening(m)
    BY <1>4, MessageNames DEF Listening, isResponseType
  <2>2. callback[c].method # m.is
    BY <1>2, <1>4, MessageNames
  <2>3. QED
    BY <2>1, <2>2
<1>5. QED
  BY <1>3, <1>4

\* What Receive does to a callback: it is called with the new message, as often as there
\* are dispatch callbacks, if it is registered for it.
LEMMA GotNext ==
    ASSUME IInv, Receive, NEW c \in Callbacks
    PROVE  LET calls == callback[c].method = Head(inTransit).is
           IN  /\ got[c] \in Seq(1..MaxReceived) /\ got'[c] \in Seq(1..MaxReceived)
               /\ Len(got[c]) \in Nat
               /\ ~calls => got'[c] = got[c]
               /\ calls => /\ Len(got'[c]) = Len(got[c]) + handlers
                           /\ \A k \in 1..Len(got'[c]) :
                                got'[c][k] = IF k <= Len(got[c]) THEN got[c][k] ELSE Len(received')
<1> DEFINE m == Head(inTransit)
           n == Len(received')
<1>1. got \in [Callbacks -> Seq(1..MaxReceived)]
  BY DEF IInv, TypeOK
<1>2. m \in Message /\ n \in 1..MaxReceived /\ handlers \in Nat
  BY ReceiveFacts
<1>3. got'[c] = IF c \in Listening(m) THEN got[c] \o Copies(n) ELSE got[c]
  BY DEF Receive
<1>4. c \in Listening(m) <=> callback[c].method = m.is
  BY <1>2, ListeningIs
<1> HIDE DEF m, n
<1>5. got[c] \in Seq(1..MaxReceived)
  BY <1>1
<1> DEFINE h == got[c] \o Copies(n)
<1>6. /\ h \in Seq(1..MaxReceived) /\ Len(h) = Len(got[c]) + handlers
      /\ \A k \in 1..Len(h) : h[k] = IF k <= Len(got[c]) THEN got[c][k] ELSE n
  <2>1. h = got[c] \o [i \in 1..handlers |-> n]
    BY DEF Copies
  <2> HIDE DEF h
  <2>2. QED
    BY <1>2, <1>5, <2>1, CopiesAppended
<1> HIDE DEF h
<1>7. Len(got[c]) \in Nat
  BY <1>5, LenProperties
<1>8. got'[c] = IF c \in Listening(m) THEN h ELSE got[c]
  BY <1>3 DEF h
<1>9. QED
  BY <1>4, <1>5, <1>6, <1>7, <1>8 DEF m, n

-----------------------------------------------------------------------------
(* Steps *)

\* What a message, once it is on its way, does not change.
LEMMA SendsFacts ==
    ASSUME IInv, NEW m \in Message, Sends(m)
    PROVE  /\ inTransit' = Append(inTransit, m) /\ inTransit' \in Seq(Message)
           /\ Len(inTransit') = Len(inTransit) + 1 /\ Len(inTransit) \in Nat
           /\ \A i \in 1..Len(inTransit) : inTransit'[i] = inTransit[i]
           /\ inTransit'[Len(inTransit) + 1] = m
           /\ connected /\ Len(received) + Len(inTransit) < MaxReceived
           /\ UNCHANGED <<state, transition, handlers, callback, pending, answer, connected,
                          received, got, starts>>
<1>1. inTransit \in Seq(Message)
  BY DEF IInv, TypeOK
<1>2. /\ inTransit' = Append(inTransit, m)
      /\ connected /\ Len(received) + Len(inTransit) < MaxReceived
      /\ UNCHANGED <<state, transition, handlers, callback, pending, answer, connected,
                     received, got, starts>>
  BY DEF Sends, MachineUnchanged, requestVars
<1>3. QED
  BY <1>1, <1>2, AppendProperties, LenProperties

\* What the server sends is a notification, something else, or the response that was
\* promised for a request that waits.
LEMMA ServerSends ==
    ASSUME \/ \E r \in Requests : ServerResponds(r)
           \/ \E n \in Methods \cup {"not JSON", "untyped"} : ServerNotifies(n)
    PROVE  \E m \in Message : /\ Sends(m)
                              /\ m.reqId # None => m.is = ResponseTo[m.reqId]
<1>1. CASE \E r \in Requests : ServerResponds(r)
  <2>1. PICK r \in Requests : ServerResponds(r)
    BY <1>1
  <2> DEFINE m == [is |-> ResponseTo[r], reqId |-> r]
  <2>2. PICK n \in DOMAIN ConsumerRequestsEvent :
           /\ ConsumerRequestsEvent[n] = WireType(r)
           /\ Sends([is |-> ResponseTo[n], reqId |-> r])
    BY <2>1 DEF ServerResponds
  <2>3. n = r
    BY <2>2, RequestsTell
  <2>4. Sends(m)
    BY <2>2, <2>3
  <2>5. m \in Message
    BY MessageKinds
  <2>6. m.is = ResponseTo[m.reqId]
    OBVIOUS
  <2>7. QED
    BY <2>4, <2>5, <2>6
<1>2. CASE \E n \in Methods \cup {"not JSON", "untyped"} : ServerNotifies(n)
  <2>1. PICK n \in Methods \cup {"not JSON", "untyped"} : ServerNotifies(n)
    BY <1>2
  <2> DEFINE m == [is |-> n, reqId |-> None]
  <2>2. Sends(m) /\ m \in Message /\ m.reqId = None
    BY <2>1, MessageKinds DEF ServerNotifies
  <2>3. QED
    BY <2>2
<1>3. QED
  BY <1>1, <1>2

\* The steps, with the two of the server in one.
LEMMA Steps ==
    ASSUME Next
    PROVE  \/ \E c \in Callbacks :
                 \E wrapper \in {wrapConsumerNotifications, wrapAgentNotifications} :
                    \E n \in Methods \cap DOMAIN wrapper : OnNotification(c, wrapper, n)
           \/ \E r \in Requests : SendMessage(r)
           \/ \E m \in Message : /\ Sends(m)
                                 /\ m.reqId # None => m.is = ResponseTo[m.reqId]
           \/ Receive \/ Throws \/ Start \/ StartEnds \/ Stop \/ StartOrStopFails \/ StopEnds
           \/ ConnectionLost
BY ServerSends DEF Next, Turn

\* Bounds on numbers.
LEMMA Numbers ==
    ASSUME NEW a \in 0..MaxStarts, NEW h \in 0..a
    PROVE  /\ a \in Nat /\ h \in Nat
           /\ a < MaxStarts => a + 1 \in 0..MaxStarts
           /\ h \in 0..(a + 1)
           /\ h < a => h + 1 \in 0..a
BY DispatchBounds

\* The types are kept.
LEMMA TypeStep ==
    ASSUME IInv, [Next]_vars
    PROVE  TypeOK'
<1> USE DEF IInv
<1>1. /\ state \in States /\ transition \in Transitions \cup {"none"}
      /\ connected \in BOOLEAN /\ handlers \in 0..starts
      /\ callback \in [Callbacks -> CallbackType]
      /\ pending \subseteq Requests
      /\ answer \in [Requests -> DOMAIN AgentResponsesEvent \cup {None}]
      /\ inTransit \in Seq(Message) /\ received \in Seq(Message)
      /\ got \in [Callbacks -> Seq(1..MaxReceived)]
      /\ starts \in 0..MaxStarts
  BY DEF TypeOK, MachineTypeOK
<1>0. running' \in BOOLEAN
  BY DEF Next, vars, Throws, TypeOK
<1>2. ASSUME NEW c \in Callbacks,
             NEW wrapper \in {wrapConsumerNotifications, wrapAgentNotifications},
             NEW n \in Methods \cap DOMAIN wrapper, OnNotification(c, wrapper, n)
      PROVE  TypeOK'
  <2> DEFINE x == Registered(wrapper, n)
  <2>1. wrapper[n] \in {WireType(k) : k \in Methods}
    BY WrappersListen
  <2>2. Len(received) \in 0..MaxReceived
    <3>1. Len(received) \in Nat /\ Len(inTransit) \in Nat
      BY <1>0, <1>1, LenProperties
    <3>2. QED
      BY <3>1, DispatchBounds DEF WireInv
  <2>3. x \in CallbackType
    BY <2>1, <2>2 DEF CallbackType, Registered
  <2>4. callback' = [callback EXCEPT ![c] = x]
    BY <1>2 DEF OnNotification
  <2> HIDE DEF x
  <2>5. callback' \in [Callbacks -> CallbackType]
    BY <1>0, <1>1, <2>3, <2>4
  <2>6. QED
    BY <1>0, <1>1, <1>2, <2>5
       DEF OnNotification, TypeOK, MachineTypeOK, MachineUnchanged, requestVars, wireVars
<1>3. ASSUME NEW r \in Requests, SendMessage(r)
      PROVE  TypeOK'
  BY <1>0, <1>1, <1>3 DEF SendMessage, TypeOK, MachineTypeOK, MachineUnchanged, wireVars
<1>4. ASSUME NEW m \in Message, Sends(m)
      PROVE  TypeOK'
  BY <1>0, <1>1, <1>4, SendsFacts DEF TypeOK, MachineTypeOK
<1>5. CASE Receive
  <2>1. inTransit' \in Seq(Message) /\ received' \in Seq(Message)
    BY <1>5, ReceiveFacts
  <2>2. got' \in [Callbacks -> Seq(1..MaxReceived)]
    <3>1. \A c \in Callbacks : got'[c] \in Seq(1..MaxReceived)
      BY <1>5, GotNext
    <3>2. got' = [c \in Callbacks |-> got'[c]]
      BY <1>5 DEF Receive
    <3>3. QED
      BY <3>1, <3>2
  <2>3. /\ pending' \subseteq Requests
        /\ answer' \in [Requests -> DOMAIN AgentResponsesEvent \cup {None}]
    <3> DEFINE m == Head(inTransit)
    <3>1. \/ pending' = pending /\ answer' = answer
          \/ /\ m.reqId # None
             /\ pending' = pending \ {m.reqId}
             /\ answer' = [answer EXCEPT ![m.reqId] = m.is]
      BY <1>5 DEF Receive, requestVars, isResponseType
    <3>2. m \in Message
      BY <1>5, ReceiveFacts
    <3> HIDE DEF m
    <3>3. m.reqId # None => m.is \in DOMAIN AgentResponsesEvent
      BY <3>2, MessageShape, OthersTell
    <3>4. QED
      BY <1>0, <1>1, <3>1, <3>3
  <2>4. UNCHANGED <<state, transition, handlers, callback, connected, starts>>
    BY <1>5 DEF Receive, MachineUnchanged
  <2>5. QED
    BY <1>0, <1>1, <2>1, <2>2, <2>3, <2>4 DEF TypeOK, MachineTypeOK
<1>6. CASE Start
  <2>1. starts' \in 0..MaxStarts /\ handlers' \in 0..starts'
    BY <1>0, <1>1, <1>6, Numbers DEF Start
  <2>2. state' \in States /\ transition' \in Transitions \cup {"none"}
    BY <1>6 DEF Start, Fire, To, States, Transitions
  <2>3. UNCHANGED <<handlers, callback, pending, answer, connected, inTransit, received, got>>
    BY <1>6 DEF Start, requestVars, wireVars
  <2>4. QED
    BY <1>0, <1>1, <2>1, <2>2, <2>3 DEF TypeOK, MachineTypeOK
<1>7. CASE StartEnds
  <2>1. handlers' \in 0..starts
    BY <1>0, <1>1, <1>7, Numbers DEF StartEnds, OnMessage, PhaseInv
  <2>2. /\ state' = state /\ transition' = "none" /\ connected' = TRUE /\ inTransit' = <<>>
        /\ UNCHANGED <<callback, pending, answer, received, got, starts>>
    BY <1>7 DEF StartEnds, Settle, requestVars
  <2>3. inTransit' \in Seq(Message)
    BY <2>2, EmptySeq
  <2>4. QED
    BY <1>0, <1>1, <2>1, <2>2, <2>3 DEF TypeOK, MachineTypeOK
<1>8. CASE Stop
  <2>1. state' \in States /\ transition' \in Transitions \cup {"none"}
    BY <1>8 DEF Stop, Fire, To, States, Transitions
  <2>2. UNCHANGED <<handlers, callback, pending, answer, connected, inTransit, received, got,
                    starts>>
    BY <1>8 DEF Stop, requestVars, wireVars
  <2>3. QED
    BY <1>0, <1>1, <2>1, <2>2 DEF TypeOK, MachineTypeOK
<1>9. CASE StartOrStopFails
  <2>1. /\ state' = state /\ transition' = "none"
        /\ \/ connected' = FALSE /\ inTransit' = <<>>
           \/ connected' = connected /\ inTransit' = inTransit
        /\ UNCHANGED <<handlers, callback, pending, answer, received, got, starts>>
    BY <1>9 DEF StartOrStopFails, Settle, Disconnect, wireVars, requestVars
  <2>2. inTransit' \in Seq(Message) /\ connected' \in BOOLEAN
    BY <1>0, <1>1, <2>1, EmptySeq
  <2>3. QED
    BY <1>0, <1>1, <2>1, <2>2 DEF TypeOK, MachineTypeOK
<1>10. CASE StopEnds
  <2>1. /\ state' = state /\ transition' = "none" /\ connected' = FALSE /\ inTransit' = <<>>
        /\ UNCHANGED <<handlers, callback, pending, answer, received, got, starts>>
    BY <1>10 DEF StopEnds, Settle, Disconnect, requestVars
  <2>2. inTransit' \in Seq(Message)
    BY <2>1, EmptySeq
  <2>3. QED
    BY <1>0, <1>1, <2>1, <2>2 DEF TypeOK, MachineTypeOK
<1>11. CASE ConnectionLost \/ Throws
  <2>1. /\ connected' = FALSE /\ inTransit' = <<>>
        /\ UNCHANGED <<state, transition, handlers, callback, pending, answer, received, got,
                       starts>>
    BY <1>11 DEF ConnectionLost, Throws, Disconnect, MachineUnchanged, requestVars
  <2>2. inTransit' \in Seq(Message)
    BY <2>1, EmptySeq
  <2>3. QED
    BY <1>0, <1>1, <2>1, <2>2 DEF TypeOK, MachineTypeOK
<1>12. CASE UNCHANGED vars
  BY <1>0, <1>1, <1>12 DEF vars, requestVars, wireVars, TypeOK, MachineTypeOK
<1>13. QED
  BY <1>2, <1>3, <1>4, <1>5, <1>6, <1>7, <1>8, <1>9, <1>10, <1>11, <1>12, Steps

\* How far a start has come.
LEMMA PhaseStep ==
    ASSUME IInv, [Next]_vars
    PROVE  PhaseInv'
<1> USE DEF IInv, PhaseInv
<1>1. starts \in Nat /\ handlers \in 0..starts
  BY Numbers DEF TypeOK
<1>2. CASE UNCHANGED <<transition, handlers, starts>>
  BY <1>2
<1>3. CASE Start
  <2>1. starts' = starts + 1 /\ handlers' = handlers
    BY <1>3 DEF Start
  <2>2. QED
    BY <1>1, <2>1
<1>4. CASE transition' \in {"none", "stop"}
  BY <1>4
<1>5. CASE Next
  <2>1. \/ UNCHANGED <<transition, handlers, starts>>
        \/ Start
        \/ transition' \in {"none", "stop"}
    BY <1>5, Steps
       DEF OnNotification, SendMessage, Sends, Receive, Throws, ConnectionLost, MachineUnchanged,
           StartEnds, Stop, StartOrStopFails, StopEnds, Settle, Fire
  <2>2. QED
    BY <1>2, <1>3, <1>4, <2>1
<1>6. QED
  BY <1>2, <1>5 DEF vars

\* What is on the wire.
LEMMA WireStep ==
    ASSUME IInv, [Next]_vars
    PROVE  WireInv'
<1> USE DEF IInv
<1>1. inTransit \in Seq(Message) /\ received \in Seq(Message) /\ handlers \in Nat
  BY Numbers DEF TypeOK
<1>2. Len(inTransit) \in Nat /\ Len(received) \in Nat /\ Len(<<>>) = 0
  BY <1>1, LenProperties
<1>3. CASE UNCHANGED <<connected, handlers, inTransit, received>>
  BY <1>3 DEF WireInv
<1>4. CASE /\ inTransit' = <<>> /\ received' = received
           /\ connected' => handlers' > 0
  <2>1. Len(inTransit') = 0
    BY <1>2, <1>4
  <2>2. Len(received') + Len(inTransit') <= MaxReceived
    BY <1>2, <1>4, <2>1, DispatchBounds DEF WireInv
  <2>3. QED
    BY <1>4, <2>1, <2>2 DEF WireInv
<1>5. ASSUME NEW m \in Message, Sends(m), m.reqId # None => m.is = ResponseTo[m.reqId]
      PROVE  WireInv'
  <2>1. /\ Len(inTransit') = Len(inTransit) + 1
        /\ \A i \in 1..Len(inTransit) : inTransit'[i] = inTransit[i]
        /\ inTransit'[Len(inTransit) + 1] = m
        /\ connected /\ Len(received) + Len(inTransit) < MaxReceived
        /\ connected' = connected /\ handlers' = handlers /\ received' = received
    BY <1>5, SendsFacts
  <2>2. Len(received') + Len(inTransit') <= MaxReceived
    BY <1>2, <2>1, DispatchBounds
  <2>3. \A i \in 1..Len(inTransit') : i \in 1..Len(inTransit) \/ i = Len(inTransit) + 1
    BY <1>2, <2>1
  <2>4. \A i \in 1..Len(inTransit') :
           inTransit'[i].reqId # None => inTransit'[i].is = ResponseTo[inTransit'[i].reqId]
    BY <1>5, <2>1, <2>3 DEF WireInv
  <2>5. QED
    BY <2>1, <2>2, <2>4 DEF WireInv
<1>6. CASE Receive
  <2>1. /\ Len(received') = Len(received) + 1 /\ Len(inTransit') = Len(inTransit) - 1
        /\ \A i \in 1..Len(inTransit') : inTransit'[i] = inTransit[i + 1]
        /\ Len(inTransit) \in Nat \ {0} /\ handlers' = handlers
    BY <1>6, ReceiveFacts
  <2>2. inTransit # <<>> /\ connected' = connected
    BY <1>6 DEF Receive
  <2>3. \A i \in 1..Len(inTransit') : i + 1 \in 1..Len(inTransit)
    BY <2>1
  <2>4. Len(received') + Len(inTransit') = Len(received) + Len(inTransit)
    BY <1>2, <2>1
  <2>5. QED
    BY <2>1, <2>2, <2>3, <2>4 DEF WireInv
<1>7. CASE StartEnds
  <2>1. inTransit' = <<>> /\ received' = received /\ handlers' = handlers + 1
    BY <1>7 DEF StartEnds, OnMessage
  <2>2. QED
    BY <1>1, <1>4, <2>1
<1>8. CASE Next
  <2>1. \/ UNCHANGED <<connected, handlers, inTransit, received>>
        \/ inTransit' = <<>> /\ received' = received /\ connected' = FALSE
        \/ \E m \in Message : Sends(m) /\ (m.reqId # None => m.is = ResponseTo[m.reqId])
        \/ Receive \/ StartEnds
    BY <1>8, Steps
       DEF OnNotification, SendMessage, Throws, Start, Stop, StartOrStopFails, StopEnds,
           ConnectionLost, Disconnect, wireVars
  <2>2. QED
    BY <1>3, <1>4, <1>5, <1>6, <1>7, <2>1
<1>9. QED
  BY <1>3, <1>8 DEF vars, wireVars

\* What callbacks listen to.
LEMMA ListenStep ==
    ASSUME IInv, [Next]_vars
    PROVE  ListenInv'
<1> USE DEF IInv
<1>1. /\ callback \in [Callbacks -> CallbackType] /\ received \in Seq(Message)
      /\ Len(received) \in Nat
  BY LenProperties DEF TypeOK
<1>2. \A c \in Callbacks : callback[c].from \in Nat
  BY <1>1, CallbackFields, DispatchBounds
<1>3. CASE UNCHANGED <<callback, received>>
  BY <1>3 DEF ListenInv
<1>4. ASSUME NEW c \in Callbacks,
             NEW wrapper \in {wrapConsumerNotifications, wrapAgentNotifications},
             NEW n \in Methods \cap DOMAIN wrapper, OnNotification(c, wrapper, n)
      PROVE  ListenInv'
  <2> DEFINE x == Registered(wrapper, n)
  <2>1. callback' = [callback EXCEPT ![c] = x] /\ received' = received
    BY <1>4 DEF OnNotification
  <2>2. x.method = n /\ x.event = WireType(n) /\ x.from = Len(received) /\ n # None
    BY WrappersListen, OthersTell, NoneAssumption DEF Registered
  <2> HIDE DEF x
  <2>3. \A d \in Callbacks : callback'[d] = IF d = c THEN x ELSE callback[d]
    BY <1>1, <2>1
  <2>4. SUFFICES ASSUME NEW d \in Callbacks
                 PROVE  /\ callback'[d].event = IF callback'[d].method # None
                                                THEN WireType(callback'[d].method) ELSE None
                        /\ callback'[d].from <= Len(received)
    BY <2>1 DEF ListenInv
  <2>5. CASE d = c
    BY <1>1, <2>2, <2>3, <2>5
  <2>6. CASE d # c
    BY <2>3, <2>6 DEF ListenInv
  <2>7. QED
    BY <2>5, <2>6
<1>5. CASE Receive
  <2>1. callback' = callback /\ Len(received') = Len(received) + 1
    BY <1>5, ReceiveFacts DEF Receive
  <2>2. \A c \in Callbacks : callback[c].from <= Len(received')
    BY <1>1, <1>2, <2>1 DEF ListenInv
  <2>3. QED
    BY <2>1, <2>2 DEF ListenInv
<1>6. CASE Next
  <2>1. \/ \E c \in Callbacks : \E wrapper \in {wrapConsumerNotifications, wrapAgentNotifications} :
              \E n \in Methods \cap DOMAIN wrapper : OnNotification(c, wrapper, n)
        \/ UNCHANGED <<callback, received>>
        \/ Receive
    BY <1>6, Steps
       DEF SendMessage, Sends, Throws, Start, StartEnds, Stop, StartOrStopFails, StopEnds,
           ConnectionLost
  <2>2. QED
    BY <1>3, <1>4, <1>5, <2>1
<1>7. QED
  BY <1>3, <1>6 DEF vars

\* A callback that is not registered has not been called.
LEMMA NotCalled ==
    ASSUME IInv, NEW c \in Callbacks, callback[c].method = None
    PROVE  Len(got[c]) = 0
<1>1. /\ got[c] \in Seq(1..MaxReceived) /\ received \in Seq(Message)
  BY DEF IInv, TypeOK
<1>2. Len(got[c]) \in Nat
  BY <1>1, LenProperties
<1>3. ASSUME 1 \in 1..Len(got[c])
      PROVE  FALSE
  <2>1. got[c][1] \in 1..Len(received) /\ Wanted(c, got[c][1])
    BY <1>3 DEF IInv, DeliverInv, Delivered
  <2>2. received[got[c][1]] \in Message
    BY <1>1, <2>1, ElementOfSeq
  <2>3. received[got[c][1]].is # None
    BY <2>2, MessageNames
  <2>4. QED
    BY <2>1, <2>3 DEF Wanted, What
<1>4. QED
  BY <1>2, <1>3

\* A callback keeps what it has been called with, and what it is to be called with, as
\* long as nothing is received and its registration stays.
LEMMA DeliveredStays ==
    ASSUME IInv, NEW c \in Callbacks,
           /\ callback'[c].method = callback[c].method
           /\ callback'[c].from = callback[c].from,
           got'[c] = got[c], received' = received,
           handlers' \in {handlers, handlers + 1}
    PROVE  Delivered(c)'
<1>1. got[c] \in Seq(1..MaxReceived) /\ handlers \in Nat
  BY Numbers DEF IInv, TypeOK
<1>2. /\ Len(got[c]) \in Nat
      /\ \A k \in 1..Len(got[c]) : got[c][k] \in Nat
  <2>1. Len(got[c]) \in Nat /\ \A k \in 1..Len(got[c]) : got[c][k] \in 1..MaxReceived
    BY <1>1, LenProperties, ElementOfSeq
  <2>2. QED
    BY <2>1, DispatchBounds
<1>3. /\ \A k \in 1..Len(got[c]) : got[c][k] \in 1..Len(received) /\ Wanted(c, got[c][k])
      /\ \A i \in 1..Len(received) : Wanted(c, i) => \E k \in 1..Len(got[c]) : got[c][k] = i
      /\ \A k, l \in 1..Len(got[c]) : k < l => got[c][k] <= got[c][l]
      /\ \A k, l \in 1..Len(got[c]) : l = k + handlers => got[c][k] < got[c][l]
  BY DEF IInv, DeliverInv, Delivered
<1>4. \A i : Wanted(c, i)' <=> Wanted(c, i)
  BY DEF Wanted, What
<1>5. ASSUME NEW k \in 1..Len(got[c]), NEW l \in 1..Len(got[c]), l = k + handlers'
      PROVE  got[c][k] < got[c][l]
  <2>1. CASE handlers' = handlers
    BY <1>3, <1>5, <2>1
  <2>2. CASE handlers' = handlers + 1
    <3>1. k + handlers \in 1..Len(got[c]) /\ k + handlers < l
      BY <1>1, <1>2, <1>5, <2>2
    <3>2. got[c][k] < got[c][k + handlers] /\ got[c][k + handlers] <= got[c][l]
      BY <1>3, <3>1
    <3>3. got[c][k] \in Nat /\ got[c][k + handlers] \in Nat /\ got[c][l] \in Nat
      BY <1>2, <3>1
    <3>4. QED
      BY <3>2, <3>3
  <2>3. QED
    BY <2>1, <2>2
<1>6. QED
  BY <1>3, <1>4, <1>5 DEF Delivered

\* What is received goes to the callbacks that are registered for it, after what they
\* were called with before.
LEMMA DeliveredReceive ==
    ASSUME IInv, Receive, NEW c \in Callbacks
    PROVE  Delivered(c)'
<1> DEFINE g == got[c]
           g2 == got'[c]
           n == Len(received')
           calls == callback[c].method = Head(inTransit).is
           wanted2(i) == /\ callback'[c].from < i
                         /\ callback'[c].method = received'[i].is
<1>1. /\ Len(received) \in Nat /\ n = Len(received) + 1
      /\ \A i \in 1..Len(received) : received'[i] = received[i]
      /\ received'[n] = Head(inTransit)
      /\ handlers \in Nat \ {0} /\ handlers' = handlers
      /\ callback' = callback
  BY ReceiveFacts DEF Receive
<1>2. /\ g \in Seq(1..MaxReceived) /\ g2 \in Seq(1..MaxReceived)
      /\ Len(g) \in Nat
      /\ ~calls => g2 = g
      /\ calls => /\ Len(g2) = Len(g) + handlers
                  /\ \A k \in 1..Len(g2) : g2[k] = IF k <= Len(g) THEN g[k] ELSE n
  BY GotNext
<1>3. /\ \A k \in 1..Len(g) : g[k] \in 1..Len(received) /\ Wanted(c, g[k])
      /\ \A i \in 1..Len(received) : Wanted(c, i) => \E k \in 1..Len(g) : g[k] = i
      /\ \A k, l \in 1..Len(g) : k < l => g[k] <= g[l]
      /\ \A k, l \in 1..Len(g) : l = k + handlers => g[k] < g[l]
  BY DEF IInv, DeliverInv, Delivered
<1>4. \A i \in 1..Len(received) : wanted2(i) <=> Wanted(c, i)
  BY <1>1 DEF Wanted, What
<1>5. wanted2(n) <=> calls
  <2>1. callback[c].from \in Nat /\ callback[c].from <= Len(received)
    BY CallbackFields DEF IInv, TypeOK, ListenInv
  <2>2. callback[c].from < n
    BY <1>1, <2>1
  <2>3. QED
    BY <1>1, <2>2
<1>6. Delivered(c)' <=>
         /\ \A k \in 1..Len(g2) : g2[k] \in 1..n /\ wanted2(g2[k])
         /\ \A i \in 1..n : wanted2(i) => \E k \in 1..Len(g2) : g2[k] = i
         /\ \A k, l \in 1..Len(g2) : k < l => g2[k] <= g2[l]
         /\ \A k, l \in 1..Len(g2) : l = k + handlers' => g2[k] < g2[l]
  BY DEF Delivered, Wanted, What
<1> HIDE DEF g, g2, n, calls, wanted2
<1>7. \A i \in 1..n : i \in 1..Len(received) \/ i = n
  BY <1>1
<1>8. \A i \in 1..Len(received) : i \in 1..n /\ i < n /\ i \in Nat
  BY <1>1
<1>9. CASE ~calls
  <2>1. g2 = g
    BY <1>2, <1>9
  <2>2. \A k \in 1..Len(g) : g[k] \in 1..n /\ wanted2(g[k])
    BY <1>3, <1>4, <1>8
  <2>3. \A i \in 1..n : wanted2(i) => \E k \in 1..Len(g) : g[k] = i
    BY <1>3, <1>4, <1>5, <1>7, <1>9
  <2>4. QED
    BY <1>1, <1>3, <1>6, <2>1, <2>2, <2>3
<1>10. CASE calls
  <2>1. /\ Len(g2) = Len(g) + handlers
        /\ \A k \in 1..Len(g2) : g2[k] = IF k <= Len(g) THEN g[k] ELSE n
    BY <1>2, <1>10
  <2>2. \A k \in 1..Len(g) : k \in 1..Len(g2) /\ g2[k] = g[k]
    BY <1>1, <1>2, <2>1
  <2>3. \A k \in 1..Len(g2) : k \in 1..Len(g) \/ (k > Len(g) /\ g2[k] = n)
    BY <1>1, <1>2, <2>1
  <2>4. Len(g) + 1 \in 1..Len(g2) /\ g2[Len(g) + 1] = n
    BY <1>1, <1>2, <2>1
  <2>5. n \in 1..n /\ n \in Nat
    BY <1>1
  <2>6. ASSUME NEW k \in 1..Len(g2)
        PROVE  g2[k] \in 1..n /\ wanted2(g2[k])
    <3>1. CASE k \in 1..Len(g)
      BY <1>3, <1>4, <1>8, <2>2, <3>1
    <3>2. CASE g2[k] = n
      BY <1>5, <1>10, <2>5, <3>2
    <3>3. QED
      BY <2>3, <3>1, <3>2
  <2>7. ASSUME NEW i \in 1..n, wanted2(i)
        PROVE  \E k \in 1..Len(g2) : g2[k] = i
    <3>1. CASE i = n
      BY <2>4, <3>1
    <3>2. CASE i \in 1..Len(received)
      <4>1. PICK k \in 1..Len(g) : g[k] = i
        BY <1>3, <1>4, <2>7, <3>2
      <4>2. QED
        BY <2>2, <4>1
    <3>3. QED
      BY <1>7, <3>1, <3>2
  <2>8. ASSUME NEW k \in 1..Len(g2), NEW l \in 1..Len(g2), k < l
        PROVE  g2[k] <= g2[l]
    <3>1. CASE l \in 1..Len(g)
      <4>1. k \in 1..Len(g)
        BY <1>2, <2>8, <3>1
      <4>2. QED
        BY <1>3, <2>2, <2>8, <3>1, <4>1
    <3>2. CASE g2[l] = n
      <4>1. g2[k] \in 1..n
        BY <2>6
      <4>2. QED
        BY <2>5, <3>2, <4>1
    <3>3. QED
      BY <2>3, <3>1, <3>2
  <2>9. ASSUME NEW k \in 1..Len(g2), NEW l \in 1..Len(g2), l = k + handlers
        PROVE  g2[k] < g2[l]
    <3>1. k \in 1..Len(g)
      BY <1>1, <1>2, <2>1, <2>9
    <3>2. CASE l \in 1..Len(g)
      BY <1>3, <2>2, <2>9, <3>1, <3>2
    <3>3. CASE g2[l] = n
      <4>1. g2[k] \in 1..Len(received)
        BY <1>3, <2>2, <3>1
      <4>2. QED
        BY <1>8, <3>3, <4>1
    <3>4. QED
      BY <2>3, <3>2, <3>3
  <2>10. QED
    BY <1>1, <1>6, <2>6, <2>7, <2>8, <2>9
<1>11. QED
  BY <1>9, <1>10

\* What callbacks have been called with.
LEMMA DeliverStep ==
    ASSUME IInv, [Next]_vars
    PROVE  DeliverInv'
<1>1. /\ callback \in [Callbacks -> CallbackType] /\ handlers \in Nat
  BY Numbers DEF IInv, TypeOK
<1>2. CASE UNCHANGED <<callback, received, got>> /\ handlers' \in {handlers, handlers + 1}
  BY <1>2, DeliveredStays DEF DeliverInv
<1>3. ASSUME NEW c \in Callbacks,
             NEW wrapper \in {wrapConsumerNotifications, wrapAgentNotifications},
             NEW n \in Methods \cap DOMAIN wrapper, OnNotification(c, wrapper, n)
      PROVE  DeliverInv'
  <2> DEFINE x == Registered(wrapper, n)
  <2>1. /\ callback' = [callback EXCEPT ![c] = x] /\ callback[c].method = None
        /\ received' = received /\ got' = got /\ handlers' = handlers
    BY <1>3 DEF OnNotification
  <2>2. x.from = Len(received)
    BY DEF Registered
  <2> HIDE DEF x
  <2>3. \A d \in Callbacks : callback'[d] = IF d = c THEN x ELSE callback[d]
    BY <1>1, <2>1
  <2>4. ASSUME NEW d \in Callbacks, d # c
        PROVE  Delivered(d)'
    BY <2>1, <2>3, <2>4, DeliveredStays
  <2>5. Delivered(c)'
    <3>1. Len(got'[c]) = 0 /\ Len(received) \in Nat
      <4>1. received \in Seq(Message)
        BY DEF IInv, TypeOK
      <4>2. QED
        BY <2>1, <4>1, NotCalled, LenProperties
    <3>2. \A i \in 1..Len(received) : ~(Len(received) < i)
      BY <3>1
    <3>3. \A i \in 1..Len(received') : ~Wanted(c, i)'
      BY <2>1, <2>2, <2>3, <3>2 DEF Wanted
    <3>4. \A k \in 1..Len(got'[c]) : FALSE
      BY <3>1
    <3>5. QED
      BY <3>3, <3>4 DEF Delivered
  <2>6. QED
    BY <2>4, <2>5 DEF DeliverInv
<1>4. CASE Receive
  BY <1>4, DeliveredReceive DEF DeliverInv
<1>5. CASE Next
  <2>1. \/ \E c \in Callbacks : \E wrapper \in {wrapConsumerNotifications, wrapAgentNotifications} :
              \E n \in Methods \cap DOMAIN wrapper : OnNotification(c, wrapper, n)
        \/ UNCHANGED <<callback, received, got>> /\ handlers' \in {handlers, handlers + 1}
        \/ Receive
    BY <1>5, Steps
       DEF SendMessage, Sends, Throws, Start, StartEnds, OnMessage, Stop, StartOrStopFails,
           StopEnds, ConnectionLost
  <2>2. QED
    BY <1>2, <1>3, <1>4, <2>1
<1>6. QED
  BY <1>2, <1>5 DEF vars

\* What requests are resolved with.
LEMMA AnswerStep ==
    ASSUME IInv, [Next]_vars
    PROVE  AnswerInv'
<1>1. answer \in [Requests -> DOMAIN AgentResponsesEvent \cup {None}]
  BY DEF IInv, TypeOK
<1>2. CASE answer' = answer
  BY <1>2 DEF IInv, AnswerInv
<1>3. CASE Receive
  <2> DEFINE m == Head(inTransit)
  <2>1. \/ answer' = answer
        \/ m.reqId # None /\ answer' = [answer EXCEPT ![m.reqId] = m.is]
    BY <1>3 DEF Receive, requestVars, isResponseType
  <2>2. m = inTransit[1] /\ 1 \in 1..Len(inTransit)
    BY <1>3, ReceiveFacts
  <2>3. m.reqId # None => m.is = ResponseTo[m.reqId]
    BY <2>2 DEF IInv, WireInv
  <2> HIDE DEF m
  <2>4. QED
    BY <1>1, <2>1, <2>3 DEF IInv, AnswerInv
<1>4. CASE Next
  <2>1. answer' = answer \/ Receive
    BY <1>4, Steps
       DEF OnNotification, SendMessage, Sends, Throws, Start, StartEnds, Stop,
           StartOrStopFails, StopEnds, ConnectionLost, requestVars
  <2>2. QED
    BY <1>2, <1>3, <2>1
<1>5. QED
  BY <1>2, <1>4 DEF vars, requestVars

\* It holds at first: nothing has been registered, sent or received.
LEMMA InitHolds == Init => IInv
<1> SUFFICES ASSUME Init PROVE IInv
  OBVIOUS
<1>1. /\ state = "stopped" /\ transition = "none" /\ running = TRUE /\ connected = FALSE /\ handlers = 0
      /\ pending = {} /\ inTransit = <<>> /\ received = <<>> /\ starts = 0
      /\ answer = [r \in Requests |-> None]
      /\ got = [c \in Callbacks |-> <<>>]
      /\ callback = [c \in Callbacks |-> [method |-> None, event |-> None, from |-> 0]]
  BY DEF Init, MachineInit
<1>2. /\ <<>> \in Seq(Message) /\ <<>> \in Seq(1..MaxReceived)
      /\ Len(<<>>) = 0
  BY EmptySeq
<1>3. TypeOK
  <2>1. 0 \in 0..MaxStarts /\ 0 \in 0..MaxReceived /\ 0 \in 0..0
    BY DispatchBounds
  <2>2. [method |-> None, event |-> None, from |-> 0] \in CallbackType
    BY <2>1 DEF CallbackType
  <2>3. callback \in [Callbacks -> CallbackType]
    BY <1>1, <2>2
  <2>4. MachineTypeOK
    BY <1>1 DEF MachineTypeOK, States, Transitions
  <2>5. QED
    BY <1>1, <1>2, <2>1, <2>3, <2>4 DEF TypeOK
<1>4. PhaseInv
  BY <1>1 DEF PhaseInv
<1>5. WireInv
  BY <1>1, <1>2, DispatchBounds DEF WireInv
<1>6. ListenInv
  BY <1>1, <1>2 DEF ListenInv
<1>7. DeliverInv
  BY <1>1, <1>2 DEF DeliverInv, Delivered
<1>8. AnswerInv
  BY <1>1 DEF AnswerInv
<1>9. QED
  BY <1>3, <1>4, <1>5, <1>6, <1>7, <1>8 DEF IInv

-----------------------------------------------------------------------------
(* The theorems *)

\* The inductive invariant holds in every reachable state.
THEOREM InvariantHolds == Spec => []IInv
<1>1. IInv /\ [Next]_vars => IInv'
  BY TypeStep, PhaseStep, WireStep, ListenStep, DeliverStep, AnswerStep DEF IInv
<1>2. QED
  BY InitHolds, <1>1, PTL DEF Spec

\* The types: above all, a client has no more dispatch callbacks than it has been started.
THEOREM TypeCorrect == Spec => []TypeOK
<1>1. IInv => TypeOK
  BY DEF IInv
<1>2. QED
  BY InvariantHolds, <1>1, PTL

\* Callbacks and requests get what the declarations promise, for any notifications and
\* requests that are declared: by event, type and wrapper together.
THEOREM TypedDeliveryHolds == Spec => []TypedDelivery
<1>1. IInv => TypedDelivery
  <2> SUFFICES ASSUME IInv PROVE TypedDelivery
    OBVIOUS
  <2>1. ASSUME NEW c \in Callbacks, NEW i \in DOMAIN got[c]
        PROVE  What(got[c][i]) = callback[c].method
    <3>1. got[c] \in Seq(1..MaxReceived)
      BY DEF IInv, TypeOK
    <3>2. i \in 1..Len(got[c])
      BY <3>1, LenProperties
    <3>3. QED
      BY <3>2 DEF IInv, DeliverInv, Delivered, Wanted
  <2>2. QED
    BY <2>1 DEF IInv, AnswerInv, TypedDelivery
<1>2. QED
  BY InvariantHolds, <1>1, PTL

\* Callbacks get all that they were registered for, in order, once for each dispatch
\* callback, whatever is received, fails or is lost meanwhile.
THEOREM DeliversAllHolds == Spec => []DeliversAll
<1>1. IInv => DeliversAll
  <2> SUFFICES ASSUME IInv, NEW c \in Callbacks
               PROVE  /\ ToSet(got[c]) = {i \in DOMAIN received :
                                             /\ callback[c].from < i
                                             /\ callback[c].method = What(i)}
                      /\ \A i, j \in DOMAIN got[c] : i < j => got[c][i] <= got[c][j]
                      /\ \A i \in DOMAIN got[c] : i + handlers \in DOMAIN got[c]
                                                   => got[c][i] < got[c][i + handlers]
    BY DEF DeliversAll
  <2>1. got[c] \in Seq(1..MaxReceived) /\ received \in Seq(Message)
    BY DEF IInv, TypeOK
  <2>2. DOMAIN got[c] = 1..Len(got[c]) /\ DOMAIN received = 1..Len(received)
    BY <2>1, LenProperties
  <2>3. Delivered(c)
    BY DEF IInv, DeliverInv
  <2>4. ToSet(got[c]) = {i \in DOMAIN received : Wanted(c, i)}
    BY <2>2, <2>3 DEF Delivered, ToSet
  <2>5. QED
    BY <2>2, <2>3, <2>4 DEF Delivered, Wanted
<1>2. QED
  BY InvariantHolds, <1>1, PTL
=============================================================================
