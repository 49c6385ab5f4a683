----------------------------- MODULE UmsMessages -----------------------------
(***************************************************************************)
(* The messages of UMS as ums-generated declares them: what their `type`       *)
(* says, by which field they belong to a request, which response a request      *)
(* gets, and which method hands out which notification.  What else they carry    *)
(* is left out.                                                             *)
(***************************************************************************)

\* The `type` of an interface that leaves it open.
AnyType == "any string"

ISendType(type) == [type |-> type, key |-> "id"]
IResponseType(type) == [type |-> type, key |-> "reqId"]
INotificationType(type) == [type |-> type, key |-> "none"]

-----------------------------------------------------------------------------
InitConnection == ISendType("InitConnection")
UpdateConversationField == ISendType("cm.UpdateConversationField")
ConsumerRequestConversation == ISendType("cm.ConsumerRequestConversation")
PublishEvent == ISendType("ms.PublishEvent")
SubscribeMessagingEvents == ISendType("ms.SubscribeMessagingEvents")
SubscribeExConversations == ISendType("cqm.SubscribeExConversations")
UnsubscribeExConversations == ISendType("cqm.UnsubscribeExConversations")

RequestConversationResponse == IResponseType(AnyType)
StringResp == IResponseType(AnyType)
PublishEventResponse == IResponseType(AnyType)
GenericSubscribeResponse == IResponseType(AnyType)
GetUserProfileResponse == IResponseType("up.GetUserProfile$Response")
SubscribeExConversationsResponse == IResponseType(AnyType)

MessagingEventNotification == INotificationType(AnyType)
ExConversationChangeNotification == INotificationType("cqm.ExConversationChangeNotification")
RoutingTaskNotification == INotificationType("routing.routingTaskNotification")
AgentStateNotification == INotificationType("routing.agentStateNotification")

\* Every interface by its name.
Interface == [
    InitConnection |-> InitConnection,
    UpdateConversationField |-> UpdateConversationField,
    ConsumerRequestConversation |-> ConsumerRequestConversation,
    PublishEvent |-> PublishEvent,
    SubscribeMessagingEvents |-> SubscribeMessagingEvents,
    SubscribeExConversations |-> SubscribeExConversations,
    UnsubscribeExConversations |-> UnsubscribeExConversations,
    RequestConversationResponse |-> RequestConversationResponse,
    StringResp |-> StringResp,
    PublishEventResponse |-> PublishEventResponse,
    GenericSubscribeResponse |-> GenericSubscribeResponse,
    GetUserProfileResponse |-> GetUserProfileResponse,
    SubscribeExConversationsResponse |-> SubscribeExConversationsResponse,
    MessagingEventNotification |-> MessagingEventNotification,
    ExConversationChangeNotification |-> ExConversationChangeNotification,
    RoutingTaskNotification |-> RoutingTaskNotification,
    AgentStateNotification |-> AgentStateNotification]

-----------------------------------------------------------------------------
(* The events: the type of each interface on the wire *)

ConsumerRequestsEvent == [
    InitConnection |-> "InitConnection",
    UpdateConversationField |-> "cm.UpdateConversationField",
    ConsumerRequestConversation |-> "cm.ConsumerRequestConversation",
    PublishEvent |-> "ms.PublishEvent",
    SubscribeMessagingEvents |-> "ms.SubscribeMessagingEvents",
    SubscribeExConversations |-> "cqm.SubscribeExConversations",
    UnsubscribeExConversations |-> "cqm.UnsubscribeExConversations"]

ConsumerResponsesEvent == [
    RequestConversationResponse |-> "cm.RequestConversationResponse",
    StringResp |-> ".ReqBody$StringResp",
    PublishEventResponse |-> "ms.PublishEventResponse",
    GenericSubscribeResponse |-> "GenericSubscribeResponse",
    SubscribeExConversationsResponse |-> "cqm.SubscribeExConversationsResponse"]

AgentResponsesEvent == [n \in DOMAIN ConsumerResponsesEvent \cup {"GetUserProfileResponse"} |->
    IF n = "GetUserProfileResponse" THEN "up.GetUserProfile$Response"
                                    ELSE ConsumerResponsesEvent[n]]

ConsumerNotificationsEvent == [
    MessagingEventNotification |-> "ms.MessagingEventNotification",
    ExConversationChangeNotification |-> "cqm.ExConversationChangeNotification"]

AgentNotificationsEvent == [
    MessagingEventNotification |-> "ms.MessagingEventNotification",
    ExConversationChangeNotification |-> "cqm.ExConversationChangeNotification",
    RoutingTaskNotification |-> "routing.routingTaskNotification",
    AgentStateNotification |-> "routing.agentStateNotification"]

\* The responses that IConsumerResponsesWrapper promises for the requests.
ResponseTo == [
    InitConnection |-> "StringResp",
    UpdateConversationField |-> "StringResp",
    ConsumerRequestConversation |-> "RequestConversationResponse",
    PublishEvent |-> "PublishEventResponse",
    SubscribeMessagingEvents |-> "GenericSubscribeResponse",
    SubscribeExConversations |-> "SubscribeExConversationsResponse",
    UnsubscribeExConversations |-> "StringResp"]

-----------------------------------------------------------------------------
(* The methods of the wrapped clients: the event each listens to.  A method is      *)
(* known by the interface that its callback is declared to take.               *)

wrapConsumerNotifications == [
    MessagingEventNotification |-> ConsumerNotificationsEvent.MessagingEventNotification,
    ExConversationChangeNotification |->
        ConsumerNotificationsEvent.ExConversationChangeNotification]

\* Mutant: two methods listen to one event.
wrapAgentNotifications_Mixed == [
    MessagingEventNotification |-> AgentNotificationsEvent.MessagingEventNotification,
    ExConversationChangeNotification |->
        AgentNotificationsEvent.ExConversationChangeNotification,
    RoutingTaskNotification |-> AgentNotificationsEvent.RoutingTaskNotification,
    AgentStateNotification |-> AgentNotificationsEvent.MessagingEventNotification]

wrapAgentNotifications == [
    MessagingEventNotification |-> AgentNotificationsEvent.MessagingEventNotification,
    ExConversationChangeNotification |->
        AgentNotificationsEvent.ExConversationChangeNotification,
    RoutingTaskNotification |-> AgentNotificationsEvent.RoutingTaskNotification,
    AgentStateNotification |-> AgentNotificationsEvent.AgentStateNotification]

\* What is on the wire of an interface: the type it declares, or, when it leaves it
\* open, that of its event.
WireType(n) == LET type == Interface[n].type
               IN  IF type # AnyType THEN type ELSE
                   CASE n \in DOMAIN ConsumerRequestsEvent -> ConsumerRequestsEvent[n]
                     [] n \in DOMAIN AgentResponsesEvent -> AgentResponsesEvent[n]
                     [] n \in DOMAIN AgentNotificationsEvent -> AgentNotificationsEvent[n]
=============================================================================
