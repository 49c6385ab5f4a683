\* Two callbacks, a request, and what may come between.
CONSTANTS Callbacks = {c, d}
          Methods = {"MessagingEventNotification", "AgentStateNotification"}
          Requests = {"InitConnection", "SubscribeExConversations"}
          None = None
          MaxStarts = 2
          MaxReceived = 3
SPECIFICATION Spec
CHECK_DEADLOCK FALSE
SYMMETRY CallbackSymmetry
INVARIANTS TypeOK TypedDelivery DeliversAll
