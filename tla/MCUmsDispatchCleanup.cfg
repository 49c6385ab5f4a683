\* One callback, registered before a stop().
CONSTANTS Callbacks = {c}
          Methods = {"MessagingEventNotification"}
          Requests = {"SubscribeExConversations"}
          None = None
          MaxStarts = 1
          MaxReceived = 1
SPECIFICATION Spec
CHECK_DEADLOCK FALSE
PROPERTY StopCleansUp
