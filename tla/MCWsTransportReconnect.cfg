\* connect() while connected.
CONSTANTS Messages = {1}
          MaxConnects = 2
          MaxDisconnects = 0
          BatchSizes = {0, 1, 2}
          MESSAGING_MAX_RETRIES = 2
          GivenRetries = 1
          GivenStrategy = "none"
          Usage = "sequential"
SPECIFICATION Spec
CHECK_DEADLOCK FALSE
INVARIANT ReconnectedHasQueue
