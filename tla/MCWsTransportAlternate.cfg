\* connect() and disconnect() in turn, as TransportClient calls them while no logout
\* fails; connections are left open.
CONSTANTS Messages = {1, 2, 3}
          MaxConnects = 2
          MaxDisconnects = 2
          BatchSizes = {0, 1, 2}
          MESSAGING_MAX_RETRIES = 2
          GivenRetries = 1
          GivenStrategy = "LEAVE_OPEN"
          Usage = "alternate"
SPECIFICATION FairSpec
CHECK_DEADLOCK FALSE
INVARIANTS DisconnectedIsClosed WrittenInOrder
PROPERTY QueueMoves
