\* connect() and disconnect() overlap in any way; drained connections close.
CONSTANTS Messages = {1, 2}
          MaxConnects = 2
          MaxDisconnects = 2
          BatchSizes = {1, 2}
          MESSAGING_MAX_RETRIES = 1
          GivenRetries = 0
          GivenStrategy = "CLOSE_IMMEDIATE"
          Usage = "any"
SPECIFICATION FairSpec
CHECK_DEADLOCK FALSE
INVARIANTS TypeOK WrittenOnce
PROPERTIES RefinesBuffer DisconnectEnds
