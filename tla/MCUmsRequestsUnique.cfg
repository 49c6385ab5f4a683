\* No id is used twice.
CONSTANTS Calls = {a, b}
          Ids = {i, j}
          None = None
          MaxStarts = 2
          ReuseIds = FALSE
SPECIFICATION FairSpec
CHECK_DEADLOCK FALSE
INVARIANTS ResponseMatches
PROPERTIES CallsEnd RefinesRequestReply
