CONSTANTS MaxStarts = 1
          InGapCalls = FALSE
SPECIFICATION FairSpec
CHECK_DEADLOCK FALSE
PROPERTY AlwaysPeriodicRefresh
