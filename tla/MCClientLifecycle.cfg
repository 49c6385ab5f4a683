\* The user may call stop() in the gap before the refresh task requeues, too.
CONSTANTS MaxStarts = 3
          InGapCalls = TRUE
SPECIFICATION FairSpec
CHECK_DEADLOCK FALSE
INVARIANTS TypeOK OneHookAtATime ReadyIsInitialized StoppedIsCleared
           StopReleases OneRefreshLoop RefreshScheduled
PROPERTIES LogoutBeforeForget PeriodicRefresh
