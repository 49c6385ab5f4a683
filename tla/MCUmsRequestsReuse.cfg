\* Ids are taken again at any time: the client itself guards them.
CONSTANTS Calls = {a, b, c}
          Ids = {i, j}
          None = None
          MaxStarts = 2
          ReuseIds = TRUE
SPECIFICATION Spec
CHECK_DEADLOCK FALSE
SYMMETRY CallSymmetry
INVARIANTS TypeOK OneListenerPerId ListenersAreLive ListenerKept
