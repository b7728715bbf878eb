\* NOW() called with interrupts enabled, so timer_handler may refresh the
\* shadow between a load and a store of get_time_values_from_xen.
CONSTANTS
  MaxTime = 4
  MaxUpdates = 2
  Hosts <- MCHosts
  MaxSuspends = 2
  ThreadCalls = {"mono"}
  BlockUntils = {}
SPECIFICATION Spec
INVARIANT MonotonicAccurate
