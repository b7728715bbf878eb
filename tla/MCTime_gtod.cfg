\* gettimeofday and the suspend path, both with interrupts disabled, against
\* Xen publishing concurrently and a migration to a later-booted host.
CONSTANTS
  MaxTime = 4
  MaxUpdates = 2
  Hosts <- MCHosts
  MaxSuspends = 2
  ThreadCalls = {"gtod", "suspend", "block"}
  BlockUntils = {2, 3}
SPECIFICATION Spec
INVARIANT MonotonicAccurate GettimeofdayTrue
PROPERTY NowMonotonic
