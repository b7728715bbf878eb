\* Every kind of call, NOW() with interrupts enabled among them, under weak
\* fairness of the thread and of Xen's update.
CONSTANTS
  MaxTime = 3
  MaxUpdates = 2
  Hosts <- MCHosts
  MaxSuspends = 1
  ThreadCalls = {"mono", "gtod", "suspend"}
  BlockUntils = {}
SPECIFICATION FairSpec
PROPERTY CallsReturn
