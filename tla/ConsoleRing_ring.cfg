\* the console rings with 4-bit indices that wrap, a 4-byte ring, sends of
\* 1 and 3 bytes, one suspend/resume, and binding that may fail
CONSTANTS
  W = 4
  SIZE = 4
  Lens = {1, 3}
  StartIdx = {0, 13}
  BindOk = {TRUE, FALSE}
  MaxBytes = 6
  MaxSuspends = 1

SPECIFICATION Spec
\* the console really idles once nothing is sent or typed any more
CHECK_DEADLOCK FALSE
INVARIANT AvailExact
PROPERTY ChannelRefined
PROPERTY InputDelivered
