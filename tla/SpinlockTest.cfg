\* three threads, each going round the again loop once or twice
CONSTANTS
  NUM_OBJECTS = 3
  MAGIC_VALUE = 5
  MaxCycles = 2

SPECIFICATION Spec
\* ok_exit stops the guest: nothing runs after the check
CHECK_DEADLOCK FALSE
INVARIANT LastSeesAllDone
INVARIANT TestSuccessful
PROPERTY TestEnds
