\* The toolhead with one kind of moves, two timeouts, and a script that may
\* fail; commands may come after the script, too.
SPECIFICATION IdleFairSpec
CONSTANTS
  BUFFER_TIME_LOW = 4
  BUFFER_TIME_HIGH = 6
  BUFFER_TIME_START = 3
  BGFLUSH_LOW_TIME = 2
  BGFLUSH_BATCH_TIME = 2
  BGFLUSH_EXTRA_TIME = 3
  MIN_KIN_TIME = 1
  STEPCOMPRESS_FLUSH_TIME = 1
  LOOKAHEAD_FLUSH_TIME = 3
  DRIP_SEGMENT_TIME = 1
  DRIP_TIME = 2
  TENTH = 1
  SECOND = 4
  Delays = {0}
  FirstDelay = 0
  Durations = {6}
  Never = Never
  Late = 0
  READY_TIMEOUT = 2
  Timeouts = {2, 6}
  FirstTimeout = 6
  MaxCommands = 3
  MaxStart = 12
  MaxTime = 90
INVARIANT BusyKnown
PROPERTIES OffAtRest WorkEnds
\* When the printer has turned itself off nothing more happens.
CHECK_DEADLOCK FALSE
