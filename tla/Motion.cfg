\* The toolhead: two kinds of moves and of smoothing, a reactor that may be a
\* little late.  The first move of the longer kind fills the lookahead queue.
SPECIFICATION MotionSpec
CONSTANTS
  \* ToolHead
  BUFFER_TIME_LOW = 4
  BUFFER_TIME_HIGH = 6
  BUFFER_TIME_START = 3
  BGFLUSH_LOW_TIME = 2
  BGFLUSH_BATCH_TIME = 2
  BGFLUSH_EXTRA_TIME = 3
  MIN_KIN_TIME = 1
  STEPCOMPRESS_FLUSH_TIME = 1
  LOOKAHEAD_FLUSH_TIME = 3
  DRIP_SEGMENT_TIME = 1
  DRIP_TIME = 2
  TENTH = 1
  SECOND = 4
  Delays = {0, 1}
  FirstDelay = 0
  Durations = {2, 6}
  Never = Never
  Late = 1
  MaxCommands = 3
  MaxStart = 6
  MaxTime = 80
  \* GCodeMove
  MaxPos = 2
  MaxBase = 2
  \* ExcludeObject
  Objects = {o1}
  NoObject = NoObject
  InitialMoves = 1
  LastX = 1
  LastZ = 1
  LastE = 3
  MaxRegions = 2
  \* Probing
  Samples = 3
  Retries = 2
  Points = 3
  \* Outputs
  MaxDuration = 6
  Ahead = 5
  TimerLate = 3
  PinValues = {0, 100}
  MaxPinTime = 18
  MaxPinCommands = 3
  MaxPower = 80
  OffBelow = 10
  KickStart = 2
  Speeds = {0, 5, 15, 50, 80, 100}
  FanSpeed = 50
  IdleSpeed = 30
  IdleCalls = 1
  Readings <- FanReadings
  MaxFanSteps = 5
  LedColors = {0, 1}
  MaxLedSteps = 5
INVARIANTS
  FlushArmed InTime PositionsSound ProbeSound OutputsSound
PROPERTIES MovesInOrder SetAtRest
\* The parts end where their bounds do.
CHECK_DEADLOCK FALSE
