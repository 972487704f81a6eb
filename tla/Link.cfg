\* Blocks: no one awaits an ack and nothing is reported, only blocks, acks
\* and naks; the numbers wrap around.
SPECIFICATION TransportSpec
CONSTANTS
  \* SerialQueue
  SeqMod = 4
  MaxPending = 3
  ReceiveWindow = 0
  Notify = {FALSE}
  MaxReplies = 0
  MaxBlock = 5
  WireCap = 4
  HostCap = 3
  PullCap = 1
  \* CommandQueue
  Queues = {q1, q2}
  Clocks = {0, 3}
  Background = 90
  NoClock = 99
  Horizon = 2
  ReqDelta = 1
  BgDelta = 1
  Payload = 2
  MaxBlocks = 1
  MaxQueued = 2
  LastTime = 2
  \* MessageBlocks
  Contents = {0, 126}
  Damages = {5, 7, 126}
  MaxBlocksSent = 3
  MaxDamages = 1
  \* ClockSync
  Turn = 26
  QueryPeriod = 2
  CheckPeriod = 5
  Late = 0
  Delay = 2
  Unanswered = 1
  MaxUnderway = 2
  LastTick = 32
  \* Buttons
  AckTurn = 4
  MaxReports = 2
  MaxPressed = 7
  MaxWire = 3
  \* BulkSensor
  Clients = {k1, k2}
  SeqTurn = 4
  MaxSent = 5
  MaxLink = 1
  MaxSessions = 2
  \* Reactor
  Timers = {t1, t2}
  Greenlets = {g1, g2, g3}
  Completions = {c1}
INVARIANTS
  InOrder NakBound NotOverslept StreamsSound ClocksExact NoWakeupLost
PROPERTIES LinkSpec EachPressOnce
\* The parts end where their bounds do.
CHECK_DEADLOCK FALSE
