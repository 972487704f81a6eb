CONSTANTS
  N = 1
  Expire = 2
  MinExtend = 1
  Retries = 1
  Lossy = FALSE
  MaxTime = 4
  MaxRounds = 2
  Cap = 1

  Root = "main"
  Lists = {"main", "fans"}
  Inputs = {"speed", "fan"}
  CommandItems = {"leave"}
  Children <- PanelTree
  ItemScript <- PanelScripts
  Realtime = {"speed"}
  Limits <- InputLimits
  FirstValues <- FirstInputs
  Fickle = {"fans"}
  Rows = 2
  MenuTimeout = 1
  Reversed = FALSE
  MaxKeys = 6
  AdcButtons = {"a", "b"}
  Debounce = 2
  MaxAngle = 9

  RailSetups <- Printers
  Beginnings <- AxesAt
  Overshoots = {0, 2}
  Room = 12
  MoveTargets <- AxisTargets
  Requests = {{"x"}, {"z"}, {"x", "y", "z"}}
  Scripts <- OverrideScripts
  Pushes <- SomePushes
  MaxRailCommands = 2
  MaxManual = 4
  \* Heater
  MAX_HEAT_TIME = 16
  PwmDelay = 1
  ReportTime = 1
  ReportLate = 1
  Powers = {1, 2, 4}
  Significant = 2
  LastHeat = 26
  \* VerifyHeater
  Temps = {0, 1, 2, 3, 4}
  Targets = {0, 3, 4}
  Hysteresis = 1
  MaxError = 6
  HeatingGain = 2
  CheckGainTime = 3
SPECIFICATION ControlsSpec
INVARIANTS PanelSound RailsSound PowerKept FaultFound
PROPERTIES HomingEnds
CHECK_DEADLOCK FALSE
