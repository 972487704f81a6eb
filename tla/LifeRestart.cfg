\* A controller restarts by itself while the printer is in use.
SPECIFICATION LifeSpec
CONSTANTS
  NumMcus = 1
  Configs = {config1}
  Unset = Unset
INVARIANTS RestartNoticed
CHECK_DEADLOCK FALSE
