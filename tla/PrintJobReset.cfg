\* SDCARD_RESET_FILE during a print with filament changes.
SPECIFICATION Spec
CONSTANTS
  File <- FilamentFile
  Clients = {c1, c2}
  Sensors = {}
  Commands = {"SDCARD_PRINT_FILE", "SDCARD_ENABLE_FFM", "SDCARD_RESET_FILE"}
  Channels = {"T0", "T1"}
  Channel0 = "T0"
  MaxCommands = 4
INVARIANTS RefusedFromFile
CHECK_DEADLOCK FALSE
