\* Every command that starts or stops a print, with a filament sensor that
\* pauses it from outside the mutex.
SPECIFICATION FairSpec
CONSTANTS
  File <- ControlFile
  Clients = {c1, c2}
  Sensors = {s1}
  Commands = {"PAUSE", "RESUME", "CLEAR_PAUSE", "CANCEL_PRINT", "M24", "M25",
              "M26", "SDCARD_RESET_FILE", "SDCARD_PRINT_FILE",
              "SDCARD_ENABLE_FFM", "M23", "SDCARD_CLEAR_REFUELLING",
              "SDCARD_SET_CHANNEL"}
  Channels = {"T0", "T1"}
  Channel0 = "T0"
  MaxCommands = 4
INVARIANTS MutexSound
PROPERTIES EndReportedOnce UsersAnswered
CHECK_DEADLOCK FALSE
