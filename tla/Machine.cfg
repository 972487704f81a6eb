\* Two users and the station's firmware; two steppers, one of them homed
\* without a switch, one whose driver does not answer at first; a slope as bed;
\* clocks of six bits and runs of at most three steps.
SPECIFICATION MachineSpec
CONSTANTS
  File <- FullFile
  Clients = {c1, c2}
  Sensors = {}
  Commands = {"PAUSE", "RESUME", "CANCEL_PRINT", "SDCARD_PRINT_FILE",
              "SDCARD_RESET_FILE", "SDCARD_CLEAR_REFUELLING",
              "SDCARD_SET_CHANNEL", "SDCARD_ENABLE_FFM", "M23", "M24"}
  Channels = {"T0", "T1"}
  Channel0 = "T0"
  MaxCommands = 5
  s1 = s1
  s2 = s2
  Steppers = {s1, s2}
  Order <- BothSteppers
  Shared = {s1, s2}
  Sensorless = {s1}
  Silent = {s2}
  IfTurn = 4
  Attempts = 2
  MaxSlots = 2
  MaxFaults = 2
  MaxTurns = 2
  Setups <- BedSections
  Requests <- MeshRequests
  Height <- Slope
  ProbeOffset <- ProbeAt
  Names = {"default", "other"}
  Targets <- MeshTargets
  Mm = 10
  MaxMeshCommands = 3
  Compressors = {s1, s2}
  ScList <- BothSteppers
  Wrap = 64
  ClockDiffMax = 12
  MaxError = 2
  MaxRun = 3
  KeepSlack = 0
  AddLimit = 8
  LongRun = 512
  FilterTime = 3
  MoveNum = 3
  RestClocks = 4
  Plans <- StepPlans
SYMMETRY ClientSymmetry
INVARIANTS FilamentKnown MachineSound
PROPERTIES UsersServed ResumeResumes
\* After the last command everybody is idle.
CHECK_DEADLOCK FALSE
