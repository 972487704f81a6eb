\* A filament runout meets a user who pauses and resumes.
SPECIFICATION Spec
CONSTANTS
  File <- PlainFile
  Clients = {c1, c2}
  Sensors = {s1}
  Commands = {"PAUSE", "RESUME", "SDCARD_PRINT_FILE"}
  Channels = {"T0"}
  Channel0 = "T0"
  MaxCommands = 4
PROPERTIES ResumeResumes
CHECK_DEADLOCK FALSE
