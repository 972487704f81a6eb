SPECIFICATION FairSpec
CONSTANTS
  SeqMod = 3
  MaxPending = 2
  ReceiveWindow = 2
  Notify = {TRUE}
  MaxReplies = 1
  MaxBlock = 3
  WireCap = 2
  HostCap = 2
  PullCap = 1
INVARIANTS NotesSound
PROPERTIES LinkProgress
CHECK_DEADLOCK FALSE
