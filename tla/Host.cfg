SPECIFICATION HostSpec
CONSTANTS
  \* Lifecycle
  NumMcus = 2
  Configs = {config1, config2}
  Unset = Unset
  \* GCodeInput
  MaxPending = 3
  MaxPiece = 2
  M112s = {3}
  LastLine = 7
  \* Webhooks
  Watchers = {w1, w2}
  Objs = {o1}
  Statuses = {0, 1}
  Room = 1
  Unread = 0
  MaxQueries = 2
  MaxBuffer = 1
  \* SaveConfig
  Options = {o1, o3}
  Included = {o3}
  Values = {1, 2}
  MaxSaves = 2
  \* KernelUpdate
  Pieces = 3
  MaxSections = 2
  \* Install
  Packages <- UpdateOrder
  Whole = Whole
  Torn = Torn
  Missing = Missing
  \* TriggerLoop
  N = 4
  Expire = 2
  Last = 4
  Never = 9
INVARIANTS
  LifecycleSound EachLineOnce ViewsCurrent Survives LoopCorrect
SYMMETRY NameSymmetry
\* The parts end where their bounds do.
CHECK_DEADLOCK FALSE
