\* Any step may take any time; one I/O error, one reset.
SPECIFICATION Spec
CONSTANTS
  a = a
  b = b
  d = d
  Ids <- MCIds
  SelfIds <- MCSelfIds
  Uploads <- SafetyUploads
  UninitMsecs = {0}
  MaxNumCmds = 3
  Sec = 2
  Coarse = 1
  SchedTimeout = 3
  SemWait = 2
  ReadWait = 1
  BootDelay = 1
  QueueLen = 2
  Backlog = 1
  TickWrap = 4
  MsecWrap = 12
  TimeWrap = 16
  Horizon = 6
  MaxRequests = 2
  MaxFaults = 1
  MaxResets = 1
  Prompt = FALSE
  StartupInTime = TRUE
INVARIANTS TypeOK LockExclusion CommittedWhenUnlocked SortedFile CommandStillScheduled
PROPERTY NeverEarly
