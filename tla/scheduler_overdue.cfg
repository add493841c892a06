\* Only waits take time; msecs is zero.
SPECIFICATION Spec
CONSTANTS
  a = a
  b = b
  d = d
  Ids <- MCIds
  SelfIds <- MCSelfIds
  Uploads <- TimingUploads
  UninitMsecs = {0}
  MaxNumCmds = 3
  Sec = 2
  Coarse = 1
  SchedTimeout = 10
  SemWait = 5
  ReadWait = 3
  BootDelay = 2
  QueueLen = 2
  Backlog = 1
  TickWrap = 8
  MsecWrap = 80
  TimeWrap = 100
  Horizon = 24
  MaxRequests = 2
  MaxFaults = 0
  MaxResets = 0
  Prompt = TRUE
  StartupInTime = TRUE
INVARIANT OverdueNotDelayed
