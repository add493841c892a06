\* A file of two blocks, the waits in seconds; two errors.
SPECIFICATION Spec
CONSTANTS
  Blocks = 2
  Repeats = {1, 2, 11}
  MaxRepeats = 10
  Pause = 10
  Rest = 5
  SendWait = 1
  StopWait = 5
  StartWait = 1
  MaxRequests = 3
  MaxFaults = 2
INVARIANTS TypeOK NeverClosed SilentWhenStuck
PROPERTIES InOrder StopHolds TransmissionEnds
CHECK_DEADLOCK FALSE
