\* Two uploads and their resumption, a burst; one error or a reset.
SPECIFICATION Spec
CONSTANTS
  Uploads = {1, 2}
  Size <- MCSize
  Target <- MCTarget
  Bursts <- MCBursts
  Handles = 3
  Buffers = {1, 2}
  QueueLength = 1
  InboxLength = 1
  MaxRequests = 4
  MaxTroubles = 1
INVARIANTS TypeOK UploadComplete HandlesOwned BuffersAccounted
PROPERTIES AirInOrder
CHECK_DEADLOCK FALSE
