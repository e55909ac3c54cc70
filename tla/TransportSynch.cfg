CONSTANTS
  c1 = c1
  c2 = c2
  NoClient = NoClient
  Clients <- OneClient
  Timeout = 1
  MaxFrames = 3
  UploadParts = 2
  Uses <- SynchAndRequest
SPECIFICATION Spec
INVARIANT SynchFlushes
CHECK_DEADLOCK FALSE
