CONSTANTS
  c1 = c1
  c2 = c2
  NoClient = NoClient
  Clients <- TwoClients
  Timeout = 1
  MaxFrames = 3
  UploadParts = 2
  Uses <- AllUses
SPECIFICATION FairSpec
INVARIANTS
  TypeOK
  NoTheft
  Locked
  RecordOrder
PROPERTIES
  NoFalseTimeout
  CallsEnd
CHECK_DEADLOCK FALSE
