SPECIFICATION Spec
CHECK_DEADLOCK FALSE
CONSTANTS
  Devices <- AllDevices
  Transports <- BothTransports
  Scripts <- AllScripts
  Memory <- Cells
  ByteMax = 5
  MinLimit = 2
  KeyLength = 3
  ChunkedPushes = FALSE
  MaxRefusals = 1
  MaxResets = 1
INVARIANTS
  TypeOK
  FieldsUnderstood
  TransfersExact
  UnlockWhole
  OnlyFaultsRaise
