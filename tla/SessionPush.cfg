SPECIFICATION Spec
CHECK_DEADLOCK FALSE
CONSTANTS
  Devices <- OneDevice
  Transports <- BothTransports
  Scripts <- PushScripts
  Memory <- Cells
  ByteMax = 5
  MinLimit = 2
  KeyLength = 3
  ChunkedPushes = TRUE
  MaxRefusals = 1
  MaxResets = 1
INVARIANT
  PushNoticed
