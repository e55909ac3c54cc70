SPECIFICATION Spec
CHECK_DEADLOCK FALSE
CONSTANTS
  Scripts <- WriteDaq
  Addresses <- ThreeAddresses
  ConnectRetries = 1
  MaxLosses = 1
  MaxFailures = 4
  MaxLate = 0
  MaxRefusals = 0
  Refusals <- NoRefusals
INVARIANT DaqExact
