SPECIFICATION FairSpec
CHECK_DEADLOCK FALSE
CONSTANTS
  Scripts <- EveryCommand
  Addresses <- TwoAddresses
  ConnectRetries = 1
  MaxLosses = 2
  MaxFailures = 4
  MaxLate = 1
  MaxRefusals = 2
  Refusals <- AllRefusals
INVARIANTS
  TypeOK
  TransferExact
  ResultIsMain
  LossesSurvived
  RepetitionBound
  ConnectBound
PROPERTIES
  CallsEnd
