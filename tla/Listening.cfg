SPECIFICATION FairSpec
CHECK_DEADLOCK FALSE
CONSTANTS
  Octets = 5
  SxiBuffer = 6
  MaxStandard = 3
  MaxExtended = 7
  ExtendedFlag = 16
  MaxDatagram = 9
  ReadSizes = {1, 4}
  Setups <- AllSetups
  Subs <- OneSub
  Categories <- AllCategories
  Wanted <- DaqAndEvents
  MaxSizes = {0, 1}
  ConsumerCounts = {1, 2}
INVARIANTS
  TypeOK
  SubscribersSee
PROPERTIES
  IsFrameStream
  QuietClosed
  NobodyStuck
