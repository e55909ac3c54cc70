SPECIFICATION FairSpec
CHECK_DEADLOCK FALSE
CONSTANTS
  Lengths <- ShortAndLong
  MaxLength = 3
  FrameHeader = 1
  ContainerHeader = 1
  HeaderSize = 2
  Chunk = 3
  Slack = 4
  Prealloc = 96
  MaxFrames = 6
INVARIANTS
  TypeOK
  FileIsPrefix
  InsideFile
  ClosedIsComplete
PROPERTIES
  FinalizeEnds
  FramesRecorded
  IsFrameLog
