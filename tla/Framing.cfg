SPECIFICATION LiveSpec
CONSTANTS
  HeaderSize = 2
  ChunkSize = 3
  KB = 3
  Word = 16
  Room = 6
  Sizes = {1, 3, 8}
  MaxMsgs = 3
INVARIANTS
  TypeOK
  BufferHolds
  LostOnlyWhen
PROPERTIES
  KeepsOrder
  Delivered
CHECK_DEADLOCK FALSE
