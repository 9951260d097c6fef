SPECIFICATION FairSpec
CONSTANTS
  Byte = {a, b}
  BUF_DATA_MAXSIZE = 3
  MaxBytes = 5
INVARIANTS
  TypeOK
  FifoOrder
  Conservation
  LoopsNeverFail
  RingInv
PROPERTIES
  LoopsEnd
  QueueSpec
