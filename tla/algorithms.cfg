SPECIFICATION OneSpec
CONSTANTS
  PAGESIZE = 2
  MemMap <- EightFrames
  MaxCount = 4
  Bits = 8
  FEMTOS = 32
  Calls <- AllCalls
  Nil = Nil
  Elems = {e1, e2, e3}
  Head0 = head
  Null = Null
INVARIANTS ScanIsIndexStart  QueryFound SleepExact
           QueueIsFifo PointersKnown
CHECK_DEADLOCK FALSE
SYMMETRY Symmetry
