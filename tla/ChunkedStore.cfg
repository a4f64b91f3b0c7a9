CONSTANTS
  a = a
  b = b
  Chunk <- MCChunk
  CountOf <- MCCountOf
  MaxChunks = 3
  Batches <- MCBatches
  Overwrites <- MCOverwrites
  CreateData <- EmptyCreate
  Absent = Absent
  NoDir = NoDir
  NoJournal = NoJournal
  NoTable = NoTable
  Broken = Broken
  OldJournals <- MCOldJournals
  LateEffects = FALSE
  MaxWrites = 3
  MaxFaults = 1
  MaxCrashes = 2
SPECIFICATION Spec
INVARIANTS Consistent ReadReturnsView
PROPERTIES ImplementsAtomicTable
CHECK_DEADLOCK FALSE
