CONSTANTS
  Names <- MCNames
  LongNames <- MCLongNames
  Truncated <- MCTruncated
  Payloads <- MCPayloads
  Metadata <- MCMetadata
  Damaged <- MCDamaged
  Garbage <- MCGarbage
  Align = 2
  Wrap = 32
  MaxSections = 2
  MaxWrites = 2
  MaxFaults = 1
  MaxReads = 3
SPECIFICATION Spec
CHECK_DEADLOCK FALSE
INVARIANTS
  OnlyCompleteFilesOpen
  CompleteFileRoundTrips
  ValidatedIsWritten
  ReadsAreAuthentic
