CONSTANTS
  a = a
  b = b
  eos = eos
  think = think
  pad = pad
  alien = alien
  Blank = Blank
  Token <- MCToken
  Alien = {alien}
  Stop = {eos}
  ThinkTags = {think}
  Visual = {pad}
  Prompts <- MCPrompts
  MaxSeqLen = 7
  MaxNew = 5
  ChunkSize = 2
  ArenaRows = 2
  GraphCaptured = TRUE
  DraftN = 3
  MayThrow = TRUE
  MaxCalls = 1
SPECIFICATION FairSpec
INVARIANTS
  TypeOK
  PassFits
  LengthMeansBudgetSpent
  CatchLeavesEngineReset
PROPERTIES
  GenerateReturns
