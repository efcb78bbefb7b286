CONSTANTS
  a = a
  b = b
  eos = eos
  think = think
  pad = pad
  alien = alien
  Blank = Blank
  Token <- MCToken
  Alien = {alien}
  Stop = {eos}
  ThinkTags = {think}
  Visual = {pad}
  Prompts <- MCPrompts
  MaxSeqLen = 5
  MaxNew = 3
  ChunkSize = 2
  ArenaRows = 4
  GraphCaptured = FALSE
  DraftN = 0
  MayThrow = TRUE
  MaxCalls = 2
SPECIFICATION FairSpec
INVARIANTS
  SampledFromHistory
  CacheCoversHistory
PROPERTIES
  ImplementsRecompute
