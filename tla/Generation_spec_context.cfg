CONSTANTS
  a = a
  b = b
  eos = eos
  think = think
  pad = pad
  alien = alien
  Blank = Blank
  Token <- MCToken
  Alien = {alien}
  Stop = {eos}
  ThinkTags = {think}
  Visual = {pad}
  Prompts <- MCPrompts
  MaxSeqLen = 6
  MaxNew = 3
  ChunkSize = 2
  ArenaRows = 8
  GraphCaptured = TRUE
  DraftN = 1
  MayThrow = FALSE
  MaxCalls = 1
SPECIFICATION Spec
INVARIANT SampledFromHistory
