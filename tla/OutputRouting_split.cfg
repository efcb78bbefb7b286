CONSTANTS
  o1 = o1
  o2 = o2
  c1 = c1
  c2 = c2
  Open = Open
  Close = Close
  OpenTag <- MCOpenTag
  CloseTag <- MCCloseTag
  Break = Break
  Word = Word
  MaxTokens = 5
SPECIFICATION FairSpec
CHECK_DEADLOCK FALSE
INVARIANTS
  ResultSplitsAtTags
  NoCloseTagLeaks
  StreamCarriesEveryPiece
PROPERTIES
  PostProcessEnds
