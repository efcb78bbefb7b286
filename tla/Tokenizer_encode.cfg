CONSTANTS
  CodePoint <- MCCodePoint
  Category <- MCCategory
  LowerCase <- MCLowerCase
  Utf8 <- MCUtf8
  ByteSymbol <- MCByteSymbol
  EndOfText <- MCEndOfText
  ImStart <- MCImStart
  ImEnd <- MCImEnd
  Documents <- MCDocuments
  EmptyLoads = {1, 5}
  Texts <- MCTexts
  Others = {o1, o2}
  OtherPieces <- MCOtherPieces
  MaxLen = 3
SPECIFICATION FairSpec
CHECK_DEADLOCK FALSE
INVARIANTS
  SplitFollowsRegex
  MergesFollowRanks
  SpecialsAreLeftmostLongest
  DecodeInvertsEncode
PROPERTIES
  EncodeReturns
