SPECIFICATION PolicySpec
CONSTANTS
  keyA = keyA
  keyB = keyB
  DotKey = {keyA, keyB}
  QuotedKey = {}
  Index = {0}
  NoEnd = NoEnd
  Infinity = Infinity
  MinusInfinity = MinusInfinity
  NaN = NaN
  MaxSafe = 4
  KeyOrder <- MCKeyOrder
  Data <- MCData
  Depth <- MCDepth
  Predicate <- MCPredicate
  Size <- MCSize
  Star <- MCStar
  Backslash <- MCBackslash
  Trials <- MCTrials
INVARIANT VerdictIsMeant ArrivesAsIssued VerdictSurvivesTheWire
CHECK_DEADLOCK FALSE
