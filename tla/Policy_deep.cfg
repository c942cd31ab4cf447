SPECIFICATION PolicySpec
CONSTANTS
  keyA = keyA
  keyB = keyB
  DotKey = {keyA, keyB}
  QuotedKey = {}
  Index = {0}
  NoEnd = NoEnd
  Infinity = Infinity
  MinusInfinity = MinusInfinity
  NaN = NaN
  MaxSafe = 4
  KeyOrder <- MCKeyOrder
  Data <- DeepData
  Depth <- DeepDepth
  Predicate <- DeepPredicate
  Size <- DeepSize
  Star <- MCStar
  Backslash <- MCBackslash
  Trials <- DeepTrials
INVARIANT EqualAtAnyDepth
CHECK_DEADLOCK FALSE
