SPECIFICATION Spec
CONSTANTS
  a = a
  b = b
  q = q
  DotKey = {a, b}
  QuotedKey = {q}
  Index <- MCIndex
  NoEnd = NoEnd
  Infinity = Infinity
  MinusInfinity = MinusInfinity
  NaN = NaN
  MaxSafe = 9
  Data <- MCData
  Depth <- MCDepth
  Documents <- MCDocuments
  Selectors <- MCSelectors
INVARIANT SelectsByMeaning DecodedIsIssued
CHECK_DEADLOCK FALSE
