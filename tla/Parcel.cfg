SPECIFICATION ParcelSpec
CONSTANTS
  cid1 = cid1
  cid2 = cid2
  Token <- MCToken
  NotBytes = NotBytes
  Occasions <- MCOccasions
  Packings = 2
  Unset = Unset
  DelegationTokens <- MCDelegations
  InvocationTokens <- MCInvocations
  OwnInvocation <- MCOwn
  NoToken = NoToken
  Depth <- MCDepth
  Infinity = Infinity
  MinusInfinity = MinusInfinity
  NaN = NaN
  MaxSafe = 4
  KeyOrder <- MCKeyOrder
INVARIANT OneContainerPerParcel ParcelArrives UnpackedAsOfTheCall ArgumentArrives ReadIsWhatIsWritten ResolvesUnlessWaiting
CHECK_DEADLOCK FALSE
