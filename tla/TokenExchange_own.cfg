SPECIFICATION Spec
CONSTANTS
  a = a
  b = b
  c = c
  rule = rule
  mapRule = mapRule
  q = q
  m = m
  proto = proto
  n = n
  cid = cid
  bad = bad
  Did = {a, b}
  Command = {c}
  EmptyList = EmptyList
  Policy = {rule, mapRule, EmptyList}
  MapOperands = {mapRule}
  Emptied <- MCEmptied
  Proofs = {q}
  Cid = {cid}
  Generated = Generated
  Nonce = {n, Generated}
  EmptyMap = EmptyMap
  Map = {m, proto, EmptyMap}
  ProtoMaps = {proto}
  Stripped <- MCStripped
  Null = Null
  Unset = Unset
  MaxSafe = 2
  Offer <- MCOffer
  Alien <- MCAlien
INVARIANT OwnTokenArrives VerifiedAsSigned ConformingAccepted
CHECK_DEADLOCK FALSE
