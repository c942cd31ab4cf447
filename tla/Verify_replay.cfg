SPECIFICATION Spec
CONSTANTS
  c1 = c1
  c2 = c2
  c3 = c3
  alice = alice
  bob = bob
  carol = carol
  x = x
  fine = fine
  anyArgs = anyArgs
  aliceToBob = aliceToBob
  bobToCarol = bobToCarol
  forgedToBob = forgedToBob
  shortToBob = shortToBob
  chained = chained
  direct = direct
  unsigned = unsigned
  misaddressed = misaddressed
  byAlice = byAlice
  byAliceOnLeaf = byAliceOnLeaf
  byBob = byBob
  byBobOnLeaf = byBobOnLeaf
  fake = fake
  vast = vast
  AnySubject = AnySubject
  NoBound = NoBound
  NoNow = NoNow
  NoDelegation = NoDelegation
  Idle = Idle
  Did = {alice, bob, carol}
  Segment = {x}
  Predicate = {fine}
  Arguments = {anyArgs}
  RunPredicate <- MCRunPredicate
  MaxSeconds = 3
  Dlg <- MCDlg
  Inv <- MCInv
  Prf <- MCPrf
  Rev <- MCRev
  Call = {c1, c2}
  DlgCid = {aliceToBob, bobToCarol}
  InvCid = {chained, direct}
  RevCid = {byAliceOnLeaf}
  Options <- ReplayOptions
  Filings <- OwnKeys
  CustomStores = TRUE
  Horizon = 0
INVARIANT AcceptedOnce RejectionBurnsNothing ReplayMeansClaimed
PROPERTY ImplementsGate
CHECK_DEADLOCK FALSE
SYMMETRY Calls
