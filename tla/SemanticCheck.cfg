SPECIFICATION Spec
CONSTANTS
  c1 = c1
  alice = alice
  bob = bob
  carol = carol
  x = x
  fine = fine
  anyArgs = anyArgs
  aliceToBob = aliceToBob
  shortToBob = shortToBob
  oddToBob = oddToBob
  bobToCarol = bobToCarol
  chained = chained
  brief = brief
  odd = odd
  direct = direct
  byAliceOnLeaf = byAliceOnLeaf
  byBob = byBob
  byBobOnLeaf = byBobOnLeaf
  vast = vast
  AnySubject = AnySubject
  NoBound = NoBound
  NoNow = NoNow
  NoDelegation = NoDelegation
  NoRequest = NoRequest
  Did = {alice, bob, carol}
  Segment = {x}
  Predicate = {fine}
  Arguments = {anyArgs}
  RunPredicate <- MCRunPredicate
  MaxSeconds = 3
  Dlg <- MCDlg
  Inv <- MCInv
  Prf <- MCPrf
  Rev <- MCRev
  Call = {c1}
  DlgCid = {aliceToBob, shortToBob, oddToBob, bobToCarol}
  InvCid = {chained, brief, odd, direct}
  RevCid = {byAliceOnLeaf, byBob, byBobOnLeaf, vast}
  Request <- MCRequests
  Filings <- OwnKeys
  Horizon = 2
INVARIANT TypeOK JudgedAsOfTheCall KnownRevocationsHonoured RevokedByAncestor
CHECK_DEADLOCK FALSE
