SPECIFICATION Spec
CONSTANTS
  alice = alice
  bob = bob
  x = x
  y = y
  fine = fine
  wrong = wrong
  broken = broken
  anyArgs = anyArgs
  AnySubject = AnySubject
  NoBound = NoBound
  NoProof = NoProof
  Did = {alice, bob}
  Segment = {x, y}
  Predicate = {fine, wrong, broken}
  Arguments = {anyArgs}
  RunPredicate <- MCRunPredicate
  MaxSeconds = 4
  Cases <- MCCases
INVARIANT TypeOK LoopComputesCheckResolved AcceptsExactlyAuthorized NoWideningDownTheChain
CHECK_DEADLOCK FALSE
