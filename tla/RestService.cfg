SPECIFICATION FairRestSpec
CONSTANTS
  q1 = q1
  q2 = q2
  host = host
  bob = bob
  carol = carol
  create = create
  delete = delete
  fine = fine
  anyArgs = anyArgs
  grantBob = grantBob
  grantCarol = grantCarol
  scrap = scrap
  note = note
  other = other
  removal = removal
  noise = noise
  byServiceOnLeaf = byServiceOnLeaf
  vast = vast
  AnySubject = AnySubject
  NoBound = NoBound
  NoNow = NoNow
  NoDelegation = NoDelegation
  Idle = Idle
  Did = {host, bob, carol}
  Segment = {create, delete}
  Predicate = {fine}
  Arguments = {anyArgs}
  RunPredicate <- MCRunPredicate
  MaxSeconds = 3
  Dlg <- MCDlg
  Inv <- MCInv
  Prf <- MCPrf
  Rev <- MCRev
  Call = {q1, q2}
  DlgCid = {grantBob, grantCarol, scrap}
  InvCid = {note, other, removal, noise}
  RevCid = {byServiceOnLeaf, vast}
  Options <- MCOptions
  Filings <- MCFilings
  CustomStores = FALSE
  Horizon = 1
  Service = host
  RouteCommand <- MCRoute
  Bodies <- MCBodies
INVARIANT RestTypeOK NotesAreAuthorized OneNotePerInvocation RepliesNameNotes RefusedForCause EvidenceRejectionsDeserved
PROPERTY EveryRequestAnswered
CHECK_DEADLOCK FALSE
