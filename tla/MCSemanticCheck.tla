-------------------------- MODULE MCSemanticCheck --------------------------
(***************************************************************************)
(* Instances of SemanticCheck for TLC: alice delegates to bob, for ever or *)
(* for one second, and bob to carol, who invokes.                          *)
(***************************************************************************)
EXTENDS SemanticCheck

CONSTANTS
  c1, alice, bob, carol, x, fine, anyArgs,
  aliceToBob, shortToBob, oddToBob, bobToCarol,
  chained, brief, odd, direct,
  byAliceOnLeaf, byBob, byBobOnLeaf, vast

MCRunPredicate(p, a) == "true"

Grant(iss, aud, sub) ==
  [iss |-> iss, aud |-> aud, sub |-> sub, cmd |-> <<>>, pol |-> <<fine>>,
   nbf |-> NoBound, exp |-> NoBound, seal |-> "verifies"]

\* oddToBob was built in memory and does not decode.
MCDlg == [d \in DlgCid |->
  CASE d = aliceToBob -> Grant(alice, bob, alice)
    [] d = shortToBob -> [Grant(alice, bob, alice) EXCEPT !.nbf = 1, !.exp = 1]
    [] d = oddToBob   -> [Grant(alice, bob, alice) EXCEPT !.seal = "undecodable"]
    [] d = bobToCarol -> Grant(bob, carol, AnySubject)]

MCInv == [i \in InvCid |->
  [iss |-> IF i = direct THEN alice ELSE carol, aud |-> alice, sub |-> alice,
   cmd |-> <<x>>, args |-> anyArgs, exp |-> NoBound, seal |-> "verifies"]]

MCPrf == [i \in InvCid |->
  CASE i = chained -> <<aliceToBob, bobToCarol>>
    [] i = brief   -> <<shortToBob, bobToCarol>>
    [] i = odd     -> <<oddToBob, bobToCarol>>
    [] i = direct  -> <<>>]

Record(iss, target) == [iss |-> iss, target |-> target, valid |-> TRUE, decodes |-> TRUE]

\* vast expires beyond MAX_SAFE: it is stored, and does not decode.
MCRev == [r \in RevCid |->
  CASE r = byAliceOnLeaf -> Record(alice, bobToCarol)
    [] r = byBob         -> Record(bob, aliceToBob)
    [] r = byBobOnLeaf   -> Record(bob, bobToCarol)
    [] r = vast          -> [Record(alice, bobToCarol) EXCEPT !.decodes = FALSE]]

Asks(i, chain, revoking) == [inv |-> i, now |-> NoNow, chain |-> chain, revoking |-> revoking]

MCRequests ==
  {Asks(i, TRUE, FALSE) : i \in InvCid} \cup {Asks(i, chain, TRUE) : i \in InvCid, chain \in BOOLEAN}
  \cup {[Asks(brief, TRUE, FALSE) EXCEPT !.now = t] : t \in 0..1}

OwnKeys == {<<d, d>> : d \in DlgCid}
=============================================================================
