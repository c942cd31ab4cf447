------------------------------ MODULE MCVerify ------------------------------
(***************************************************************************)
(* Instances of Verify for TLC: alice delegates to bob, who delegates to   *)
(* carol; every other token has one thing wrong with it.                   *)
(***************************************************************************)
EXTENDS Verify, TLC

CONSTANTS
  c1, c2, c3, alice, bob, carol, x, fine, anyArgs,
  aliceToBob, bobToCarol, forgedToBob, shortToBob,
  chained, direct, unsigned, misaddressed,
  byAlice, byAliceOnLeaf, byBob, byBobOnLeaf, fake, vast

MCRunPredicate(p, a) == "true"

Grant(iss, aud, sub) ==
  [iss |-> iss, aud |-> aud, sub |-> sub, cmd |-> <<>>, pol |-> <<fine>>,
   nbf |-> NoBound, exp |-> NoBound, seal |-> "verifies"]

\* shortToBob is not valid before 1, nor after 1.
MCDlg == [d \in DlgCid |->
  CASE d = aliceToBob   -> Grant(alice, bob, alice)
    [] d = bobToCarol   -> Grant(bob, carol, AnySubject)
    [] d = forgedToBob  -> [Grant(alice, bob, alice) EXCEPT !.seal = "forged"]
    [] d = shortToBob   -> [Grant(alice, bob, alice) EXCEPT !.nbf = 1, !.exp = 1]]

Ask(iss) ==
  [iss |-> iss, aud |-> alice, sub |-> alice, cmd |-> <<x>>, args |-> anyArgs,
   exp |-> NoBound, seal |-> "verifies"]

\* direct is alice's own invocation, which needs no proof.
MCInv == [i \in InvCid |->
  CASE i = chained      -> Ask(carol)
    [] i = direct       -> Ask(alice)
    [] i = unsigned     -> [Ask(carol) EXCEPT !.seal = "forged"]
    [] i = misaddressed -> [Ask(carol) EXCEPT !.aud = bob]]

FirstProof == IF shortToBob \in DlgCid THEN shortToBob ELSE aliceToBob
MCPrf == [i \in InvCid |-> IF i = direct THEN <<>> ELSE <<FirstProof, bobToCarol>>]

Record(iss, target) == [iss |-> iss, target |-> target, valid |-> TRUE, decodes |-> TRUE]

\* fake is not what it says; vast expires beyond MAX_SAFE and does not decode.
MCRev == [r \in RevCid |->
  CASE r = byAlice       -> Record(alice, FirstProof)
    [] r = byAliceOnLeaf -> Record(alice, bobToCarol)
    [] r = byBob         -> Record(bob, FirstProof)
    [] r = byBobOnLeaf   -> Record(bob, bobToCarol)
    [] r = fake          -> [Record(alice, FirstProof) EXCEPT !.valid = FALSE]
    [] r = vast          -> [Record(alice, bobToCarol) EXCEPT !.decodes = FALSE]]

Parameters(i, now, leeway, revoking) ==
  [inv |-> i, executor |-> alice, now |-> now, leeway |-> leeway, revoking |-> revoking]

\* What callers pass: with or without revocations, at the clock or at an
\* instant and leeway of their own.
ReplayOptions   == {Parameters(chained, NoNow, 0, TRUE), Parameters(direct, NoNow, 0, FALSE)}
EvidenceOptions == {Parameters(i, NoNow, 0, FALSE) : i \in InvCid}
                   \cup {Parameters(chained, 2, 1, TRUE), Parameters(chained, 3, 1, TRUE)}

OwnKeys == {<<d, d>> : d \in DlgCid}

Calls == Permutations(Call)
=============================================================================
