--------------------------- MODULE MCRestService ---------------------------
(***************************************************************************)
(* An instance of RestService for TLC: the service delegates to bob for    *)
(* one second, bob delegates to carol, and carol asks for notes.           *)
(***************************************************************************)
EXTENDS RestService

CONSTANTS
  q1, q2, host, bob, carol, create, delete, fine, anyArgs,
  grantBob, grantCarol, scrap,
  note, other, removal, noise,
  byServiceOnLeaf, vast

MCRunPredicate(p, a) == "true"

\* grantBob expires after 0; scrap is a proof that does not decode.
Grant(iss, aud, sub, sealed) ==
  [iss |-> iss, aud |-> aud, sub |-> sub, cmd |-> <<>>, pol |-> <<fine>>,
   nbf |-> NoBound, exp |-> NoBound, seal |-> sealed]
MCDlg == [d \in DlgCid |->
  CASE d = grantBob   -> [Grant(host, bob, host, "verifies") EXCEPT !.exp = 0]
    [] d = grantCarol -> Grant(bob, carol, AnySubject, "verifies")
    [] d = scrap      -> Grant(bob, carol, host, "undecodable")]

\* note and other differ in their nonces, noise does not decode, removal is
\* for another route.
Ask(cmd, sealed) ==
  [iss |-> carol, aud |-> host, sub |-> host, cmd |-> cmd, args |-> anyArgs,
   exp |-> NoBound, seal |-> sealed]
MCInv == [i \in InvCid |->
  CASE i \in {note, other} -> Ask(<<create>>, "verifies")
    [] i = removal  -> Ask(<<delete>>, "verifies")
    [] i = noise    -> Ask(<<create>>, "undecodable")]
MCPrf == [i \in InvCid |-> <<grantBob, grantCarol>>]

\* vast expires beyond MAX_SAFE: it is stored, and does not decode.  Its author
\* has no authority over the proof it is about.
Record(iss, target, decodes) ==
  [iss |-> iss, target |-> target, valid |-> TRUE, decodes |-> decodes]
MCRev == [r \in RevCid |->
  CASE r = byServiceOnLeaf -> Record(host, grantCarol, TRUE)
    [] r = vast            -> Record(bob, grantBob, FALSE)]

MCOptions == {[inv |-> i, executor |-> host, now |-> NoNow, leeway |-> 0, revoking |-> TRUE] :
                i \in InvCid}
MCFilings == {<<d, d>> : d \in DlgCid}
MCRoute == <<create>>

\* In any order, with one missing, with one that does not decode, with none.
MCBodies ==
  {[form |-> "full", proofs |-> ps] :
     ps \in {<<grantCarol, grantBob>>, <<grantBob>>, <<grantBob, scrap>>}}
  \cup {[form |-> f, proofs |-> <<>>] : f \in {"unparsable", "elsewhere", "bare"}}
=============================================================================
