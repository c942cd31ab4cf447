------------------------------ MODULE Evidence ------------------------------
(***************************************************************************)
(* The tokens in circulation, by CID, and what they jointly establish.     *)
(*                                                                         *)
(* A CID is the hash of the canonical envelope, so it stands for the token *)
(* itself: Inv, Prf, Dlg and Rev give its content, and two tokens with     *)
(* one CID are one token.                                                  *)
(***************************************************************************)
EXTENDS Chain

CONSTANTS
  DlgCid, Dlg,         \* delegations
  InvCid, Inv, Prf,    \* invocations, and the proofs each one names, root first
  RevCid, Rev          \* invocations of /ucan/revoke, and others filed as such

\* What a revocation store reads of a record: valid says that its signature
\* verifies and its command is /ucan/revoke, target is its revoke argument,
\* decodes that Invocation.decode takes its bytes: that of a record in memory
\* may not be so (see TokenExchange).
RevocationRecord == [iss : Did, target : DlgCid, valid : BOOLEAN, decodes : BOOLEAN]

ASSUME EvidenceAssumption ==
  /\ Dlg \in [DlgCid -> Delegation]
  /\ Inv \in [InvCid -> Payload]
  /\ Prf \in [InvCid -> Seq(DlgCid)]
  /\ Rev \in [RevCid -> RevocationRecord]

\* The delegations behind a sequence of CIDs.
Resolve(cids) == [k \in 1..Len(cids) |-> Dlg[cids[k]]]

\* assertValidRevocation
ValidRevocation(target, r) == Rev[r].valid /\ Rev[r].target = target

\* What checkRevocations asks of a record it was given: it decodes it again, and
\* passes over one that does not decode or is not a valid revocation of target.
Revokes(target, r) == Rev[r].decodes /\ ValidRevocation(target, r)

\* The proof at k, or one before it, was issued by the author of r.
AncestorIssued(cids, k, r) == \E j \in 1..k : Dlg[cids[j]].iss = Rev[r].iss

\* Some record of R takes away a proof that inv names.
RevokedBy(inv, R) ==
  \E r \in R, k \in 1..Len(Prf[inv]) :
    ValidRevocation(Prf[inv][k], r) /\ AncestorIssued(Prf[inv], k, r)

\* Some record of R is a revocation of a proof of inv, and does not decode.
Unreadable(inv, R) ==
  \E r \in R, k \in 1..Len(Prf[inv]) : ValidRevocation(Prf[inv][k], r) /\ ~Rev[r].decodes

\* inv and every proof it names are signed, it is addressed to executor, and
\* the proofs authorise it at time t.
Genuine(inv, executor) ==
  /\ Inv[inv].seal = "verifies" /\ Inv[inv].aud = executor
  /\ \A k \in 1..Len(Prf[inv]) : Dlg[Prf[inv][k]].seal = "verifies"
AuthorizedAt(inv, t, leeway) == Authorized(Inv[inv], Resolve(Prf[inv]), t, leeway)
=============================================================================
