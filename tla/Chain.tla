------------------------------- MODULE Chain -------------------------------
(***************************************************************************)
(* The tokens of the system and the synchronous check of one invocation    *)
(* against the proofs that were resolved for it: checkResolved of          *)
(* packages/ucan/src/invocation/index.ts with everything it calls.         *)
(*                                                                         *)
(* A DID, a command segment, a policy predicate and an argument map are    *)
(* opaque; a command is its sequence of segments.  What a predicate says   *)
(* of an argument map is the constant RunPredicate, so everything below    *)
(* holds for any policy language.  Where the code throws, the operators    *)
(* return the reason it throws with; "ok" is a normal return.              *)
(***************************************************************************)
EXTENDS Integers, Sequences

CONSTANTS
  Did,                 \* principals
  Segment,             \* command path segments
  Predicate,           \* policy predicates
  Arguments,           \* invocation argument maps
  RunPredicate(_, _),  \* "true", "false", or "error" when runPredicate throws RunError
  AnySubject,          \* the null subject of a powerline delegation
  NoBound,             \* an absent exp or nbf
  MaxSeconds           \* 2^53 - 1, the bound of Timestamp.fromUnix

ASSUME SubjectAssumption == AnySubject \notin Did
ASSUME BoundAssumption == NoBound \notin Nat /\ MaxSeconds \in Nat
ASSUME PredicateAssumption ==
  \A p \in Predicate, a \in Arguments : RunPredicate(p, a) \in {"true", "false", "error"}

Command == Seq(Segment)
Bound   == Nat \cup {NoBound}

\* What becomes of an envelope that is encoded, decoded again and verified
\* against its iss.
Seal == {"verifies", "forged", "undecodable"}

\* The fields of a delegation that a check reads.
Delegation ==
  [iss : Did, aud : Did, sub : Did \cup {AnySubject}, cmd : Command,
   pol : Seq(Predicate), nbf : Bound, exp : Bound, seal : Seal]

\* The fields of an invocation that a check reads, without its proofs.
Payload ==
  [iss : Did, aud : Did, sub : Did, cmd : Command, args : Arguments, exp : Bound,
   seal : Seal]

CheckReason ==
  {"outOfRange", "invocationExpired", "proofNotYetValid", "proofExpired",
   "rootProofIssuerIsNotSubject", "subjectNotAllowedByProof",
   "invalidProofIssuerChain", "commandMismatch", "predicateRunError",
   "predicateFailed"}

----------------------------------------------------------------------------
(* Helpers                                                                 *)

\* Command.startsWith
StartsWith(cmd, prefix) ==
  /\ Len(prefix) <= Len(cmd)
  /\ \A k \in 1..Len(prefix) : cmd[k] = prefix[k]

SubjectAllows(allowed, subject) == allowed = AnySubject \/ allowed = subject

\* A loop that throws at the first element at fault: faults gives "ok" or the
\* fault of each element.
FirstFault(faults) ==
  LET bad == {i \in DOMAIN faults : faults[i] # "ok"}
  IN  IF bad = {} THEN "ok"
      ELSE faults[CHOOSE i \in bad : \A j \in bad : i <= j]

----------------------------------------------------------------------------
(* timeBoundChecks                                                         *)

\* shiftSeconds clamps below at the epoch.
Earliest(now, leeway) == IF leeway > now THEN 0 ELSE now - leeway
Latest(now, leeway)   == now + leeway

\* Above, shiftSeconds throws OutOfRangeError.  A leeway of zero shifts nothing.
ShiftOverflows(now, leeway) == leeway > 0 /\ now + leeway > MaxSeconds

InvocationTimeFault(inv, now, leeway) ==
  IF ShiftOverflows(now, leeway) THEN "outOfRange"
  ELSE IF inv.exp # NoBound /\ inv.exp < Earliest(now, leeway) THEN "invocationExpired"
  ELSE "ok"

\* A slip: a proof is taken for expired in the second its exp names.
ExclusiveExpiry(proof, now, leeway) ==
  IF proof.nbf # NoBound /\ proof.nbf > Latest(now, leeway) THEN "proofNotYetValid"
  ELSE IF proof.exp # NoBound /\ proof.exp <= Earliest(now, leeway) THEN "proofExpired"
  ELSE "ok"

ProofTimeFault(proof, now, leeway) ==
  IF proof.nbf # NoBound /\ proof.nbf > Latest(now, leeway) THEN "proofNotYetValid"
  ELSE IF proof.exp # NoBound /\ proof.exp < Earliest(now, leeway) THEN "proofExpired"
  ELSE "ok"

ProofTimeFaults(proofs, now, leeway) ==
  [i \in 1..Len(proofs) |-> ProofTimeFault(proofs[i], now, leeway)]

TimeBoundChecks(inv, proofs, now, leeway) ==
  LET fault == InvocationTimeFault(inv, now, leeway)
  IN  IF fault # "ok" THEN fault ELSE FirstFault(ProofTimeFaults(proofs, now, leeway))

----------------------------------------------------------------------------
(* syntaticChecks                                                          *)

PredicateFault(p, args) ==
  IF RunPredicate(p, args) = "true" THEN "ok"
  ELSE IF RunPredicate(p, args) = "false" THEN "predicateFailed"
  ELSE "predicateRunError"

PolicyFault(pol, args) == FirstFault([k \in 1..Len(pol) |-> PredicateFault(pol[k], args)])

\* One turn of the loop over the proofs.  expected is expectedIssuer; parent
\* is the command of the previous proof, <<>> (which every command extends)
\* while there is none; root says that there is none.
LinkFault(inv, proof, expected, root, parent) ==
  IF root /\ proof.sub = AnySubject THEN "rootProofIssuerIsNotSubject"
  ELSE IF ~SubjectAllows(proof.sub, inv.sub) THEN "subjectNotAllowedByProof"
  ELSE IF proof.iss # expected THEN "invalidProofIssuerChain"
  ELSE IF ~root /\ ~StartsWith(proof.cmd, parent) THEN "commandMismatch"
  ELSE IF ~StartsWith(inv.cmd, proof.cmd) THEN "commandMismatch"
  ELSE PolicyFault(proof.pol, inv.args)

\* expectedIssuer and previous.command as the loop finds them at proof i,
\* i = Len(proofs) + 1 being the end of the loop.
ExpectedIssuer(inv, proofs, i) == IF i = 1 THEN inv.sub ELSE proofs[i-1].aud
ParentCommand(proofs, i)       == IF i = 1 THEN <<>> ELSE proofs[i-1].cmd

LinkFaults(inv, proofs) ==
  [i \in 1..Len(proofs) |->
     LinkFault(inv, proofs[i], ExpectedIssuer(inv, proofs, i), i = 1, ParentCommand(proofs, i))]

SyntaticChecks(inv, proofs) ==
  LET fault == FirstFault(LinkFaults(inv, proofs))
  IN  IF fault # "ok" THEN fault
      ELSE IF inv.iss # ExpectedIssuer(inv, proofs, Len(proofs) + 1)
           THEN "invalidProofIssuerChain"
      ELSE "ok"

CheckResolved(inv, proofs, now, leeway) ==
  LET fault == TimeBoundChecks(inv, proofs, now, leeway)
  IN  IF fault # "ok" THEN fault ELSE SyntaticChecks(inv, proofs)

----------------------------------------------------------------------------
(* What the check promises, stated without its order or its reasons.       *)

\* Authority starts at the subject and is handed on, link by link, to the
\* invoker: an empty chain is the subject invoking for itself.
Linked(inv, proofs) ==
  IF proofs = <<>> THEN inv.iss = inv.sub
  ELSE /\ proofs[1].iss = inv.sub /\ proofs[1].sub = inv.sub
       /\ \A i \in 1..Len(proofs)-1 : proofs[i].aud = proofs[i+1].iss
       /\ proofs[Len(proofs)].aud = inv.iss

\* Every delegation speaks of this subject, lets this command through, is
\* satisfied by these arguments, and no delegation widens its parent's command.
Granted(inv, proofs) ==
  /\ \A i \in 1..Len(proofs) :
       /\ proofs[i].sub \in {AnySubject, inv.sub}
       /\ StartsWith(inv.cmd, proofs[i].cmd)
       /\ \A k \in 1..Len(proofs[i].pol) : RunPredicate(proofs[i].pol[k], inv.args) = "true"
  /\ \A i \in 1..Len(proofs)-1 : StartsWith(proofs[i+1].cmd, proofs[i].cmd)

\* Every bound holds at some instant the leeway allows for.
InTime(inv, proofs, now, leeway) ==
  /\ inv.exp = NoBound \/ now <= inv.exp + leeway
  /\ \A i \in 1..Len(proofs) :
       /\ proofs[i].nbf = NoBound \/ proofs[i].nbf <= now + leeway
       /\ proofs[i].exp = NoBound \/ now <= proofs[i].exp + leeway

Authorized(inv, proofs, now, leeway) ==
  /\ Linked(inv, proofs)
  /\ Granted(inv, proofs)
  /\ InTime(inv, proofs, now, leeway)
=============================================================================
