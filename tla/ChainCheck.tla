----------------------------- MODULE ChainCheck -----------------------------
(***************************************************************************)
(* checkResolved as it runs: the time loop and then the chain loop over    *)
(* the proofs, one proof a step, with the two locals the chain loop        *)
(* carries from proof to proof.  The call is synchronous, so nothing else  *)
(* happens between its steps; what is checked is that carrying only the    *)
(* previous proof is enough to bind the whole chain.                       *)
(***************************************************************************)
EXTENDS Chain

CONSTANTS
  Cases,      \* what to check: see CaseType
  NoProof     \* previous before the first proof

\* An invocation, the proofs resolved for it, root first, now and leewaySeconds.
CaseType == [inv : Payload, proofs : Seq(Delegation), now : Nat, leeway : Nat]

ASSUME InputAssumption == Cases \subseteq CaseType /\ NoProof \notin Delegation

VARIABLES
  inv, proofs, now, leeway,   \* the parameters
  phase,                      \* "start", "time", "chain", "done"
  i,                          \* the proof the loop is at
  expectedIssuer, previous,   \* the locals of syntaticChecks
  verdict                     \* "ok", or the reason thrown

vars == <<inv, proofs, now, leeway, phase, i, expectedIssuer, previous, verdict>>
params == <<inv, proofs, now, leeway>>

Init ==
  /\ \E q \in Cases : inv = q.inv /\ proofs = q.proofs /\ now = q.now /\ leeway = q.leeway
  /\ phase = "start" /\ i = 1 /\ verdict = "ok"
  /\ expectedIssuer = inv.sub /\ previous = NoProof

Throw(reason) ==
  /\ phase' = "done" /\ verdict' = reason
  /\ UNCHANGED <<params, i, expectedIssuer, previous>>

\* The shifted bounds and the invocation's own expiry.
InvocationBounds ==
  LET fault == InvocationTimeFault(inv, now, leeway) IN
  /\ phase = "start"
  /\ \/ fault # "ok" /\ Throw(fault)
     \/ /\ fault = "ok"
        /\ phase' = "time"
        /\ UNCHANGED <<params, i, expectedIssuer, previous, verdict>>

\* A slip: the time loop ends one proof early.
SkipLastBounds ==
  LET fault == IF i = Len(proofs) THEN "ok" ELSE ProofTimeFault(proofs[i], now, leeway) IN
  /\ phase = "time" /\ i <= Len(proofs)
  /\ \/ fault # "ok" /\ Throw(fault)
     \/ /\ fault = "ok"
        /\ i' = i + 1
        /\ UNCHANGED <<params, phase, expectedIssuer, previous, verdict>>

ProofBounds ==
  LET fault == ProofTimeFault(proofs[i], now, leeway) IN
  /\ phase = "time" /\ i <= Len(proofs)
  /\ \/ fault # "ok" /\ Throw(fault)
     \/ /\ fault = "ok"
        /\ i' = i + 1
        /\ UNCHANGED <<params, phase, expectedIssuer, previous, verdict>>

\* timeBoundChecks returns; syntaticChecks starts over from the first proof.
StartChain ==
  /\ phase = "time" /\ i = Len(proofs) + 1
  /\ phase' = "chain" /\ i' = 1
  /\ expectedIssuer' = inv.sub /\ previous' = NoProof
  /\ UNCHANGED <<params, verdict>>

Parent == IF previous = NoProof THEN <<>> ELSE previous.cmd

\* Slips that CheckLink must not make.  previous stays at the root:
KeepRootAsPrevious ==
  LET fault == LinkFault(inv, proofs[i], expectedIssuer, previous = NoProof, Parent) IN
  /\ phase = "chain" /\ i <= Len(proofs)
  /\ \/ fault # "ok" /\ Throw(fault)
     \/ /\ fault = "ok"
        /\ i' = i + 1
        /\ expectedIssuer' = proofs[i].aud
        /\ previous' = IF previous = NoProof THEN proofs[i] ELSE previous
        /\ UNCHANGED <<params, phase, verdict>>

\* The next issuer is taken from the subject field:
FollowSubjects ==
  LET fault == LinkFault(inv, proofs[i], expectedIssuer, previous = NoProof, Parent) IN
  /\ phase = "chain" /\ i <= Len(proofs)
  /\ \/ fault # "ok" /\ Throw(fault)
     \/ /\ fault = "ok"
        /\ i' = i + 1
        /\ expectedIssuer' = proofs[i].sub
        /\ previous' = proofs[i]
        /\ UNCHANGED <<params, phase, verdict>>

\* The turn of the chain loop for proof i.
CheckLink ==
  LET fault == LinkFault(inv, proofs[i], expectedIssuer, previous = NoProof, Parent) IN
  /\ phase = "chain" /\ i <= Len(proofs)
  /\ \/ fault # "ok" /\ Throw(fault)
     \/ /\ fault = "ok"
        /\ i' = i + 1
        /\ expectedIssuer' = proofs[i].aud
        /\ previous' = proofs[i]
        /\ UNCHANGED <<params, phase, verdict>>

\* A slip: the loop's end does not look at the invoker.
AcceptAnyInvoker ==
  /\ phase = "chain" /\ i = Len(proofs) + 1
  /\ Throw("ok")

\* After the loop: the last audience, or the subject of an empty chain, invokes.
CheckInvoker ==
  /\ phase = "chain" /\ i = Len(proofs) + 1
  /\ Throw(IF inv.iss # expectedIssuer THEN "invalidProofIssuerChain" ELSE "ok")

Next ==
  \/ InvocationBounds \/ ProofBounds \/ StartChain \/ CheckLink \/ CheckInvoker

Spec == Init /\ [][Next]_vars

----------------------------------------------------------------------------

TypeOK ==
  /\ inv \in Payload /\ proofs \in Seq(Delegation) /\ now \in Nat /\ leeway \in Nat
  /\ phase \in {"start", "time", "chain", "done"}
  /\ i \in 1..Len(proofs)+1
  /\ expectedIssuer \in Did /\ previous \in Delegation \cup {NoProof}
  /\ verdict \in CheckReason \cup {"ok"}

\* The proofs the loop still has to visit, with all that it keeps of the
\* others, decide the same as the whole array: the loop throws exactly the
\* reason of the first fault, in the order time, chain, invoker.
LoopComputesCheckResolved ==
  phase = "done" => verdict = CheckResolved(inv, proofs, now, leeway)

\* checkResolved returns exactly for the chains that carry the subject's
\* authority to the invoker in time, whatever order its checks run in; only
\* a leeway that reaches past the last timestamp refuses such a chain.
AcceptsExactlyAuthorized ==
  phase = "done" =>
    (verdict = "ok" <=> /\ Authorized(inv, proofs, now, leeway)
                        /\ ~ShiftOverflows(now, leeway))

\* Each proof is compared with its parent alone, yet no proof of an accepted
\* chain reaches a command outside that of ANY proof before it, and a
\* powerline delegation never stands at the root of one.
NoWideningDownTheChain ==
  (phase = "done" /\ verdict = "ok") =>
    /\ \A j, k \in 1..Len(proofs) : j <= k => StartsWith(proofs[k].cmd, proofs[j].cmd)
    /\ Len(proofs) > 0 => proofs[1].sub = inv.sub
=============================================================================
