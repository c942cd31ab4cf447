-------------------------- MODULE ChainCheckProofs --------------------------
(***************************************************************************)
(* The loops of checkResolved compute CheckResolved, for chains of any     *)
(* length: what the chain loop keeps of the proofs it has passed is        *)
(* enough to bind all of them.                                             *)
(***************************************************************************)
EXTENDS ChainCheck, ChainProofs

\* What the time loop has established when it is at proof i.
TimeLoopInv ==
  phase = "time" =>
    /\ InvocationTimeFault(inv, now, leeway) = "ok"
    /\ \A j \in 1..i-1 : ProofTimeFault(proofs[j], now, leeway) = "ok"

LinkFaultAt(j) ==
  LinkFault(inv, proofs[j], ExpectedIssuer(inv, proofs, j), j = 1, ParentCommand(proofs, j))

\* The commands of the first n proofs narrow from each one to every later one.
Narrowing(n) == \A j, k \in 1..n : j <= k => StartsWith(proofs[k].cmd, proofs[j].cmd)

\* What the chain loop has established when it is at proof i: its locals
\* describe proof i - 1, and the proofs before i are without fault.
ChainLoopInv ==
  phase = "chain" =>
    /\ TimeBoundChecks(inv, proofs, now, leeway) = "ok"
    /\ expectedIssuer = ExpectedIssuer(inv, proofs, i)
    /\ IF i = 1 THEN previous = NoProof ELSE previous = proofs[i-1]
    /\ \A j \in 1..i-1 : LinkFaultAt(j) = "ok"
    /\ Narrowing(i - 1)
    /\ i > 1 => proofs[1].sub = inv.sub

DoneInv == LoopComputesCheckResolved /\ NoWideningDownTheChain

IInv ==
  /\ TypeOK
  /\ (phase # "done" => verdict = "ok") /\ (phase = "start" => i = 1)
  /\ TimeLoopInv /\ ChainLoopInv /\ DoneInv

----------------------------------------------------------------------------

\* Commands are ordered by the prefix relation.
LEMMA StartsWithReflexive ==
  ASSUME NEW a \in Seq(Segment)
  PROVE  StartsWith(a, a)
BY DEF StartsWith

\* A command under a command under a third is under the third.
LEMMA StartsWithTransitive ==
  ASSUME NEW a \in Seq(Segment), NEW b \in Seq(Segment), NEW c \in Seq(Segment),
         StartsWith(a, b), StartsWith(b, c)
  PROVE  StartsWith(a, c)
<1>1. Len(a) \in Nat /\ Len(b) \in Nat /\ Len(c) \in Nat
  OBVIOUS
<1> QED  BY <1>1 DEF StartsWith

\* A loop passes a proof without fault only if it attenuates its parent and
\* roots in the subject.
LEMMA PassedLink ==
  ASSUME NEW j, LinkFaultAt(j) = "ok"
  PROVE  /\ j # 1 => StartsWith(proofs[j].cmd, proofs[j-1].cmd)
         /\ j = 1 => SubjectAllows(proofs[j].sub, inv.sub) /\ proofs[j].sub # AnySubject
BY DEF LinkFaultAt, LinkFault, ParentCommand

\* One more link keeps the commands narrowing from every proof to every later one.
LEMMA NarrowingStep ==
  ASSUME TypeOK, NEW n \in Nat, n + 1 \in 1..Len(proofs), Narrowing(n), LinkFaultAt(n + 1) = "ok"
  PROVE  Narrowing(n + 1)
<1> SUFFICES ASSUME NEW j \in 1..n+1, NEW k \in 1..n+1, j <= k
             PROVE  StartsWith(proofs[k].cmd, proofs[j].cmd)
  BY DEF Narrowing
<1>1. Len(proofs) \in Nat /\ j \in 1..Len(proofs) /\ k \in 1..Len(proofs)
  BY DEF TypeOK
<1>2. proofs[j].cmd \in Seq(Segment) /\ proofs[k].cmd \in Seq(Segment)
  BY <1>1, ProofFields DEF TypeOK
<1>3. CASE k <= n
  BY <1>3 DEF Narrowing
<1>4. CASE k = n + 1 /\ j = n + 1
  BY <1>2, <1>4, StartsWithReflexive
<1>5. CASE k = n + 1 /\ j # n + 1
  <2>1. n \in 1..Len(proofs) /\ n + 1 # 1 /\ (n + 1) - 1 = n /\ j \in 1..n
    BY <1>1, <1>5
  <2>2. StartsWith(proofs[n+1].cmd, proofs[n].cmd)
    BY <2>1, PassedLink
  <2>3. StartsWith(proofs[n].cmd, proofs[j].cmd)
    BY <2>1 DEF Narrowing
  <2>4. proofs[n].cmd \in Seq(Segment)
    BY <2>1, ProofFields DEF TypeOK
  <2> QED  BY <1>2, <1>5, <2>2, <2>3, <2>4, StartsWithTransitive
<1> QED  BY <1>3, <1>4, <1>5
----------------------------------------------------------------------------

\* Init establishes the invariant.
LEMMA InitIInv == Init => IInv
<1> SUFFICES ASSUME Init PROVE IInv  OBVIOUS
<1>1. inv \in Payload /\ proofs \in Seq(Delegation) /\ now \in Nat /\ leeway \in Nat
  <2>1. PICK q \in Cases : inv = q.inv /\ proofs = q.proofs /\ now = q.now /\ leeway = q.leeway
    BY DEF Init
  <2>2. q \in CaseType  BY <2>1, InputAssumption
  <2> QED  BY <2>1, <2>2 DEF CaseType
<1>2. inv.sub \in Did  BY <1>1 DEF Payload
<1> QED
  BY <1>1, <1>2 DEF Init, IInv, TypeOK, TimeLoopInv, ChainLoopInv, DoneInv,
     LoopComputesCheckResolved, NoWideningDownTheChain

\* The chain loop looks at proof i the way LinkFaultAt does.
LEMMA LoopLooksAtLink ==
  ASSUME TypeOK, ChainLoopInv, phase = "chain", i <= Len(proofs)
  PROVE  LinkFault(inv, proofs[i], expectedIssuer, previous = NoProof, Parent) = LinkFaultAt(i)
<1>1. previous = NoProof <=> i = 1
  <2>1. i # 1 => i - 1 \in 1..Len(proofs)
    BY DEF TypeOK
  <2>2. i # 1 => proofs[i-1] # NoProof
    BY <2>1, ProofFields, InputAssumption DEF TypeOK
  <2> QED  BY <2>2 DEF ChainLoopInv
<1>2. Parent = ParentCommand(proofs, i)
  BY <1>1 DEF Parent, ParentCommand, ChainLoopInv
<1> QED  BY <1>1, <1>2 DEF ChainLoopInv, LinkFaultAt

\* A throw at fault f, which is what CheckResolved returns.
LEMMA ThrowKeepsIInv ==
  ASSUME IInv, NEW f, Throw(f), f \in CheckReason \cup {"ok"},
         f = CheckResolved(inv, proofs, now, leeway),
         f = "ok" => /\ Narrowing(Len(proofs))
                     /\ Len(proofs) > 0 => proofs[1].sub = inv.sub
  PROVE  IInv'
BY DEF IInv, TypeOK, Throw, params, TimeLoopInv, ChainLoopInv, DoneInv,
       LoopComputesCheckResolved, NoWideningDownTheChain, Narrowing

\* The loop over the bounds starts, or the invocation's own bound faults.
LEMMA InvocationBoundsStep == IInv /\ InvocationBounds => IInv'
<1> SUFFICES ASSUME IInv, InvocationBounds  PROVE IInv'
  OBVIOUS
<1> DEFINE f == InvocationTimeFault(inv, now, leeway)
<1>1. CASE f # "ok" /\ Throw(f)
  <2>1. f \in CheckReason \cup {"ok"}
    BY <1>1 DEF InvocationTimeFault, CheckReason
  <2>2. f = CheckResolved(inv, proofs, now, leeway)
    BY <1>1 DEF CheckResolved, TimeBoundChecks
  <2> HIDE DEF f
  <2> QED  BY <1>1, <2>1, <2>2, ThrowKeepsIInv
<1>2. CASE /\ f = "ok" /\ phase' = "time"
           /\ UNCHANGED <<params, i, expectedIssuer, previous, verdict>>
  BY <1>2 DEF InvocationBounds, IInv, TypeOK, params, TimeLoopInv, ChainLoopInv, DoneInv,
              LoopComputesCheckResolved, NoWideningDownTheChain
<1> QED  BY <1>1, <1>2 DEF InvocationBounds

\* One turn of the loop over the bounds.
LEMMA ProofBoundsStep == IInv /\ ProofBounds => IInv'
<1> SUFFICES ASSUME IInv, ProofBounds  PROVE IInv'
  OBVIOUS
<1> DEFINE f == ProofTimeFault(proofs[i], now, leeway)
           F == ProofTimeFaults(proofs, now, leeway)
<1>1. /\ phase = "time" /\ i \in 1..Len(proofs) /\ Len(proofs) \in Nat
      /\ InvocationTimeFault(inv, now, leeway) = "ok"
      /\ \A j \in 1..i-1 : ProofTimeFault(proofs[j], now, leeway) = "ok"
  BY DEF ProofBounds, IInv, TypeOK, TimeLoopInv
<1>2. CASE f # "ok" /\ Throw(f)
  <2>1. f \in CheckReason \cup {"ok"}
    BY <1>2 DEF ProofTimeFault, CheckReason
  <2>2. F[i] = f /\ DOMAIN F = 1..Len(proofs) /\ \A j \in 1..i-1 : F[j] = "ok"
    BY <1>1 DEF ProofTimeFaults
  <2>3. FirstFault(F) = f
    <3> HIDE DEF F, f
    <3> QED  BY <1>1, <1>2, <2>2, FirstFaultFound
  <2>4. f = CheckResolved(inv, proofs, now, leeway)
    BY <1>1, <1>2, <2>3 DEF CheckResolved, TimeBoundChecks
  <2> HIDE DEF f
  <2> QED  BY <1>2, <2>1, <2>4, ThrowKeepsIInv
<1>3. CASE /\ f = "ok" /\ i' = i + 1
           /\ UNCHANGED <<params, phase, expectedIssuer, previous, verdict>>
  <2>1. TypeOK' /\ ChainLoopInv' /\ DoneInv' /\ verdict' = "ok"
    BY <1>1, <1>3 DEF IInv, TypeOK, params, ChainLoopInv, DoneInv, LoopComputesCheckResolved,
                      NoWideningDownTheChain
  <2>2. \A j \in 1..(i+1)-1 : ProofTimeFault(proofs[j], now, leeway) = "ok"
    BY <1>1, <1>3
  <2>3. TimeLoopInv'
    BY <1>1, <1>3, <2>2 DEF TimeLoopInv, params
  <2> QED  BY <1>1, <1>3, <2>1, <2>3 DEF IInv
<1> QED  BY <1>2, <1>3 DEF ProofBounds

\* The chain loop starts over from the root.
LEMMA StartChainStep == IInv /\ StartChain => IInv'
<1> SUFFICES ASSUME IInv, StartChain  PROVE IInv'
  OBVIOUS
<1> DEFINE F == ProofTimeFaults(proofs, now, leeway)
<1>1. /\ Len(proofs) \in Nat /\ i - 1 = Len(proofs)
      /\ InvocationTimeFault(inv, now, leeway) = "ok"
      /\ \A j \in 1..Len(proofs) : ProofTimeFault(proofs[j], now, leeway) = "ok"
  BY DEF StartChain, IInv, TypeOK, TimeLoopInv
<1>2. FirstFault(F) = "ok"
  <2>1. DOMAIN F = 1..Len(proofs) /\ \A j \in 1..Len(proofs) : F[j] = "ok"
    BY <1>1 DEF ProofTimeFaults
  <2> HIDE DEF F
  <2> QED  BY <1>1, <2>1, FirstFaultNone
<1>3. TimeBoundChecks(inv, proofs, now, leeway) = "ok"
  BY <1>1, <1>2 DEF TimeBoundChecks
<1>4. TypeOK'
  BY <1>1 DEF StartChain, IInv, TypeOK, params, Payload
<1>5. Narrowing(0)
  BY DEF Narrowing
<1>6. ChainLoopInv'
  BY <1>3, <1>5 DEF StartChain, ChainLoopInv, params, ExpectedIssuer, Narrowing
<1> QED  BY <1>4, <1>6 DEF StartChain, IInv, TimeLoopInv, DoneInv, LoopComputesCheckResolved,
                           NoWideningDownTheChain

\* One turn of the chain loop.
LEMMA CheckLinkStep == IInv /\ CheckLink => IInv'
<1> SUFFICES ASSUME IInv, CheckLink  PROVE IInv'
  OBVIOUS
<1> DEFINE f == LinkFaultAt(i)
           F == LinkFaults(inv, proofs)
<1>1. /\ phase = "chain" /\ i \in 1..Len(proofs) /\ Len(proofs) \in Nat
      /\ TimeBoundChecks(inv, proofs, now, leeway) = "ok"
      /\ \A j \in 1..i-1 : LinkFaultAt(j) = "ok"
      /\ Narrowing(i - 1) /\ (i > 1 => proofs[1].sub = inv.sub)
      /\ i - 1 \in Nat /\ (i - 1) + 1 = i
  BY DEF CheckLink, IInv, TypeOK, ChainLoopInv
<1>2. LinkFault(inv, proofs[i], expectedIssuer, previous = NoProof, Parent) = f
  BY <1>1, LoopLooksAtLink DEF IInv
<1>3. proofs[i] \in Delegation /\ proofs[i].aud \in Did
  BY <1>1, ProofFields DEF IInv, TypeOK
<1>4. CASE f # "ok" /\ Throw(f)
  <2>1. f \in CheckReason \cup {"ok"}
    BY <1>3, FaultTypes DEF LinkFaultAt, IInv, TypeOK
  <2>2. F[i] = f /\ DOMAIN F = 1..Len(proofs) /\ \A j \in 1..i-1 : F[j] = "ok"
    BY <1>1 DEF LinkFaults, LinkFaultAt
  <2>3. FirstFault(F) = f
    <3> HIDE DEF F, f
    <3> QED  BY <1>1, <1>4, <2>2, FirstFaultFound
  <2>4. f = CheckResolved(inv, proofs, now, leeway)
    BY <1>1, <1>4, <2>3 DEF CheckResolved, SyntaticChecks
  <2> HIDE DEF f
  <2> QED  BY <1>4, <2>1, <2>4, ThrowKeepsIInv
<1>5. CASE /\ f = "ok" /\ i' = i + 1 /\ expectedIssuer' = proofs[i].aud
           /\ previous' = proofs[i] /\ UNCHANGED <<params, phase, verdict>>
  <2>1. TypeOK'
    BY <1>1, <1>3, <1>5 DEF IInv, TypeOK, params
  <2>2. Narrowing(i)
    BY <1>1, <1>5, NarrowingStep DEF IInv
  <2>3. proofs[1].sub = inv.sub
    BY <1>1, <1>5, PassedLink DEF SubjectAllows
  <2>4. \A j \in 1..(i+1)-1 : LinkFaultAt(j) = "ok"
    BY <1>1, <1>5
  <2>5. ExpectedIssuer(inv, proofs, i + 1) = proofs[i].aud /\ i + 1 # 1 /\ (i + 1) - 1 = i
    BY <1>1 DEF ExpectedIssuer
  <2>6. ChainLoopInv'
    BY <1>1, <1>5, <2>2, <2>3, <2>4, <2>5
       DEF ChainLoopInv, params, LinkFaultAt, Narrowing
  <2> QED  BY <1>1, <1>5, <2>1, <2>6 DEF IInv, TimeLoopInv, DoneInv, LoopComputesCheckResolved,
                                   NoWideningDownTheChain
<1> QED  BY <1>2, <1>4, <1>5 DEF CheckLink

\* The look at the invoker after the loop.
LEMMA CheckInvokerStep == IInv /\ CheckInvoker => IInv'
<1> SUFFICES ASSUME IInv, CheckInvoker  PROVE IInv'
  OBVIOUS
<1> DEFINE f == IF inv.iss # expectedIssuer THEN "invalidProofIssuerChain" ELSE "ok"
           F == LinkFaults(inv, proofs)
<1>1. /\ Len(proofs) \in Nat /\ i = Len(proofs) + 1 /\ i - 1 = Len(proofs)
      /\ TimeBoundChecks(inv, proofs, now, leeway) = "ok"
      /\ expectedIssuer = ExpectedIssuer(inv, proofs, Len(proofs) + 1)
      /\ \A j \in 1..Len(proofs) : LinkFaultAt(j) = "ok"
      /\ Narrowing(Len(proofs)) /\ (Len(proofs) > 0 => proofs[1].sub = inv.sub)
  BY DEF CheckInvoker, IInv, TypeOK, ChainLoopInv
<1>2. FirstFault(F) = "ok"
  <2>1. DOMAIN F = 1..Len(proofs) /\ \A j \in 1..Len(proofs) : F[j] = "ok"
    BY <1>1 DEF LinkFaults, LinkFaultAt
  <2> HIDE DEF F
  <2> QED  BY <1>1, <2>1, FirstFaultNone
<1>3. f = CheckResolved(inv, proofs, now, leeway)
  BY <1>1, <1>2 DEF CheckResolved, SyntaticChecks
<1>4. f \in CheckReason \cup {"ok"}
  BY DEF CheckReason
<1>5. Throw(f)
  BY DEF CheckInvoker
<1> HIDE DEF f
<1> QED  BY <1>1, <1>3, <1>4, <1>5, ThrowKeepsIInv

----------------------------------------------------------------------------

\* The loop invariant: it holds at first and every turn of either loop keeps it.
THEOREM Inductive == Spec => []IInv
<1>1. IInv /\ UNCHANGED vars => IInv'
  BY DEF IInv, vars, TypeOK, TimeLoopInv, ChainLoopInv, DoneInv, LoopComputesCheckResolved,
         NoWideningDownTheChain, LinkFaultAt, Narrowing
<1>2. IInv /\ [Next]_vars => IInv'
  BY <1>1, InvocationBoundsStep, ProofBoundsStep, StartChainStep, CheckLinkStep,
     CheckInvokerStep DEF Next
<1> QED  BY InitIInv, <1>2, PTL DEF Spec

\* The locals of checkResolved stay within their types.
THEOREM TypeCorrect == Spec => []TypeOK
BY Inductive, PTL DEF IInv

\* The loops, which keep one proof at a time, decide what CheckResolved
\* decides of the whole array, with the same reason.
THEOREM LoopCorrect == Spec => []LoopComputesCheckResolved
BY Inductive, PTL DEF IInv, DoneInv

\* checkResolved accepts exactly the authorised chains, of any length.
THEOREM AcceptanceCorrect == Spec => []AcceptsExactlyAuthorized
<1>1. IInv => AcceptsExactlyAuthorized
  BY CheckResolvedOk DEF IInv, TypeOK, DoneInv, LoopComputesCheckResolved, AcceptsExactlyAuthorized
<1> QED  BY Inductive, <1>1, PTL

\* Comparing each command with that of the previous proof alone is enough: in
\* an accepted chain of any length no proof widens any proof before it.
THEOREM AttenuationCorrect == Spec => []NoWideningDownTheChain
BY Inductive, PTL DEF IInv, DoneInv
=============================================================================
