---------------------------- MODULE ChainProofs -----------------------------
(***************************************************************************)
(* What checkResolved decides, for chains of any length over any policy    *)
(* language: it returns exactly for the chains that Authorized describes.  *)
(***************************************************************************)
EXTENDS Chain, WellFoundedInduction, SequenceTheorems, TLAPS

Less == {ss \in Nat \X Nat : ss[1] < ss[2]}

\* The least-number principle, for a set rather than for a predicate.
LEMMA LeastNumber ==
  ASSUME NEW T \in SUBSET Nat, T # {}
  PROVE  \E n \in T : \A m \in T : n <= m
<1>1. IsWellFoundedOn(Less, Nat)
  BY NatLessThanWellFounded DEF OpToRel, Less
<1>2. \E n \in T : \A m \in T : <<m, n>> \notin Less
  BY <1>1, WFMin
<1>3. \A m, n \in Nat : <<m, n>> \notin Less => n <= m
  BY DEF Less
<1> QED  BY <1>2, <1>3

\* A loop that throws at the first fault returns exactly when there is none.
LEMMA FirstFaultNone ==
  ASSUME NEW n \in Nat, NEW f, DOMAIN f = 1..n
  PROVE  FirstFault(f) = "ok" <=> \A i \in 1..n : f[i] = "ok"
<1> DEFINE bad == {i \in DOMAIN f : f[i] # "ok"}
<1>1. CASE bad = {}
  BY <1>1 DEF FirstFault
<1>2. CASE bad # {}
  <2>1. \E i \in bad : \A j \in bad : i <= j
    <3>1. bad \in SUBSET Nat
      OBVIOUS
    <3> HIDE DEF bad
    <3> QED  BY <1>2, <3>1, LeastNumber
  <2>2. (CHOOSE i \in bad : \A j \in bad : i <= j) \in bad
    BY <2>1
  <2> QED  BY <1>2, <2>2 DEF FirstFault
<1> QED  BY <1>1, <1>2

\* What it throws is the fault of the first element that has one.
LEMMA FirstFaultFound ==
  ASSUME NEW n \in Nat, NEW f, DOMAIN f = 1..n,
         NEW i \in 1..n, f[i] # "ok", \A j \in 1..i-1 : f[j] = "ok"
  PROVE  FirstFault(f) = f[i]
<1> DEFINE bad == {k \in DOMAIN f : f[k] # "ok"}
<1>1. i \in bad /\ \A j \in bad : i <= j
  OBVIOUS
<1>2. ASSUME NEW k \in bad, \A j \in bad : k <= j
      PROVE  k = i
  BY <1>1, <1>2
<1>3. (CHOOSE k \in bad : \A j \in bad : k <= j) = i
  BY <1>1, <1>2
<1> QED  BY <1>1, <1>3 DEF FirstFault

\* It throws nothing else.
LEMMA FirstFaultSome ==
  ASSUME NEW n \in Nat, NEW f, DOMAIN f = 1..n
  PROVE  FirstFault(f) = "ok" \/ \E i \in 1..n : FirstFault(f) = f[i]
<1> DEFINE bad == {i \in DOMAIN f : f[i] # "ok"}
<1>1. CASE bad = {}
  BY <1>1 DEF FirstFault
<1>2. CASE bad # {}
  <2>1. \E i \in bad : \A j \in bad : i <= j
    <3>1. bad \in SUBSET Nat
      OBVIOUS
    <3> HIDE DEF bad
    <3> QED  BY <1>2, <3>1, LeastNumber
  <2> QED  BY <1>2, <2>1 DEF FirstFault
<1> QED  BY <1>1, <1>2

----------------------------------------------------------------------------

\* Every proof of a chain has the fields of a delegation.
LEMMA ProofFields ==
  ASSUME NEW proofs \in Seq(Delegation), NEW i \in 1..Len(proofs)
  PROVE  /\ proofs[i] \in Delegation
         /\ proofs[i].iss \in Did /\ proofs[i].aud \in Did
         /\ proofs[i].sub \in Did \cup {AnySubject}
         /\ proofs[i].cmd \in Seq(Segment) /\ proofs[i].pol \in Seq(Predicate)
         /\ proofs[i].nbf \in Bound /\ proofs[i].exp \in Bound
<1>1. proofs[i] \in Delegation
  BY ElementOfSeq
<1> QED  BY <1>1 DEF Delegation, Command

\* The time loop over the whole array decides InTime.
LEMMA TimeBoundChecksOk ==
  ASSUME NEW inv \in Payload, NEW proofs \in Seq(Delegation),
         NEW now \in Nat, NEW leeway \in Nat
  PROVE  TimeBoundChecks(inv, proofs, now, leeway) = "ok"
           <=> InTime(inv, proofs, now, leeway) /\ ~ShiftOverflows(now, leeway)
<1> DEFINE f == ProofTimeFaults(proofs, now, leeway)
<1>1. Len(proofs) \in Nat /\ DOMAIN f = 1..Len(proofs)
  BY DEF ProofTimeFaults
<1>2. FirstFault(f) = "ok" <=> \A i \in 1..Len(proofs) : f[i] = "ok"
  <2> HIDE DEF f
  <2> QED  BY <1>1, FirstFaultNone
<1>3. InvocationTimeFault(inv, now, leeway) = "ok" <=>
        /\ ~ShiftOverflows(now, leeway)
        /\ inv.exp = NoBound \/ now <= inv.exp + leeway
  BY BoundAssumption DEF InvocationTimeFault, Earliest, Payload, Bound
<1>4. ASSUME NEW i \in 1..Len(proofs)
      PROVE  f[i] = "ok" <=>
               /\ proofs[i].nbf = NoBound \/ proofs[i].nbf <= now + leeway
               /\ proofs[i].exp = NoBound \/ now <= proofs[i].exp + leeway
  <2>1. proofs[i].nbf \in Bound /\ proofs[i].exp \in Bound
    BY ProofFields
  <2>2. f[i] = ProofTimeFault(proofs[i], now, leeway)
    BY DEF ProofTimeFaults
  <2> QED  BY <2>1, <2>2, BoundAssumption DEF ProofTimeFault, Earliest, Latest, Bound
<1> HIDE DEF f
<1>5. TimeBoundChecks(inv, proofs, now, leeway) = "ok" <=>
        InvocationTimeFault(inv, now, leeway) = "ok" /\ FirstFault(f) = "ok"
  BY DEF TimeBoundChecks, f
<1> QED  BY <1>2, <1>3, <1>4, <1>5 DEF InTime

\* A policy faults nothing exactly when each of its predicates is true.
LEMMA PolicyFaultOk ==
  ASSUME NEW pol \in Seq(Predicate), NEW args \in Arguments
  PROVE  PolicyFault(pol, args) = "ok" <=>
           \A k \in 1..Len(pol) : RunPredicate(pol[k], args) = "true"
<1> DEFINE f == [k \in 1..Len(pol) |-> PredicateFault(pol[k], args)]
<1>1. Len(pol) \in Nat /\ DOMAIN f = 1..Len(pol)
  OBVIOUS
<1>2. \A k \in 1..Len(pol) : f[k] = "ok" <=> RunPredicate(pol[k], args) = "true"
  BY DEF PredicateFault
<1>3. PolicyFault(pol, args) = FirstFault(f)
  BY DEF PolicyFault
<1> HIDE DEF f
<1> QED  BY <1>1, <1>2, <1>3, FirstFaultNone

\* Every part of the check answers "ok" or a reason of CheckFailed, and only the
\* first of them that the leeway is too large.
LEMMA FaultTypes ==
  ASSUME NEW inv \in Payload, NEW proof \in Delegation, NEW expected, NEW root \in BOOLEAN,
         NEW parent, NEW now, NEW leeway
  PROVE  /\ InvocationTimeFault(inv, now, leeway) \in CheckReason \cup {"ok"}
         /\ ProofTimeFault(proof, now, leeway) \in (CheckReason \ {"outOfRange"}) \cup {"ok"}
         /\ LinkFault(inv, proof, expected, root, parent) \in (CheckReason \ {"outOfRange"}) \cup {"ok"}
<1> DEFINE f == [k \in 1..Len(proof.pol) |-> PredicateFault(proof.pol[k], inv.args)]
<1>1. Len(proof.pol) \in Nat /\ DOMAIN f = 1..Len(proof.pol)
  BY DEF Delegation
<1>2. \A k \in 1..Len(proof.pol) : f[k] \in (CheckReason \ {"outOfRange"}) \cup {"ok"}
  BY DEF PredicateFault, CheckReason
<1>3. PolicyFault(proof.pol, inv.args) = FirstFault(f)
  BY DEF PolicyFault
<1>4. PolicyFault(proof.pol, inv.args) \in (CheckReason \ {"outOfRange"}) \cup {"ok"}
  <2> HIDE DEF f
  <2> QED  BY <1>1, <1>2, <1>3, FirstFaultSome
<1> QED  BY <1>4 DEF InvocationTimeFault, ProofTimeFault, LinkFault, CheckReason

\* The chain loop over the whole array, and the look at the invoker after it.
LEMMA SyntaticChecksOk ==
  ASSUME NEW inv \in Payload, NEW proofs \in Seq(Delegation)
  PROVE  SyntaticChecks(inv, proofs) = "ok" <=> Linked(inv, proofs) /\ Granted(inv, proofs)
<1> DEFINE f == LinkFaults(inv, proofs)
           n == Len(proofs)
           link(i) == /\ proofs[i].iss = ExpectedIssuer(inv, proofs, i)
                      /\ i = 1 => proofs[i].sub = inv.sub
           grant(i) == /\ proofs[i].sub \in {AnySubject, inv.sub}
                       /\ i > 1 => StartsWith(proofs[i].cmd, proofs[i-1].cmd)
                       /\ StartsWith(inv.cmd, proofs[i].cmd)
                       /\ \A k \in 1..Len(proofs[i].pol) :
                            RunPredicate(proofs[i].pol[k], inv.args) = "true"
<1>1. n \in Nat /\ DOMAIN f = 1..n
  BY DEF LinkFaults
<1>2. FirstFault(f) = "ok" <=> \A i \in 1..n : f[i] = "ok"
  <2> HIDE DEF f
  <2> QED  BY <1>1, FirstFaultNone
<1>3. ASSUME NEW i \in 1..n
      PROVE  f[i] = "ok" <=> link(i) /\ grant(i)
  <2>1. /\ proofs[i] \in Delegation
        /\ proofs[i].pol \in Seq(Predicate)
        /\ inv.args \in Arguments /\ inv.sub \in Did
    BY ProofFields DEF Payload
  <2>2. f[i] = LinkFault(inv, proofs[i], ExpectedIssuer(inv, proofs, i), i = 1,
                         ParentCommand(proofs, i))
    BY DEF LinkFaults
  <2>3. PolicyFault(proofs[i].pol, inv.args) = "ok" <=>
          \A k \in 1..Len(proofs[i].pol) : RunPredicate(proofs[i].pol[k], inv.args) = "true"
    BY <2>1, PolicyFaultOk
  <2>4. i # 1 => ParentCommand(proofs, i) = proofs[i-1].cmd
    BY DEF ParentCommand
  <2>5. i > 1 <=> i # 1
    OBVIOUS
  <2> QED  BY <2>1, <2>2, <2>3, <2>4, <2>5, SubjectAssumption DEF LinkFault, SubjectAllows
<1>4. SyntaticChecks(inv, proofs) = "ok" <=>
        FirstFault(f) = "ok" /\ inv.iss = ExpectedIssuer(inv, proofs, n + 1)
  BY DEF SyntaticChecks
<1>5. Granted(inv, proofs) <=> \A i \in 1..n : grant(i)
  <2>1. (\A i \in 1..n-1 : StartsWith(proofs[i+1].cmd, proofs[i].cmd)) <=>
        (\A i \in 1..n : i > 1 => StartsWith(proofs[i].cmd, proofs[i-1].cmd))
    <3>1. ASSUME \A i \in 1..n : i > 1 => StartsWith(proofs[i].cmd, proofs[i-1].cmd),
                 NEW i \in 1..n-1
          PROVE  StartsWith(proofs[i+1].cmd, proofs[i].cmd)
      <4>1. i + 1 \in 1..n /\ i + 1 > 1 /\ (i + 1) - 1 = i
        BY <1>1
      <4> QED  BY <3>1, <4>1
    <3>2. ASSUME \A i \in 1..n-1 : StartsWith(proofs[i+1].cmd, proofs[i].cmd),
                 NEW i \in 1..n, i > 1
          PROVE  StartsWith(proofs[i].cmd, proofs[i-1].cmd)
      <4>1. i - 1 \in 1..n-1 /\ (i - 1) + 1 = i
        BY <1>1, <3>2
      <4> QED  BY <3>2, <4>1
    <3> QED  BY <3>1, <3>2
  <2> QED  BY <2>1 DEF Granted
<1>6. Linked(inv, proofs) <=>
        (\A i \in 1..n : link(i)) /\ inv.iss = ExpectedIssuer(inv, proofs, n + 1)
  <2>1. CASE proofs = <<>>
    BY <2>1 DEF Linked, ExpectedIssuer
  <2>2. CASE proofs # <<>>
    <3>1. n >= 1
      BY <1>1, <2>2, EmptySeq
    <3>2. ExpectedIssuer(inv, proofs, n + 1) = proofs[n].aud
      BY <1>1, <3>1 DEF ExpectedIssuer
    <3>3. (\A i \in 1..n : link(i)) <=>
            /\ proofs[1].iss = inv.sub /\ proofs[1].sub = inv.sub
            /\ \A i \in 1..n-1 : proofs[i].aud = proofs[i+1].iss
      <4>1. ASSUME \A i \in 1..n : link(i)
            PROVE  /\ proofs[1].iss = inv.sub /\ proofs[1].sub = inv.sub
                   /\ \A i \in 1..n-1 : proofs[i].aud = proofs[i+1].iss
        <5>1. link(1)
          BY <3>1, <4>1
        <5>2. ASSUME NEW i \in 1..n-1  PROVE proofs[i].aud = proofs[i+1].iss
          <6>1. i + 1 \in 1..n /\ i + 1 # 1 /\ (i + 1) - 1 = i
            BY <1>1
          <6> QED  BY <4>1, <6>1 DEF ExpectedIssuer
        <5> QED  BY <5>1, <5>2 DEF ExpectedIssuer
      <4>2. ASSUME proofs[1].iss = inv.sub, proofs[1].sub = inv.sub,
                   \A i \in 1..n-1 : proofs[i].aud = proofs[i+1].iss,
                   NEW i \in 1..n
            PROVE  link(i)
        <5>1. CASE i = 1
          BY <4>2, <5>1 DEF ExpectedIssuer
        <5>2. CASE i # 1
          <6>1. i - 1 \in 1..n-1 /\ (i - 1) + 1 = i
            BY <1>1, <5>2
          <6> QED  BY <4>2, <5>2, <6>1 DEF ExpectedIssuer
        <5> QED  BY <5>1, <5>2
      <4> QED  BY <4>1, <4>2
    <3> QED  BY <2>2, <3>2, <3>3 DEF Linked
  <2> QED  BY <2>1, <2>2
<1> HIDE DEF f, n, link, grant
<1> QED  BY <1>2, <1>3, <1>4, <1>5, <1>6

\* checkResolved throws reasons of its own only, and OutOfRangeError only for a
\* leeway that is too large.
LEMMA CheckResolvedType ==
  ASSUME NEW inv \in Payload, NEW proofs \in Seq(Delegation), NEW now, NEW leeway
  PROVE  /\ CheckResolved(inv, proofs, now, leeway) \in CheckReason \cup {"ok"}
         /\ CheckResolved(inv, proofs, now, leeway) = "outOfRange" => ShiftOverflows(now, leeway)
<1> DEFINE times == ProofTimeFaults(proofs, now, leeway)
           links == LinkFaults(inv, proofs)
<1>1. /\ Len(proofs) \in Nat
      /\ DOMAIN times = 1..Len(proofs) /\ DOMAIN links = 1..Len(proofs)
  BY DEF ProofTimeFaults, LinkFaults
<1>2. ASSUME NEW i \in 1..Len(proofs)
      PROVE  /\ times[i] \in (CheckReason \ {"outOfRange"}) \cup {"ok"}
             /\ links[i] \in (CheckReason \ {"outOfRange"}) \cup {"ok"}
  <2>1. proofs[i] \in Delegation
    BY ProofFields
  <2> DEFINE expected == ExpectedIssuer(inv, proofs, i)
             root == i = 1
             parent == ParentCommand(proofs, i)
  <2>2. times[i] = ProofTimeFault(proofs[i], now, leeway)
    BY DEF ProofTimeFaults
  <2>3. links[i] = LinkFault(inv, proofs[i], expected, root, parent)
    BY DEF LinkFaults
  <2>4. root \in BOOLEAN
    OBVIOUS
  <2> HIDE DEF times, links, expected, root, parent
  <2>5. /\ ProofTimeFault(proofs[i], now, leeway) \in (CheckReason \ {"outOfRange"}) \cup {"ok"}
        /\ LinkFault(inv, proofs[i], expected, root, parent)
             \in (CheckReason \ {"outOfRange"}) \cup {"ok"}
    BY <2>1, <2>4, FaultTypes
  <2> QED  BY <2>2, <2>3, <2>5
<1> HIDE DEF times, links
<1>3. /\ FirstFault(times) \in (CheckReason \ {"outOfRange"}) \cup {"ok"}
      /\ FirstFault(links) \in (CheckReason \ {"outOfRange"}) \cup {"ok"}
  BY <1>1, <1>2, FirstFaultSome
<1>4. /\ TimeBoundChecks(inv, proofs, now, leeway) \in CheckReason \cup {"ok"}
      /\ TimeBoundChecks(inv, proofs, now, leeway) = "outOfRange" => ShiftOverflows(now, leeway)
  BY <1>3 DEF TimeBoundChecks, InvocationTimeFault, CheckReason, times
<1>5. SyntaticChecks(inv, proofs) \in (CheckReason \ {"outOfRange"}) \cup {"ok"}
  BY <1>3 DEF SyntaticChecks, CheckReason, links
<1> QED  BY <1>4, <1>5 DEF CheckResolved

\* checkResolved returns exactly for the chains that carry the subject's
\* authority to the invoker in time, unless the leeway reaches past the last
\* timestamp.
THEOREM CheckResolvedOk ==
  ASSUME NEW inv \in Payload, NEW proofs \in Seq(Delegation),
         NEW now \in Nat, NEW leeway \in Nat
  PROVE  CheckResolved(inv, proofs, now, leeway) = "ok"
           <=> Authorized(inv, proofs, now, leeway) /\ ~ShiftOverflows(now, leeway)
BY TimeBoundChecksOk, SyntaticChecksOk DEF CheckResolved, Authorized
=============================================================================
