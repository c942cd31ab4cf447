---------------------------- MODULE VerifyProofs ----------------------------
(***************************************************************************)
(* verifyInvocation, for any number of calls, tokens and records: what a   *)
(* call knows at each await (CallInv) and what the replay store knows of   *)
(* the calls (ReplayInv), and that these make its promises hold.           *)
(*                                                                         *)
(* Then the REST service, for any number of concurrent requests and        *)
(* whatever proofs they bring: its requests are calls of verifyInvocation  *)
(* on the Map stores, so what is established of calls holds of them, and   *)
(* what each note remembers of its call (NoteInv) carries it over to the   *)
(* notes.  The theorems about calls do not mention the service.            *)
(***************************************************************************)
EXTENDS RestService, ChainProofs, FiniteSetTheorems


\* The call is past checkResolved, and has not been refused since.
Passed(c) == pc[c] \in {"lookup", "looked", "claim"} \/ verdict[c] \in {"ok", "claimError"}

\* The call has looked at every revocation it has to look at.
Cleared(c) == pc[c] = "claim" \/ verdict[c] \in {"ok", "claimError"}

\* No revocation known when the call began takes the proof at k away.
Standing(c, k) ==
  \A r \in Heeded(began[c].revocations) :
    ~(ValidRevocation(Prfs(c)[k], r) /\ AncestorIssued(Prfs(c), k, r))

BeganInv(c) ==
  /\ pc[c] = "idle" => args[c] = Idle
  /\ pc[c] # "idle" => began[c].revocations \subseteq revocations /\ began[c].clock <= clock

EvidenceInv(c) ==
  /\ pc[c] \in {"getAll", "fetched"} =>
       Inv[args[c].inv].seal = "verifies" /\ Inv[args[c].inv].aud = args[c].executor
  /\ Passed(c) =>
       /\ fetched[c] = Prfs(c)
       /\ Genuine(args[c].inv, args[c].executor)
       /\ \E t \in Instants(c) : AuthorizedAt(args[c].inv, t, args[c].leeway)

RevocationInv(c) ==
  /\ pc[c] \in {"idle", "getAll", "fetched"} => at[c] = 1
  /\ pc[c] \in {"lookup", "looked"} => \A k \in 1..at[c]-1 : Standing(c, k)
  /\ pc[c] = "looked" =>
       /\ \A r \in began[c].revocations : Rev[r].target = Prfs(c)[at[c]] => r \in found[c]
       /\ CustomStores \/ \A r \in found[c] : r \in revocations /\ Rev[r].decodes
  /\ Cleared(c) /\ args[c].revoking => \A k \in 1..Len(Prfs(c)) : Standing(c, k)
  /\ verdict[c] = "revoked" =>
       RevokedBy(args[c].inv, Heeded(IF CustomStores THEN found[c] ELSE revocations))

CallInv(c) == BeganInv(c) /\ EvidenceInv(c) /\ RevocationInv(c)

ReplayInv ==
  /\ \A c \in Call : verdict[c] = "ok" => args[c].inv \in seen
  /\ AcceptedOnce /\ RejectionBurnsNothing /\ ReplayMeansClaimed

IInv == TypeOK /\ (\A c \in Call : CallInv(c)) /\ ReplayInv

\* The part of the state that belongs to call c.
CallState(c) == <<pc[c], verdict[c], args[c], fetched[c], at[c], found[c], began[c]>>

----------------------------------------------------------------------------
(* Typing                                                                  *)

\* A call that began has parameters, and its invocation names proofs.
LEMMA CallFields ==
  ASSUME TypeOK, NEW c \in Call, pc[c] # "idle"
  PROVE  /\ args[c] \in Options
         /\ args[c].inv \in InvCid /\ args[c].executor \in Did
         /\ args[c].now \in Nat \cup {NoNow} /\ args[c].leeway \in Nat
         /\ args[c].revoking \in BOOLEAN
         /\ Inv[args[c].inv] \in Payload
         /\ Prfs(c) \in Seq(DlgCid) /\ Len(Prfs(c)) \in Nat
<1>1. args[c] \in Options
  BY DEF TypeOK
<1>2. args[c] \in OptionsType
  BY <1>1, VerifyAssumption
<1>3. /\ args[c].inv \in InvCid /\ args[c].executor \in Did
      /\ args[c].now \in Nat \cup {NoNow} /\ args[c].leeway \in Nat
      /\ args[c].revoking \in BOOLEAN
  BY <1>2 DEF OptionsType
<1>4. Inv[args[c].inv] \in Payload /\ Prf[args[c].inv] \in Seq(DlgCid)
  BY <1>3, EvidenceAssumption
<1>5. Prfs(c) \in Seq(DlgCid) /\ Len(Prfs(c)) \in Nat
  BY <1>4 DEF Prfs
<1> QED  BY <1>1, <1>3, <1>4, <1>5

\* Resolving a sequence of CIDs gives a sequence of delegations.
LEMMA ResolveType ==
  ASSUME NEW cids \in Seq(DlgCid)
  PROVE  /\ Resolve(cids) \in Seq(Delegation)
         /\ Len(Resolve(cids)) = Len(cids)
<1>1. \A k \in 1..Len(cids) : cids[k] \in DlgCid
  BY ElementOfSeq
<1>2. \A k \in 1..Len(cids) : Dlg[cids[k]] \in Delegation
  BY <1>1, EvidenceAssumption
<1> QED  BY <1>2 DEF Resolve

\* A call whose state does not change keeps its invariant while revocations
\* arrive and the clock moves.
LEMMA Frame ==
  ASSUME NEW c \in Call, CallInv(c), UNCHANGED CallState(c),
         revocations \subseteq revocations', clock \in Nat, clock' \in Nat, clock <= clock',
         began[c].clock \in Nat
  PROVE  CallInv(c)'
<1>1. /\ pc'[c] = pc[c] /\ verdict'[c] = verdict[c] /\ args'[c] = args[c]
      /\ fetched'[c] = fetched[c] /\ at'[c] = at[c] /\ found'[c] = found[c]
      /\ began'[c] = began[c]
  BY DEF CallState
<1>2. Prfs(c)' = Prfs(c) /\ Passed(c)' = Passed(c) /\ Cleared(c)' = Cleared(c)
  BY <1>1 DEF Prfs, Passed, Cleared
<1>3. \A t \in Instants(c) : t \in Instants(c)'
  BY <1>1 DEF Instants
<1>4. BeganInv(c)'
  BY <1>1 DEF CallInv, BeganInv
<1>5. EvidenceInv(c)'
  BY <1>1, <1>2, <1>3 DEF CallInv, EvidenceInv
<1>6. RevocationInv(c)'
  <2>1. \A k : Standing(c, k) => Standing(c, k)'
    BY <1>1, <1>2 DEF Standing
  <2>2. verdict[c] = "revoked" =>
          RevokedBy(args[c].inv, Heeded(IF CustomStores THEN found[c] ELSE revocations'))
    BY DEF CallInv, RevocationInv, RevokedBy, Heeded
  <2> QED  BY <1>1, <1>2, <2>1, <2>2 DEF CallInv, RevocationInv
<1> QED  BY <1>4, <1>5, <1>6 DEF CallInv

\* A step that touches the state of one call only keeps the invariant of the
\* others.
LEMMA LocalStep ==
  ASSUME IInv, NEW c \in Call, TypeOK', CallInv(c)', ReplayInv',
         UNCHANGED <<revocations, clock>>, \A d \in Call \ {c} : UNCHANGED CallState(d)
  PROVE  IInv'
<1>1. ASSUME NEW d \in Call \ {c}  PROVE CallInv(d)'
  <2>1. clock \in Nat /\ began[d].clock \in Nat
    BY DEF IInv, TypeOK
  <2> QED  BY <2>1, Frame DEF IInv
<1> QED  BY <1>1 DEF IInv

\* So does one that settles no claim keep what is known of the claims.
LEMMA ReplayFrame ==
  ASSUME TypeOK, ReplayInv, NEW c \in Call, verdict[c] = "none", seen' = seen,
         verdict'[c] \notin {"ok", "replay", "claimError"},
         \A d \in Call \ {c} : verdict'[d] = verdict[d] /\ args'[d] = args[d]
  PROVE  ReplayInv'
<1>1. (\A d \in Call : verdict[d] = "ok" => args[d].inv \in seen)'
  BY DEF ReplayInv
<1>2. AcceptedOnce'
  BY DEF ReplayInv, AcceptedOnce, Accepted
<1>3. RejectionBurnsNothing'
  <2>1. ASSUME NEW inv \in seen
        PROVE  \E d \in Call : verdict'[d] \in {"ok", "claimError"} /\ args'[d].inv = inv
    <3>1. PICK d \in Call : verdict[d] \in {"ok", "claimError"} /\ args[d].inv = inv
      BY DEF ReplayInv, RejectionBurnsNothing
    <3>2. d # c
      BY <3>1
    <3> QED  BY <3>1, <3>2
  <2> QED  BY <2>1 DEF RejectionBurnsNothing
<1>4. ReplayMeansClaimed'
  <2>1. ASSUME NEW d \in Call, verdict'[d] = "replay"
        PROVE  \E e \in Call \ {d} :
                 verdict'[e] \in {"ok", "claimError"} /\ args'[e].inv = args'[d].inv
    <3>1. d # c /\ verdict[d] = "replay" /\ args'[d] = args[d]
      BY <2>1
    <3>2. PICK e \in Call \ {d} : verdict[e] \in {"ok", "claimError"} /\ args[e].inv = args[d].inv
      BY <3>1 DEF ReplayInv, ReplayMeansClaimed
    <3>3. e # c
      BY <3>2
    <3> QED  BY <3>1, <3>2, <3>3
  <2> QED  BY <2>1 DEF ReplayMeansClaimed
<1> QED  BY <1>1, <1>2, <1>3, <1>4 DEF ReplayInv

----------------------------------------------------------------------------
(* What the checks of a call establish                                     *)

\* The loop over the fetched proofs refuses with one of three reasons, and
\* passes only the delegations that were asked for, all of them signed.
LEMMA ProofFaultOk ==
  ASSUME NEW cids \in Seq(DlgCid), NEW answer \in Seq(DlgCid)
  PROVE  /\ ProofFault(cids, answer) \in
              {"ok", "proofCountMismatch", "proofCidMismatch", "invalidProofSignature"}
         /\ ProofFault(cids, answer) = "ok" =>
              answer = cids /\ \A k \in 1..Len(cids) : Dlg[cids[k]].seal = "verifies"
<1> DEFINE At(k) == IF Dlg[answer[k]].seal = "undecodable" THEN "invalidProofSignature"
                    ELSE IF answer[k] # cids[k] THEN "proofCidMismatch"
                    ELSE IF Dlg[answer[k]].seal = "forged" THEN "invalidProofSignature"
                    ELSE "ok"
           f == [k \in 1..Len(cids) |-> At(k)]
<1>1. Len(cids) \in Nat /\ Len(answer) \in Nat /\ DOMAIN f = 1..Len(cids)
  OBVIOUS
<1>2. ProofFault(cids, answer) =
        IF Len(answer) # Len(cids) THEN "proofCountMismatch" ELSE FirstFault(f)
  BY DEF ProofFault
<1>3. \A k \in 1..Len(cids) : f[k] = At(k)
  OBVIOUS
<1>4. \A k \in 1..Len(cids) : f[k] \in {"ok", "proofCidMismatch", "invalidProofSignature"}
  BY <1>3
<1>5. ASSUME NEW k \in 1..Len(cids), f[k] = "ok"
      PROVE  answer[k] = cids[k] /\ Dlg[cids[k]].seal = "verifies"
  <2>1. cids[k] \in DlgCid
    BY ElementOfSeq
  <2>2. Dlg[cids[k]].seal \in Seal
    BY <2>1, EvidenceAssumption DEF Delegation
  <2>3. At(k) = "ok"
    BY <1>3, <1>5
  <2>4. answer[k] = cids[k]
    BY <2>3
  <2> QED  BY <2>2, <2>3, <2>4 DEF Seal
<1> HIDE DEF f, At
<1>6. FirstFault(f) \in {"ok", "proofCidMismatch", "invalidProofSignature"}
  BY <1>1, <1>4, FirstFaultSome
<1>7. ASSUME Len(answer) = Len(cids), FirstFault(f) = "ok"
      PROVE  answer = cids /\ \A k \in 1..Len(cids) : Dlg[cids[k]].seal = "verifies"
  <2>1. \A k \in 1..Len(cids) : f[k] = "ok"
    BY <1>1, <1>7, FirstFaultNone
  <2>2. \A k \in 1..Len(cids) : answer[k] = cids[k] /\ Dlg[cids[k]].seal = "verifies"
    BY <1>5, <2>1
  <2>3. answer = cids
    BY <1>7, <2>2, SeqEqual
  <2> QED  BY <2>2, <2>3
<1> QED  BY <1>2, <1>6, <1>7

----------------------------------------------------------------------------
(* The steps of a call                                                     *)

\* What a step has to show of types when it touches one call only.
LEMMA TypeStep ==
  ASSUME TypeOK, NEW c \in Call, UNCHANGED <<delegations, revocations, clock, options>>,
         seen' \subseteq InvCid,
         NEW where \in {"getAll", "fetched", "lookup", "looked", "claim", "done"},
         NEW outcome \in Outcome \cup {"none"}, outcome # "none" <=> where = "done",
         pc' = [pc EXCEPT ![c] = where], verdict' = [verdict EXCEPT ![c] = outcome],
         args' \in [Call -> Options \cup {Idle}], fetched' \in [Call -> Seq(DlgCid)],
         found' \in [Call -> SUBSET RevCid], at' \in [Call -> Nat \ {0}],
         began' \in [Call -> [revocations : SUBSET RevCid, clock : Nat]],
         args'[c] # Idle, where \in {"lookup", "looked"} => at'[c] <= Len(Prfs(c)'),
         \A d \in Call \ {c} : args'[d] = args[d] /\ at'[d] = at[d]
  PROVE  TypeOK'
<1>1. /\ pc'[c] = where /\ verdict'[c] = outcome
      /\ \A d \in Call \ {c} : pc'[d] = pc[d] /\ verdict'[d] = verdict[d]
  BY DEF TypeOK
<1>2. (\A d \in Call : pc[d] # "idle" => args[d] # Idle)'
  BY <1>1 DEF TypeOK
<1>3. (\A d \in Call : pc[d] \in {"lookup", "looked"} => at[d] <= Len(Prfs(d)))'
  BY <1>1 DEF TypeOK, Prfs
<1>4. (\A d \in Call : verdict[d] # "none" <=> pc[d] = "done")'
  BY <1>1 DEF TypeOK
<1>5. /\ pc' \in [Call -> {"idle", "getAll", "fetched", "lookup", "looked", "claim", "done"}]
      /\ verdict' \in [Call -> Outcome \cup {"none"}]
  BY DEF TypeOK
<1> QED  BY <1>2, <1>3, <1>4, <1>5 DEF TypeOK

\* Begin
LEMMA BeginStep ==
  ASSUME IInv, NEW c \in Call, Begin(c)
  PROVE  IInv'
<1> USE DEF IInv
<1> DEFINE o == options[c]
<1>1. /\ o \in Options /\ o.inv \in InvCid /\ o # Idle
      /\ args'[c] = o /\ began'[c] = [revocations |-> revocations, clock |-> clock]
      /\ fetched' = fetched /\ at' = at /\ found' = found /\ seen' = seen
      /\ at[c] = 1 /\ verdict[c] = "none"
  BY VerifyAssumption DEF Begin, TypeOK, OptionsType, CallInv, RevocationInv, stores
<1>2. \/ /\ pc'[c] = "getAll" /\ verdict'[c] = "none"
         /\ Inv[o.inv].seal = "verifies" /\ Inv[o.inv].aud = o.executor
      \/ pc'[c] = "done" /\ verdict'[c] \in {"invalidInvocationSignature", "audienceMismatch"}
  BY DEF Begin, TypeOK, Settle, Suspend
<1>3. UNCHANGED <<revocations, clock>> /\ \A d \in Call \ {c} : UNCHANGED CallState(d)
  BY DEF Begin, TypeOK, Settle, Suspend, CallState, stores
<1>4. TypeOK'
  <2>1. PICK where, outcome :
          /\ where \in {"getAll", "done"} /\ outcome \in Outcome \cup {"none"}
          /\ outcome # "none" <=> where = "done"
          /\ pc' = [pc EXCEPT ![c] = where] /\ verdict' = [verdict EXCEPT ![c] = outcome]
    <3>1. verdict = [verdict EXCEPT ![c] = "none"]
      BY <1>1 DEF TypeOK
    <3> QED  BY <3>1 DEF Begin, Settle, Suspend, Outcome, VerifyReason
  <2>2. /\ args' \in [Call -> Options \cup {Idle}] /\ fetched' \in [Call -> Seq(DlgCid)]
        /\ found' \in [Call -> SUBSET RevCid] /\ at' \in [Call -> Nat \ {0}]
        /\ began' \in [Call -> [revocations : SUBSET RevCid, clock : Nat]]
        /\ seen' \subseteq InvCid
        /\ \A d \in Call \ {c} : args'[d] = args[d] /\ at'[d] = at[d]
    BY <1>1 DEF Begin, TypeOK
  <2>3. UNCHANGED <<delegations, revocations, clock, options>>
    BY DEF Begin, stores
  <2> HIDE DEF IInv, o
  <2> QED  BY <1>1, <2>1, <2>2, <2>3, TypeStep DEF IInv
<1>5. CallInv(c)'
  <2>1. ~Passed(c)' /\ ~Cleared(c)'
    BY <1>2 DEF Passed, Cleared
  <2>2. BeganInv(c)'
    BY <1>1, <1>2, <1>3 DEF BeganInv, TypeOK
  <2>3. EvidenceInv(c)'
    BY <1>1, <1>2, <2>1 DEF EvidenceInv
  <2>4. RevocationInv(c)'
    BY <1>1, <1>2, <2>1 DEF RevocationInv
  <2> QED  BY <2>2, <2>3, <2>4 DEF CallInv
<1>6. ReplayInv'
  <2>1. \A d \in Call \ {c} : verdict'[d] = verdict[d] /\ args'[d] = args[d]
    BY <1>3 DEF CallState
  <2> QED  BY <1>1, <1>2, <2>1, ReplayFrame
<1> QED  BY <1>3, <1>4, <1>5, <1>6, LocalStep

\* What a call that resumes has to show: it reads its parameters no more, and
\* what it found in the stores when it began does not change.
LEMMA ResumeStep ==
  ASSUME IInv, NEW c \in Call, pc[c] \notin {"idle", "done"},
         UNCHANGED <<delegations, revocations, clock, options, args, began>>,
         NEW where \in {"fetched", "lookup", "looked", "claim", "done"},
         NEW outcome \in Outcome \cup {"none"}, outcome # "none" <=> where = "done",
         pc' = [pc EXCEPT ![c] = where], verdict' = [verdict EXCEPT ![c] = outcome],
         fetched' \in [Call -> Seq(DlgCid)], found' \in [Call -> SUBSET RevCid],
         at' \in [Call -> Nat \ {0}], seen' \subseteq InvCid,
         \A d \in Call \ {c} : fetched'[d] = fetched[d] /\ found'[d] = found[d] /\ at'[d] = at[d],
         where \in {"lookup", "looked"} => at'[c] <= Len(Prfs(c))
  PROVE  /\ pc'[c] = where /\ verdict'[c] = outcome /\ verdict[c] = "none"
         /\ Prfs(c)' = Prfs(c) /\ Instants(c)' = Instants(c)
         /\ \A k : Standing(c, k)' <=> Standing(c, k)
         /\ \A d \in Call \ {c} : verdict'[d] = verdict[d]
         /\ outcome \notin {"ok", "replay", "claimError"} /\ seen' = seen => ReplayInv'
         /\ EvidenceInv(c)' /\ RevocationInv(c)' /\ ReplayInv' => IInv'
<1>1. /\ pc'[c] = where /\ verdict'[c] = outcome /\ verdict[c] = "none"
      /\ \A d \in Call \ {c} : pc'[d] = pc[d] /\ verdict'[d] = verdict[d]
      /\ args[c] # Idle
  BY DEF IInv, TypeOK
<1>2. Prfs(c)' = Prfs(c) /\ Instants(c)' = Instants(c) /\ \A k : Standing(c, k)' <=> Standing(c, k)
  BY DEF Prfs, Instants, Standing
<1>3. /\ args \in [Call -> Options \cup {Idle}]
      /\ began \in [Call -> [revocations : SUBSET RevCid, clock : Nat]]
      /\ TypeOK
  BY DEF IInv, TypeOK
<1>4. TypeOK'
  BY <1>1, <1>2, <1>3, TypeStep
<1>5. BeganInv(c)'
  BY <1>1 DEF IInv, CallInv, BeganInv
<1>6. \A d \in Call \ {c} : UNCHANGED CallState(d)
  BY <1>1 DEF CallState
<1>7. ASSUME outcome \notin {"ok", "replay", "claimError"}, seen' = seen
      PROVE  ReplayInv'
  BY <1>1, <1>7, ReplayFrame DEF IInv
<1>8. ASSUME EvidenceInv(c)', RevocationInv(c)', ReplayInv'
      PROVE  IInv'
  BY <1>4, <1>5, <1>6, <1>8, LocalStep DEF CallInv
<1> QED  BY <1>1, <1>2, <1>7, <1>8

\* A call that settles with a refusal establishes nothing, unless it is for a
\* revocation.
LEMMA Refused ==
  ASSUME NEW c \in Call, pc'[c] = "done", verdict'[c] \notin {"none", "ok", "claimError", "revoked"}
  PROVE  EvidenceInv(c)' /\ RevocationInv(c)'
BY DEF EvidenceInv, RevocationInv, Passed, Cleared

\* GetAllAnswers and CustomGetAllAnswers: nothing is known of an answer.
LEMMA GetAllStep ==
  ASSUME IInv, NEW c \in Call, GetAllAnswers(c) \/ CustomGetAllAnswers(c)
  PROVE  IInv'
<1>1. /\ pc[c] = "getAll" /\ seen' = seen /\ found' = found /\ at' = at
      /\ UNCHANGED <<delegations, revocations, clock, options, args, began>>
  BY DEF GetAllAnswers, CustomGetAllAnswers, stores
<1>2. /\ verdict = [verdict EXCEPT ![c] = "none"] /\ at[c] = 1
      /\ seen' \subseteq InvCid /\ found' \in [Call -> SUBSET RevCid]
      /\ at' \in [Call -> Nat \ {0}]
  BY <1>1 DEF IInv, TypeOK, CallInv, RevocationInv
<1>3. PICK where, outcome :
        /\ <<where, outcome>> \in {<<"fetched", "none">>, <<"done", "getError">>}
        /\ pc' = [pc EXCEPT ![c] = where] /\ verdict' = [verdict EXCEPT ![c] = outcome]
  <2>1. \/ Suspend(c, "fetched") \/ Settle(c, "getError")
    BY DEF GetAllAnswers, CustomGetAllAnswers
  <2>2. Suspend(c, "fetched") =>
          pc' = [pc EXCEPT ![c] = "fetched"] /\ verdict' = [verdict EXCEPT ![c] = "none"]
    BY <1>2 DEF Suspend
  <2>3. Settle(c, "getError") =>
          pc' = [pc EXCEPT ![c] = "done"] /\ verdict' = [verdict EXCEPT ![c] = "getError"]
    BY DEF Settle
  <2> QED  BY <2>1, <2>2, <2>3
<1>4. /\ fetched' \in [Call -> Seq(DlgCid)]
      /\ \A d \in Call \ {c} : fetched'[d] = fetched[d]
  <2>1. CASE fetched' = fetched
    BY <2>1 DEF IInv, TypeOK
  <2>2. CASE \E answer \in Seq(DlgCid) : fetched' = [fetched EXCEPT ![c] = answer]
    BY <2>2 DEF IInv, TypeOK
  <2>3. CASE GetAllAnswers(c) /\ fetched' # fetched
    <3> DEFINE answer == [k \in 1..Len(Prfs(c)) |-> delegations[Prfs(c)[k]]]
    <3>1. Prfs(c) \in Seq(DlgCid) /\ Len(Prfs(c)) \in Nat
      BY <1>1, CallFields DEF IInv
    <3>2. \A k \in 1..Len(Prfs(c)) : Prfs(c)[k] \in DlgCid
      BY <3>1, ElementOfSeq
    <3>3. \A k \in 1..Len(Prfs(c)) : delegations[Prfs(c)[k]] # NoDelegation
      BY <2>3 DEF GetAllAnswers
    <3>4. \A k \in 1..Len(Prfs(c)) : delegations[Prfs(c)[k]] \in DlgCid
      BY <3>2, <3>3 DEF IInv, TypeOK
    <3>5. answer \in Seq(DlgCid)
      BY <3>1, <3>4
    <3>6. fetched' = [fetched EXCEPT ![c] = answer]
      BY <2>3 DEF GetAllAnswers
    <3> QED  BY <2>2, <3>5, <3>6
  <2>4. CASE CustomGetAllAnswers(c) /\ fetched' # fetched
    <3>1. PICK n \in 0..Len(Prfs(c)) + 1 : \E answer \in [1..n -> DlgCid] :
            fetched' = [fetched EXCEPT ![c] = answer]
      BY <2>4 DEF CustomGetAllAnswers
    <3>2. Len(Prfs(c)) \in Nat
      BY <1>1, CallFields DEF IInv
    <3>3. n \in Nat
      BY <3>2
    <3>4. \A answer \in [1..n -> DlgCid] : answer \in Seq(DlgCid)
      BY <3>3
    <3> QED  BY <2>2, <3>1, <3>4
  <2> QED  BY <2>1, <2>3, <2>4
<1>5. /\ outcome \in Outcome \cup {"none"} /\ (outcome # "none" <=> where = "done")
      /\ where \in {"fetched", "done"} /\ outcome \notin {"ok", "replay", "claimError"}
  BY <1>3 DEF Outcome, VerifyReason
<1>6. /\ pc'[c] = where /\ verdict'[c] = outcome
      /\ ReplayInv' /\ (EvidenceInv(c)' /\ RevocationInv(c)' => IInv')
  <2>1. pc[c] \notin {"idle", "done"} /\ where \in {"fetched", "lookup", "looked", "claim", "done"}
    BY <1>1, <1>5
  <2>2. \A d \in Call \ {c} : fetched'[d] = fetched[d] /\ found'[d] = found[d] /\ at'[d] = at[d]
    BY <1>1, <1>4
  <2>3. where \in {"lookup", "looked"} => at'[c] <= Len(Prfs(c))
    BY <1>5
  <2>4. UNCHANGED <<delegations, revocations, clock, options, args, began>> /\ seen' = seen
    BY <1>1
  <2>5. pc' = [pc EXCEPT ![c] = where] /\ verdict' = [verdict EXCEPT ![c] = outcome]
    BY <1>3
  <2>6. /\ fetched' \in [Call -> Seq(DlgCid)] /\ found' \in [Call -> SUBSET RevCid]
        /\ at' \in [Call -> Nat \ {0}] /\ seen' \subseteq InvCid
    BY <1>2, <1>4
  <2>7. pc'[c] = where /\ verdict'[c] = outcome
    BY <2>5 DEF IInv, TypeOK
  <2>8. ReplayInv'
    BY <1>5, <2>1, <2>2, <2>3, <2>4, <2>5, <2>6, ResumeStep
  <2>9. EvidenceInv(c)' /\ RevocationInv(c)' => IInv'
    BY <1>5, <2>1, <2>2, <2>3, <2>4, <2>5, <2>6, <2>8, ResumeStep
  <2> QED  BY <2>7, <2>8, <2>9
<1>7. EvidenceInv(c)' /\ RevocationInv(c)'
  <2>1. CASE where = "fetched"
    BY <1>1, <1>2, <1>3, <1>6, <2>1 DEF IInv, CallInv, EvidenceInv, RevocationInv, Passed, Cleared
  <2>2. CASE where = "done"
    BY <1>3, <1>6, <2>2, Refused
  <2> QED  BY <1>3, <2>1, <2>2
<1> QED  BY <1>6, <1>7

\* CheckProofs: a call that goes on from here has the evidence it needs.
LEMMA CheckStep ==
  ASSUME IInv, NEW c \in Call, CheckProofs(c)
  PROVE  IInv'
<1> DEFINE o == args[c]
           now == Now(o)
           proofFault == ProofFault(Prfs(c), fetched[c])
           checked == CheckResolved(Inv[o.inv], Resolve(fetched[c]), now, o.leeway)
           fault == IF proofFault # "ok" THEN proofFault ELSE checked
           next == IF o.revoking /\ Prfs(c) # <<>> THEN "lookup" ELSE "claim"
<1>1. /\ pc[c] = "fetched"
      /\ UNCHANGED <<delegations, revocations, seen, clock, options, args, fetched, at, found, began>>
      /\ IF fault # "ok" THEN Settle(c, fault) ELSE Suspend(c, next)
  BY DEF CheckProofs, stores, locals
<1>2. /\ verdict = [verdict EXCEPT ![c] = "none"] /\ at[c] = 1
      /\ seen \subseteq InvCid /\ found \in [Call -> SUBSET RevCid]
      /\ at \in [Call -> Nat \ {0}] /\ fetched \in [Call -> Seq(DlgCid)]
      /\ fetched[c] \in Seq(DlgCid) /\ clock \in Nat
      /\ began[c].clock \in Nat /\ began[c].clock <= clock
      /\ Inv[o.inv].seal = "verifies" /\ Inv[o.inv].aud = o.executor
  BY <1>1 DEF IInv, TypeOK, CallInv, RevocationInv, BeganInv, EvidenceInv
<1>3. /\ o.inv \in InvCid /\ o.now \in Nat \cup {NoNow} /\ o.leeway \in Nat
      /\ o.revoking \in BOOLEAN /\ Inv[o.inv] \in Payload
      /\ Prfs(c) \in Seq(DlgCid) /\ Len(Prfs(c)) \in Nat
  BY <1>1, CallFields DEF IInv
<1>4. now \in Nat /\ now \in Instants(c)
  BY <1>2, <1>3 DEF Now, Instants
<1>5. Resolve(fetched[c]) \in Seq(Delegation)
  BY <1>2, ResolveType
<1>6. fault \in ({"ok", "proofCountMismatch", "proofCidMismatch", "invalidProofSignature"}
                \cup CheckReason)
  <2>1. proofFault \in {"ok", "proofCountMismatch", "proofCidMismatch", "invalidProofSignature"}
    BY <1>2, <1>3, ProofFaultOk
  <2> HIDE DEF o, now
  <2>2. checked \in CheckReason \cup {"ok"}
    BY <1>3, <1>5, CheckResolvedType
  <2> HIDE DEF proofFault, checked
  <2> QED  BY <2>1, <2>2
<1>7. ASSUME fault = "ok"
      PROVE  /\ fetched[c] = Prfs(c)
             /\ Genuine(o.inv, o.executor)
             /\ \E t \in Instants(c) : AuthorizedAt(o.inv, t, o.leeway)
  <2>1. proofFault = "ok" /\ checked = "ok"
    BY <1>7
  <2>2. fetched[c] = Prfs(c) /\ \A k \in 1..Len(Prfs(c)) : Dlg[Prfs(c)[k]].seal = "verifies"
    BY <1>2, <1>3, <2>1, ProofFaultOk
  <2>3. Authorized(Inv[o.inv], Resolve(fetched[c]), now, o.leeway)
    <3> HIDE DEF o, now
    <3> QED  BY <1>3, <1>4, <1>5, <2>1, CheckResolvedOk
  <2>4. AuthorizedAt(o.inv, now, o.leeway)
    BY <2>2, <2>3 DEF AuthorizedAt, Prfs
  <2>5. Genuine(o.inv, o.executor)
    BY <1>2, <2>2 DEF Genuine, Prfs
  <2> HIDE DEF now
  <2> QED  BY <1>4, <2>2, <2>4, <2>5
<1> HIDE DEF fault
<1>8. PICK where, outcome :
        /\ \/ where = next /\ outcome = "none" /\ fault = "ok"
           \/ where = "done" /\ outcome = fault /\ fault # "ok"
        /\ pc' = [pc EXCEPT ![c] = where] /\ verdict' = [verdict EXCEPT ![c] = outcome]
  <2> HIDE DEF next
  <2>1. CASE fault = "ok"
    <3>1. pc' = [pc EXCEPT ![c] = next] /\ verdict' = [verdict EXCEPT ![c] = "none"]
      BY <1>1, <1>2, <2>1 DEF Suspend
    <3> QED  BY <2>1, <3>1
  <2>2. CASE fault # "ok"
    <3>1. pc' = [pc EXCEPT ![c] = "done"] /\ verdict' = [verdict EXCEPT ![c] = fault]
      BY <1>1, <2>2 DEF Settle
    <3> QED  BY <2>2, <3>1
  <2> QED  BY <2>1, <2>2
<1>9. /\ where \in {"lookup", "claim", "done"}
      /\ outcome \in Outcome \cup {"none"} /\ (outcome # "none" <=> where = "done")
      /\ outcome \notin {"ok", "replay", "claimError", "revoked"}
      /\ where = "lookup" => at[c] <= Len(Prfs(c))
  <2>1. Prfs(c) # <<>> => 1 <= Len(Prfs(c))
    BY <1>3
  <2> QED  BY <1>2, <1>6, <1>8, <2>1 DEF Outcome, VerifyReason, CheckReason
<1>10. /\ pc'[c] = where /\ verdict'[c] = outcome
       /\ Prfs(c)' = Prfs(c) /\ Instants(c)' = Instants(c)
       /\ ReplayInv' /\ (EvidenceInv(c)' /\ RevocationInv(c)' => IInv')
  <2>1. UNCHANGED <<delegations, revocations, clock, options, args, began>>
    BY <1>1
  <2>2. pc[c] \notin {"idle", "done"}
    BY <1>1
  <2>3. /\ fetched' \in [Call -> Seq(DlgCid)] /\ found' \in [Call -> SUBSET RevCid]
        /\ at' \in [Call -> Nat \ {0}] /\ seen' \subseteq InvCid /\ seen' = seen
        /\ \A d \in Call \ {c} : fetched'[d] = fetched[d] /\ found'[d] = found[d] /\ at'[d] = at[d]
        /\ where \in {"lookup", "looked"} => at'[c] <= Len(Prfs(c))
    BY <1>1, <1>2, <1>9
  <2>4. pc' = [pc EXCEPT ![c] = where] /\ verdict' = [verdict EXCEPT ![c] = outcome]
    BY <1>8
  <2> HIDE DEF o, now, proofFault, checked, next
  <2>5. /\ pc'[c] = where /\ verdict'[c] = outcome
        /\ Prfs(c)' = Prfs(c) /\ Instants(c)' = Instants(c)
    BY <2>1, <2>4 DEF IInv, TypeOK, Prfs, Instants
  <2>6. ReplayInv'
    BY <1>9, <2>1, <2>2, <2>3, <2>4, ResumeStep
  <2>7. EvidenceInv(c)' /\ RevocationInv(c)' => IInv'
    BY <1>9, <2>1, <2>2, <2>3, <2>4, <2>6, ResumeStep
  <2> QED  BY <2>5, <2>6, <2>7
<1>11. EvidenceInv(c)' /\ RevocationInv(c)'
  <2>1. CASE fault = "ok"
    <3>1. EvidenceInv(c)'
      BY <1>1, <1>7, <1>8, <1>9, <1>10, <2>1 DEF EvidenceInv
    <3>2. o.revoking /\ where = "claim" => Len(Prfs(c)) = 0
      BY <1>3, <1>8, <2>1
    <3>3. RevocationInv(c)'
      BY <1>1, <1>2, <1>8, <1>9, <1>10, <2>1, <3>2 DEF RevocationInv, Cleared
    <3> QED  BY <3>1, <3>3
  <2>2. CASE fault # "ok"
    BY <1>8, <1>9, <1>10, <2>2, Refused
  <2> QED  BY <2>1, <2>2
<1> QED  BY <1>10, <1>11

\* LookupAnswers and CustomLookupAnswers: every record known when the call began
\* is still stored, and an answer holds the records of its target.
LEMMA LookupStep ==
  ASSUME IInv, NEW c \in Call, LookupAnswers(c) \/ CustomLookupAnswers(c)
  PROVE  IInv'
<1> DEFINE stored == {r \in revocations : Rev[r].target = Prfs(c)[at[c]]}
           Answered(answer) ==
             /\ stored \subseteq answer /\ answer \subseteq RevCid
             /\ CustomStores \/ (answer = stored /\ \A r \in stored : Rev[r].decodes)
<1>1. /\ pc[c] = "lookup" /\ seen' = seen /\ fetched' = fetched /\ at' = at
      /\ UNCHANGED <<delegations, revocations, clock, options, args, began>>
  BY DEF LookupAnswers, CustomLookupAnswers, stores
<1>2. /\ verdict = [verdict EXCEPT ![c] = "none"]
      /\ seen \subseteq InvCid /\ fetched \in [Call -> Seq(DlgCid)]
      /\ at \in [Call -> Nat \ {0}] /\ at[c] <= Len(Prfs(c))
      /\ revocations \subseteq RevCid /\ found \in [Call -> SUBSET RevCid]
      /\ began[c].revocations \subseteq revocations
  BY <1>1 DEF IInv, TypeOK, CallInv, BeganInv
<1>3. \/ /\ Suspend(c, "looked")
         /\ \E answer : found' = [found EXCEPT ![c] = answer] /\ Answered(answer)
      \/ Settle(c, "lookupError") /\ found' = found
  <2>1. stored \subseteq RevCid
    BY <1>2
  <2>2. CASE LookupAnswers(c)
    <3>1. \/ /\ \A r \in stored : Rev[r].decodes
             /\ Suspend(c, "looked") /\ found' = [found EXCEPT ![c] = stored]
          \/ Settle(c, "lookupError") /\ found' = found
      BY <2>2 DEF LookupAnswers
    <3> HIDE DEF stored
    <3> QED  BY <2>1, <3>1
  <2>3. CASE CustomLookupAnswers(c)
    <3>1. /\ CustomStores
          /\ \/ Settle(c, "lookupError") /\ found' = found
             \/ \E more \in SUBSET RevCid :
                  /\ found' = [found EXCEPT ![c] = stored \cup more]
                  /\ Suspend(c, "looked")
      BY <2>3 DEF CustomLookupAnswers
    <3> HIDE DEF stored
    <3>2. CustomStores
      BY <2>3 DEF CustomLookupAnswers
    <3>3. CASE \E more \in SUBSET RevCid : /\ found' = [found EXCEPT ![c] = stored \cup more]
                                           /\ Suspend(c, "looked")
      <4>1. PICK more \in SUBSET RevCid : /\ found' = [found EXCEPT ![c] = stored \cup more]
                                         /\ Suspend(c, "looked")
        BY <3>3
      <4>2. Answered(stored \cup more)
        <5>1. stored \subseteq stored \cup more /\ stored \cup more \subseteq RevCid
          BY <2>1
        <5> QED  BY <3>2, <5>1
      <4> HIDE DEF Answered
      <4>3. \E answer : found' = [found EXCEPT ![c] = answer] /\ Answered(answer)
        <5> WITNESS stored \cup more
        <5> QED  BY <4>1, <4>2
      <4> QED  BY <4>1, <4>3
    <3> HIDE DEF Answered
    <3> QED  BY <3>1, <3>3
  <2> QED  BY <2>2, <2>3
<1>4. CASE Settle(c, "lookupError") /\ found' = found
  <2>1. /\ pc' = [pc EXCEPT ![c] = "done"] /\ verdict' = [verdict EXCEPT ![c] = "lookupError"]
        /\ "lookupError" \in Outcome
    BY <1>4 DEF Settle, Outcome, VerifyReason
  <2>2. /\ pc'[c] = "done" /\ verdict'[c] = "lookupError"
        /\ ReplayInv' /\ (EvidenceInv(c)' /\ RevocationInv(c)' => IInv')
    BY <1>1, <1>2, <1>4, <2>1, ResumeStep
  <2> QED  BY <2>2, Refused
<1>5. CASE /\ Suspend(c, "looked")
           /\ \E answer : found' = [found EXCEPT ![c] = answer] /\ Answered(answer)
  <2> HIDE DEF stored
  <2>1. PICK answer : found' = [found EXCEPT ![c] = answer] /\ Answered(answer)
    BY <1>5
  <2>2. pc' = [pc EXCEPT ![c] = "looked"] /\ verdict' = [verdict EXCEPT ![c] = "none"]
    BY <1>2, <1>5 DEF Suspend
  <2>3. /\ found' \in [Call -> SUBSET RevCid] /\ found'[c] = answer
        /\ \A d \in Call \ {c} : found'[d] = found[d]
    BY <1>2, <2>1
  <2>4. /\ pc'[c] = "looked" /\ verdict'[c] = "none"
        /\ Prfs(c)' = Prfs(c) /\ Instants(c)' = Instants(c)
        /\ \A k : Standing(c, k)' <=> Standing(c, k)
        /\ ReplayInv' /\ (EvidenceInv(c)' /\ RevocationInv(c)' => IInv')
    BY <1>1, <1>2, <2>2, <2>3, ResumeStep
  <2>5. EvidenceInv(c)'
    BY <1>1, <2>4 DEF IInv, CallInv, EvidenceInv, Passed
  <2>6. RevocationInv(c)'
    <3>1. \A r \in began[c].revocations : Rev[r].target = Prfs(c)[at[c]] => r \in found'[c]
      BY <1>2, <2>1, <2>3 DEF stored
    <3>2. CustomStores \/ \A r \in found'[c] : r \in revocations /\ Rev[r].decodes
      BY <1>2, <2>1, <2>3 DEF stored
    <3>3. \A k \in 1..at[c]-1 : Standing(c, k)
      BY <1>1 DEF IInv, CallInv, RevocationInv
    <3> QED  BY <1>1, <2>4, <3>1, <3>2, <3>3 DEF RevocationInv, Cleared
  <2> QED  BY <2>4, <2>5, <2>6
<1> QED  BY <1>3, <1>4, <1>5

\* JudgeRevocations: with no author over the proof at hand among the records
\* found, the proof stands, and so does the chain after the last one.
LEMMA JudgeStep ==
  ASSUME IInv, NEW c \in Call, JudgeRevocations(c)
  PROVE  IInv'
<1> DEFINE n == Len(Prfs(c))
           authority == \E r \in found[c] : HasAuthority(c, at[c], r)
<1>1. /\ pc[c] = "looked"
      /\ UNCHANGED <<delegations, revocations, seen, clock, options, args, fetched, found, began>>
  BY DEF JudgeRevocations, stores
<1>2. /\ verdict = [verdict EXCEPT ![c] = "none"]
      /\ seen \subseteq InvCid /\ fetched \in [Call -> Seq(DlgCid)]
      /\ at \in [Call -> Nat \ {0}] /\ at[c] \in Nat \ {0} /\ at[c] <= n
      /\ found \in [Call -> SUBSET RevCid] /\ fetched[c] = Prfs(c)
      /\ \A r \in began[c].revocations : Rev[r].target = Prfs(c)[at[c]] => r \in found[c]
      /\ CustomStores \/ \A r \in found[c] : r \in revocations /\ Rev[r].decodes
      /\ \A k \in 1..at[c]-1 : Standing(c, k)
      /\ EvidenceInv(c)
  BY <1>1 DEF IInv, TypeOK, CallInv, EvidenceInv, RevocationInv, Passed
<1>3. n \in Nat
  BY <1>1, CallFields DEF IInv
<1>4. ASSUME ~authority
      PROVE  \A k \in 1..at[c] : Standing(c, k)
  <2>1. Standing(c, at[c])
    BY <1>2, <1>4 DEF Standing, HasAuthority, Revokes, ValidRevocation, Heeded
  <2> HIDE DEF n
  <2> QED  BY <1>2, <2>1
<1>5. CASE authority
  <2>1. /\ pc' = [pc EXCEPT ![c] = "done"] /\ verdict' = [verdict EXCEPT ![c] = "revoked"]
        /\ at' = at /\ "revoked" \in Outcome
    BY <1>5 DEF JudgeRevocations, Settle, Outcome, VerifyReason
  <2>2. /\ pc'[c] = "done" /\ verdict'[c] = "revoked"
        /\ ReplayInv' /\ (EvidenceInv(c)' /\ RevocationInv(c)' => IInv')
    BY <1>1, <1>2, <2>1, ResumeStep
  <2>3. RevokedBy(args[c].inv, Heeded(IF CustomStores THEN found[c] ELSE revocations))
    <3>1. PICK r \in found[c] : /\ Rev[r].decodes
                                /\ ValidRevocation(Prfs(c)[at[c]], r)
                                /\ AncestorIssued(Prfs(c), at[c], r)
      BY <1>2, <1>5 DEF HasAuthority, Revokes
    <3>2. at[c] \in 1..n
      BY <1>2, <1>3
    <3>3. r \in Heeded(IF CustomStores THEN found[c] ELSE revocations)
      BY <1>2, <3>1 DEF Heeded
    <3> QED  BY <3>1, <3>2, <3>3 DEF RevokedBy, Prfs
  <2>4. EvidenceInv(c)' /\ RevocationInv(c)'
    BY <1>1, <2>2, <2>3 DEF EvidenceInv, RevocationInv, Passed, Cleared
  <2> QED  BY <2>2, <2>4
<1>6. CASE ~authority /\ at[c] < n
  <2>1. /\ pc' = [pc EXCEPT ![c] = "lookup"] /\ verdict' = [verdict EXCEPT ![c] = "none"]
        /\ at' = [at EXCEPT ![c] = @ + 1]
    BY <1>2, <1>6 DEF JudgeRevocations, Suspend
  <2>2. /\ at' \in [Call -> Nat \ {0}] /\ at'[c] = at[c] + 1 /\ at'[c] <= n
        /\ \A d \in Call \ {c} : at'[d] = at[d]
    <3> HIDE DEF n
    <3> QED  BY <1>2, <1>3, <1>6, <2>1
  <2>3. /\ pc'[c] = "lookup" /\ verdict'[c] = "none"
        /\ Prfs(c)' = Prfs(c) /\ Instants(c)' = Instants(c)
        /\ \A k : Standing(c, k)' <=> Standing(c, k)
        /\ ReplayInv' /\ (EvidenceInv(c)' /\ RevocationInv(c)' => IInv')
    BY <1>1, <1>2, <2>1, <2>2, ResumeStep
  <2>4. EvidenceInv(c)'
    BY <1>1, <1>2, <2>3 DEF EvidenceInv, Passed
  <2>5. \A k \in 1..at'[c]-1 : Standing(c, k)'
    BY <1>2, <1>4, <1>6, <2>2, <2>3
  <2>6. RevocationInv(c)'
    BY <2>3, <2>5 DEF RevocationInv, Cleared
  <2> QED  BY <2>3, <2>4, <2>6
<1>7. CASE ~authority /\ ~(at[c] < n)
  <2>1. /\ pc' = [pc EXCEPT ![c] = "claim"] /\ verdict' = [verdict EXCEPT ![c] = "none"]
        /\ at' = at /\ at[c] = n
    BY <1>2, <1>3, <1>7 DEF JudgeRevocations, Suspend
  <2>2. /\ pc'[c] = "claim" /\ verdict'[c] = "none"
        /\ Prfs(c)' = Prfs(c) /\ Instants(c)' = Instants(c)
        /\ \A k : Standing(c, k)' <=> Standing(c, k)
        /\ ReplayInv' /\ (EvidenceInv(c)' /\ RevocationInv(c)' => IInv')
    BY <1>1, <1>2, <2>1, ResumeStep
  <2>3. EvidenceInv(c)'
    BY <1>1, <1>2, <2>2 DEF EvidenceInv, Passed
  <2>4. RevocationInv(c)'
    BY <1>4, <1>7, <2>1, <2>2 DEF RevocationInv, Cleared
  <2> QED  BY <2>2, <2>3, <2>4
<1> QED  BY <1>5, <1>6, <1>7

\* Claim and CustomClaimFails: the CID of an invocation is in the replay store
\* exactly when some call claimed it, and only one call returns it.
LEMMA ClaimStep ==
  ASSUME IInv, NEW c \in Call, Claim(c) \/ CustomClaimFails(c)
  PROVE  IInv'
<1> DEFINE i == args[c].inv
<1>1. /\ pc[c] = "claim" /\ fetched' = fetched /\ found' = found /\ at' = at
      /\ UNCHANGED <<delegations, revocations, clock, options, args, began>>
  BY DEF Claim, CustomClaimFails, locals
<1>2. /\ seen \subseteq InvCid /\ fetched \in [Call -> Seq(DlgCid)]
      /\ at \in [Call -> Nat \ {0}] /\ found \in [Call -> SUBSET RevCid]
      /\ EvidenceInv(c) /\ RevocationInv(c)
  BY <1>1 DEF IInv, TypeOK, CallInv
<1>3. i \in InvCid
  BY <1>1, CallFields DEF IInv
<1>4. PICK outcome \in {"ok", "replay", "claimError"} : Settle(c, outcome)
  BY DEF Claim, CustomClaimFails
<1>5. /\ outcome = "ok" => i \notin seen /\ i \in seen'
      /\ outcome = "replay" => i \in seen /\ seen' = seen
      /\ seen' \in {seen, seen \cup {i}}
  <2>1. verdict'[c] = outcome
    BY <1>4 DEF IInv, TypeOK, Settle
  <2>2. CASE Claim(c)
    BY <2>1, <2>2 DEF Claim, Settle, IInv, TypeOK
  <2>3. CASE CustomClaimFails(c)
    BY <2>1, <2>3 DEF CustomClaimFails, Settle, IInv, TypeOK
  <2> QED  BY <2>2, <2>3
<1>6. /\ pc' = [pc EXCEPT ![c] = "done"] /\ verdict' = [verdict EXCEPT ![c] = outcome]
      /\ outcome \in Outcome /\ outcome # "none" /\ seen' \subseteq InvCid
  BY <1>2, <1>3, <1>4, <1>5 DEF Settle, Outcome, VerifyReason
<1>7. /\ pc'[c] = "done" /\ verdict'[c] = outcome /\ verdict[c] = "none"
      /\ Prfs(c)' = Prfs(c) /\ Instants(c)' = Instants(c)
      /\ \A k : Standing(c, k)' <=> Standing(c, k)
      /\ \A d \in Call \ {c} : verdict'[d] = verdict[d]
      /\ EvidenceInv(c)' /\ RevocationInv(c)' /\ ReplayInv' => IInv'
  BY <1>1, <1>2, <1>6, ResumeStep
<1>8. EvidenceInv(c)' /\ RevocationInv(c)'
  <2>1. EvidenceInv(c)'
    BY <1>1, <1>2, <1>7 DEF EvidenceInv, Passed
  <2>2. RevocationInv(c)'
    BY <1>1, <1>2, <1>7 DEF RevocationInv, Cleared
  <2> QED  BY <2>1, <2>2
<1>9. ReplayInv'
  <2>1. (\A d \in Call : verdict[d] = "ok" => args[d].inv \in seen)'
    BY <1>1, <1>5, <1>7 DEF IInv, ReplayInv
  <2>2. AcceptedOnce'
    BY <1>1, <1>5, <1>7 DEF IInv, ReplayInv, AcceptedOnce, Accepted
  <2>3. RejectionBurnsNothing'
    <3>1. ASSUME NEW inv \in seen'
          PROVE  \E d \in Call : verdict'[d] \in {"ok", "claimError"} /\ args'[d].inv = inv
      <4>1. CASE inv \in seen
        <5>1. PICK d \in Call : verdict[d] \in {"ok", "claimError"} /\ args[d].inv = inv
          BY <4>1 DEF IInv, ReplayInv, RejectionBurnsNothing
        <5>2. d # c
          BY <1>7, <5>1
        <5> QED  BY <1>1, <1>7, <5>1, <5>2
      <4>2. CASE inv \notin seen
        <5>1. inv = i /\ outcome # "replay"
          BY <1>5, <3>1, <4>2
        <5> QED  BY <1>1, <1>4, <1>7, <5>1
      <4> QED  BY <4>1, <4>2
    <3> QED  BY <3>1 DEF RejectionBurnsNothing
  <2>4. ReplayMeansClaimed'
    <3>1. ASSUME NEW d \in Call, verdict'[d] = "replay"
          PROVE  \E e \in Call \ {d} :
                   verdict'[e] \in {"ok", "claimError"} /\ args'[e].inv = args'[d].inv
      <4>1. CASE d = c
        <5>1. PICK e \in Call : verdict[e] \in {"ok", "claimError"} /\ args[e].inv = i
          BY <1>5, <1>7, <3>1, <4>1 DEF IInv, ReplayInv, RejectionBurnsNothing
        <5>2. e # c
          BY <1>7, <5>1
        <5> QED  BY <1>1, <1>7, <4>1, <5>1, <5>2
      <4>2. CASE d # c
        <5>1. PICK e \in Call \ {d} :
                verdict[e] \in {"ok", "claimError"} /\ args[e].inv = args[d].inv
          BY <1>7, <3>1, <4>2 DEF IInv, ReplayInv, ReplayMeansClaimed
        <5>2. e # c
          BY <1>7, <5>1
        <5> QED  BY <1>1, <1>7, <5>1, <5>2
      <4> QED  BY <4>1, <4>2
    <3> QED  BY <3>1 DEF ReplayMeansClaimed
  <2> QED  BY <2>1, <2>2, <2>3, <2>4 DEF ReplayInv
<1> QED  BY <1>7, <1>8, <1>9

----------------------------------------------------------------------------
(* What happens between the steps, and the theorems                        *)

\* Deliveries, the clock and the caller's changes touch no local of a call.
LEMMA OutsideStep ==
  ASSUME IInv,
         \/ \E c \in Call : CallerMutates(c)
         \/ \E f \in Filings : InsertByCid(f[1], f[2])
         \/ \E d \in DlgCid, r \in RevCid : InsertRevocation(d, r)
         \/ Tick
         \/ UNCHANGED vars
  PROVE  IInv'
<1>1. /\ UNCHANGED <<seen, pc, verdict, args, fetched, at, found, began>>
      /\ revocations \subseteq revocations' /\ revocations' \subseteq RevCid
      /\ clock \in Nat /\ clock' \in Nat /\ clock <= clock'
  BY DEF CallerMutates, InsertByCid, InsertRevocation, Tick, vars, stores, locals, IInv, TypeOK
<1>2. delegations' \in [DlgCid -> DlgCid \cup {NoDelegation}]
  <2>1. CASE delegations' = delegations
    BY <2>1 DEF IInv, TypeOK
  <2>2. CASE \E f \in Filings : InsertByCid(f[1], f[2])
    <3>1. PICK f \in Filings : delegations' = [delegations EXCEPT ![f[1]] = f[2]]
      BY <2>2 DEF InsertByCid
    <3>2. f[1] \in DlgCid /\ f[2] \in DlgCid
      BY VerifyAssumption
    <3> QED  BY <3>1, <3>2 DEF IInv, TypeOK
  <2> QED  BY <2>1, <2>2 DEF CallerMutates, InsertRevocation, Tick, vars, stores
<1>3. options' \in [Call -> Options]
  <2>1. CASE options' = options
    BY <2>1 DEF IInv, TypeOK
  <2>2. CASE \E c \in Call : CallerMutates(c)
    BY <2>2 DEF CallerMutates, IInv, TypeOK
  <2> QED  BY <2>1, <2>2 DEF InsertByCid, InsertRevocation, Tick, vars
<1>4. TypeOK'
  BY <1>1, <1>2, <1>3 DEF IInv, TypeOK, Prfs
<1>5. ASSUME NEW c \in Call
      PROVE  CallInv(c)'
  <2>1. UNCHANGED CallState(c) /\ began[c].clock \in Nat /\ CallInv(c)
    BY <1>1 DEF CallState, IInv, TypeOK
  <2> QED  BY <1>1, <2>1, Frame
<1>6. ReplayInv'
  BY <1>1 DEF IInv, ReplayInv, AcceptedOnce, Accepted, RejectionBurnsNothing, ReplayMeansClaimed
<1> QED  BY <1>4, <1>5, <1>6 DEF IInv

\* The invariant is inductive, for any set of calls over any tokens and any
\* stores that meet their interfaces.
THEOREM Inductive == Spec => []IInv
<1>1. Init => IInv
  <2> SUFFICES ASSUME Init  PROVE IInv
    OBVIOUS
  <2>1. TypeOK
    BY VerifyAssumption DEF Init, TypeOK, Prfs
  <2>2. \A c \in Call : CallInv(c)
    BY DEF Init, CallInv, BeganInv, EvidenceInv, RevocationInv, Passed, Cleared
  <2>3. ReplayInv
    BY DEF Init, ReplayInv, AcceptedOnce, Accepted, RejectionBurnsNothing, ReplayMeansClaimed
  <2> QED  BY <2>1, <2>2, <2>3 DEF IInv
<1>2. IInv /\ [Next]_vars => IInv'
  <2> SUFFICES ASSUME IInv, [Next]_vars  PROVE IInv'
    OBVIOUS
  <2>1. CASE \E c \in Call : Begin(c)
    BY <2>1, BeginStep
  <2>2. CASE \E c \in Call : GetAllAnswers(c) \/ CustomGetAllAnswers(c)
    BY <2>2, GetAllStep
  <2>3. CASE \E c \in Call : CheckProofs(c)
    BY <2>3, CheckStep
  <2>4. CASE \E c \in Call : LookupAnswers(c) \/ CustomLookupAnswers(c)
    BY <2>4, LookupStep
  <2>5. CASE \E c \in Call : JudgeRevocations(c)
    BY <2>5, JudgeStep
  <2>6. CASE \E c \in Call : Claim(c) \/ CustomClaimFails(c)
    BY <2>6, ClaimStep
  <2>7. CASE \/ \E c \in Call : CallerMutates(c)
             \/ \E f \in Filings : InsertByCid(f[1], f[2])
             \/ \E d \in DlgCid, r \in RevCid : InsertRevocation(d, r)
             \/ Tick
             \/ UNCHANGED vars
    BY <2>7, OutsideStep
  <2> QED  BY <2>1, <2>2, <2>3, <2>4, <2>5, <2>6, <2>7 DEF Next, Resume
<1> QED  BY <1>1, <1>2, PTL DEF Spec

\* Every state of the stores and of the calls is well formed.
THEOREM Typed == Spec => []TypeOK
BY Inductive, PTL DEF IInv

\* However many calls interleave, one of them at most returns an invocation.
THEOREM ReturnedOnce == Spec => []AcceptedOnce
BY Inductive, PTL DEF IInv, ReplayInv

\* No rejection enters a CID in the replay store.
THEOREM BurnsNothing == Spec => []RejectionBurnsNothing
BY Inductive, PTL DEF IInv, ReplayInv

\* A refusal as a replay names a claim of another call.
THEOREM ReplayHasCause == Spec => []ReplayMeansClaimed
BY Inductive, PTL DEF IInv, ReplayInv

\* What a call returns was signed, addressed to its executor, and authorised by
\* its own proofs at an instant of the call, whatever the delegation store
\* answered and whatever the caller changed meanwhile.
THEOREM ReturnedWasAuthorized == Spec => []AcceptedWasAuthorized
<1>1. IInv => AcceptedWasAuthorized
  BY DEF IInv, CallInv, EvidenceInv, Passed, AcceptedWasAuthorized, Accepted
<1> QED  BY <1>1, Inductive, PTL

\* A revocation stored before a call began is honoured by it.
THEOREM KnownHonoured == Spec => []KnownRevocationsHonoured
<1>1. IInv => KnownRevocationsHonoured
  BY DEF IInv, CallInv, RevocationInv, Cleared, Standing, KnownRevocationsHonoured, Accepted,
         RevokedBy, Prfs
<1> QED  BY <1>1, Inductive, PTL

\* A refusal for revocation has a valid record behind it, by the issuer of the
\* proof or of one nearer the root.
THEOREM RevokedHasCause == Spec => []RevokedByAncestor
<1>1. IInv => RevokedByAncestor
  BY DEF IInv, CallInv, RevocationInv, RevokedByAncestor
<1> QED  BY <1>1, Inductive, PTL

----------------------------------------------------------------------------
(* The Map stores, with every delegation filed by insert                   *)

MapStores == ~CustomStores /\ \A f \in Filings : f[1] = f[2]

\* What EvidenceRejectionsDeserved says of one call, and that OutOfRangeError is
\* for a leeway.
Deserved(c) ==
  /\ verdict[c] \in {"invalidInvocationSignature", "audienceMismatch", "invalidProofSignature"} =>
       ~Genuine(args[c].inv, args[c].executor)
  /\ verdict[c] \in CheckReason \ {"outOfRange"} =>
       \E t \in Instants(c) : ~AuthorizedAt(args[c].inv, t, args[c].leeway)
  /\ verdict[c] \notin {"proofCountMismatch", "proofCidMismatch", "claimError"}
  /\ verdict[c] = "lookupError" => Unreadable(args[c].inv, revocations)
  /\ verdict[c] = "outOfRange" => args[c].leeway # 0

\* The stores answer with what they were asked for, and hold valid records.
MapInv ==
  /\ \A r \in revocations : Rev[r].valid
  /\ \A d \in DlgCid : delegations[d] \in {d, NoDelegation}
  /\ \A c \in Call : pc[c] = "fetched" => fetched[c] = Prfs(c)
  /\ \A c \in Call : Deserved(c)

\* The loop over the proofs that were asked for refuses for a signature only.
LEMMA ProofFaultHonest ==
  ASSUME NEW cids \in Seq(DlgCid)
  PROVE  \/ ProofFault(cids, cids) = "ok"
         \/ /\ ProofFault(cids, cids) = "invalidProofSignature"
            /\ \E k \in 1..Len(cids) : Dlg[cids[k]].seal # "verifies"
<1> DEFINE At(k) == IF Dlg[cids[k]].seal = "undecodable" THEN "invalidProofSignature"
                    ELSE IF cids[k] # cids[k] THEN "proofCidMismatch"
                    ELSE IF Dlg[cids[k]].seal = "forged" THEN "invalidProofSignature"
                    ELSE "ok"
           f == [k \in 1..Len(cids) |-> At(k)]
<1>1. Len(cids) \in Nat /\ DOMAIN f = 1..Len(cids)
  OBVIOUS
<1>2. ProofFault(cids, cids) = FirstFault(f)
  BY DEF ProofFault
<1>3. \A k \in 1..Len(cids) : /\ f[k] \in {"ok", "invalidProofSignature"}
                              /\ f[k] # "ok" => Dlg[cids[k]].seal # "verifies"
  OBVIOUS
<1> HIDE DEF f
<1>4. CASE \A k \in 1..Len(cids) : f[k] = "ok"
  BY <1>1, <1>2, <1>4, FirstFaultNone
<1>5. CASE \E k \in 1..Len(cids) : f[k] # "ok"
  <2>1. FirstFault(f) # "ok"
    BY <1>1, <1>5, FirstFaultNone
  <2>2. FirstFault(f) \in {"ok", "invalidProofSignature"}
    BY <1>1, <1>3, FirstFaultSome
  <2> QED  BY <1>2, <1>3, <1>5, <2>1, <2>2
<1> QED  BY <1>4, <1>5

\* What getAll answers when it has everything.
LEMMA MapAnswer ==
  ASSUME TypeOK, MapInv, NEW c \in Call, pc[c] = "getAll", GetAllAnswers(c)
  PROVE  /\ args' = args
         /\ \/ verdict'[c] = "none" /\ fetched'[c] = Prfs(c)
            \/ verdict'[c] = "getError" /\ pc'[c] = "done"
<1> DEFINE cids == Prfs(c)
<1>1. cids \in Seq(DlgCid) /\ args' = args
  BY CallFields DEF GetAllAnswers
<1>2. CASE \E k \in 1..Len(cids) : delegations[cids[k]] = NoDelegation
  BY <1>1, <1>2 DEF GetAllAnswers, Settle, TypeOK
<1>3. CASE ~\E k \in 1..Len(cids) : delegations[cids[k]] = NoDelegation
  <2>1. /\ fetched'[c] = [k \in 1..Len(cids) |-> delegations[cids[k]]]
        /\ verdict' = verdict /\ verdict[c] = "none"
    BY <1>3 DEF GetAllAnswers, Suspend, TypeOK
  <2>2. \A k \in 1..Len(cids) : delegations[cids[k]] = cids[k]
    BY <1>1, <1>3, ElementOfSeq DEF MapInv
  <2> HIDE DEF cids
  <2>3. fetched'[c] = [k \in 1..Len(cids) |-> cids[k]]
    BY <2>1, <2>2
  <2>4. fetched'[c] = cids
    BY <1>1, <2>3
  <2> QED  BY <1>1, <2>1, <2>4 DEF cids
<1> QED  BY <1>2, <1>3

\* No record is taken out.
Grows == revocations \subseteq revocations'

\* A call whose answer does not change has no less reason for it later.
LEMMA DeservedFrame ==
  ASSUME NEW c \in Call, Deserved(c), clock \in Nat, clock' \in Nat, clock <= clock',
         began[c].clock \in Nat, Grows,
         args'[c] = args[c], began'[c] = began[c],
         \/ verdict'[c] = verdict[c]
         \/ verdict'[c] \in {"none", "ok", "replay", "revoked", "getError"}
  PROVE  Deserved(c)'
<1>1. \A t \in Instants(c) : t \in Instants(c)'
  BY DEF Instants
<1>2. CASE verdict'[c] = verdict[c]
  <2>1. Unreadable(args[c].inv, revocations) => Unreadable(args[c].inv, revocations')
    BY DEF Unreadable, Grows
  <2> QED  BY <1>1, <1>2, <2>1 DEF Deserved
<1>3. CASE verdict'[c] \in {"none", "ok", "replay", "revoked", "getError"}
  BY <1>3 DEF Deserved, CheckReason
<1> QED  BY <1>2, <1>3

\* checkResolved refuses for the leeway, or what is not authorised.
LEMMA CheckResolvedRefuses ==
  ASSUME NEW inv \in Payload, NEW proofs \in Seq(Delegation),
         NEW now \in Nat, NEW leeway \in Nat,
         CheckResolved(inv, proofs, now, leeway) \notin {"ok", "outOfRange"}
  PROVE  ~Authorized(inv, proofs, now, leeway)
<1>1. ShiftOverflows(now, leeway) => CheckResolved(inv, proofs, now, leeway) = "outOfRange"
  BY DEF CheckResolved, TimeBoundChecks, InvocationTimeFault
<1> QED  BY <1>1, CheckResolvedOk

\* The reasons of CheckProofs.
LEMMA CheckDeserved ==
  ASSUME IInv, MapInv, NEW c \in Call, CheckProofs(c)
  PROVE  Deserved(c)' /\ verdict'[c] # "getError"
<1> DEFINE o == args[c]
           now == Now(o)
           proofFault == ProofFault(Prfs(c), Prfs(c))
           checked == CheckResolved(Inv[o.inv], Resolve(Prfs(c)), now, o.leeway)
           fault == IF proofFault # "ok" THEN proofFault ELSE checked
<1>1. /\ pc[c] = "fetched" /\ fetched[c] = Prfs(c)
      /\ UNCHANGED <<clock, args, began>>
      /\ verdict \in [Call -> Outcome \cup {"none"}] /\ verdict[c] = "none"
      /\ clock \in Nat /\ began[c].clock \in Nat /\ began[c].clock <= clock
  BY DEF CheckProofs, locals, MapInv, IInv, TypeOK, CallInv, BeganInv
<1>2. /\ o.inv \in InvCid /\ o.now \in Nat \cup {NoNow} /\ o.leeway \in Nat
      /\ Inv[o.inv] \in Payload /\ Prfs(c) \in Seq(DlgCid)
  BY <1>1, CallFields DEF IInv
<1>3. now \in Nat /\ now \in Instants(c)
  BY <1>1, <1>2 DEF Now, Instants
<1>4. verdict'[c] = IF fault = "ok" THEN "none" ELSE fault
  BY <1>1 DEF CheckProofs, Settle, Suspend
<1>5. Resolve(Prfs(c)) \in Seq(Delegation)
  BY <1>2, ResolveType
<1>6. \/ proofFault = "ok"
      \/ /\ proofFault = "invalidProofSignature"
         /\ \E k \in 1..Len(Prfs(c)) : Dlg[Prfs(c)[k]].seal # "verifies"
  BY <1>2, ProofFaultHonest
<1>7. checked \in CheckReason \cup {"ok"} /\ (checked = "outOfRange" => o.leeway # 0)
  <2>1. ShiftOverflows(now, o.leeway) => o.leeway # 0
    BY <1>2 DEF ShiftOverflows
  <2> HIDE DEF o, now
  <2> QED  BY <1>2, <1>5, <2>1, CheckResolvedType
<1>8. checked \in CheckReason \ {"outOfRange"} => ~AuthorizedAt(o.inv, now, o.leeway)
  <2>1. SUFFICES ASSUME checked \in CheckReason \ {"outOfRange"}
                 PROVE  ~Authorized(Inv[o.inv], Resolve(Prfs(c)), now, o.leeway)
    BY DEF AuthorizedAt, Prfs
  <2>2. checked \notin {"ok", "outOfRange"}
    BY <2>1 DEF CheckReason
  <2> HIDE DEF o, now
  <2> QED  BY <1>2, <1>3, <1>5, <2>2, CheckResolvedRefuses
<1>9. Instants(c)' = Instants(c) /\ args'[c] = o
  BY <1>1 DEF Instants
<1> HIDE DEF checked, proofFault, now
<1>10. CASE proofFault = "invalidProofSignature"
  <2>1. verdict'[c] = "invalidProofSignature"
    BY <1>4, <1>10
  <2>2. ~Genuine(o.inv, o.executor)
    BY <1>6, <1>10 DEF Genuine, Prfs
  <2> QED  BY <1>9, <2>1, <2>2 DEF Deserved, CheckReason
<1>11. CASE proofFault = "ok"
  <2>1. verdict'[c] \in {"none"} \cup CheckReason /\ (verdict'[c] # "none" => verdict'[c] = checked)
    BY <1>4, <1>7, <1>11
  <2> HIDE DEF o
  <2>2. verdict'[c] \in CheckReason \ {"outOfRange"} => ~AuthorizedAt(o.inv, now, o.leeway)
    BY <1>8, <2>1 DEF CheckReason
  <2> QED  BY <1>3, <1>7, <1>9, <2>1, <2>2 DEF Deserved, CheckReason
<1> QED  BY <1>6, <1>10, <1>11

\* A lookup fails for a revocation of the proof that does not decode.
LEMMA LookupDeserved ==
  ASSUME IInv, MapInv, NEW c \in Call, LookupAnswers(c), verdict'[c] # verdict[c]
  PROVE  Deserved(c)'
<1> DEFINE p == Prfs(c)[at[c]]
<1>1. /\ pc[c] = "lookup" /\ UNCHANGED <<revocations, args>>
      /\ \E r \in revocations : Rev[r].target = p /\ ~Rev[r].decodes
      /\ Settle(c, "lookupError")
  BY DEF LookupAnswers, Suspend, stores
<1>2. /\ at[c] \in Nat \ {0} /\ at[c] <= Len(Prfs(c)) /\ Len(Prfs(c)) \in Nat
      /\ verdict \in [Call -> Outcome \cup {"none"}]
  BY <1>1, CallFields DEF IInv, TypeOK
<1>3. at[c] \in 1..Len(Prfs(c))
  BY <1>2
<1>4. Unreadable(args[c].inv, revocations)
  BY <1>1, <1>3 DEF MapInv, Unreadable, ValidRevocation, Prfs
<1>5. verdict'[c] = "lookupError"
  BY <1>1, <1>2 DEF Settle
<1> QED  BY <1>1, <1>4, <1>5 DEF Deserved, CheckReason

\* A lookup that answers leaves what was deserved, and one that fails is deserved.
LEMMA LookupKeepsDeserved ==
  ASSUME IInv, MapInv, NEW c \in Call, LookupAnswers(c), Deserved(c)
  PROVE  Deserved(c)'
<1>1. CASE verdict'[c] # verdict[c]
  BY <1>1, LookupDeserved
<1>2. CASE verdict'[c] = verdict[c]
  <2>1. UNCHANGED <<clock, began, args, revocations>>
    BY DEF LookupAnswers, Settle, Suspend, stores
  <2>2. clock \in Nat /\ began[c].clock \in Nat
    BY DEF MapInv, IInv, TypeOK, BeganInv
  <2> QED  BY <1>2, <2>1, <2>2, DeservedFrame DEF Grows
<1> QED  BY <1>1, <1>2

\* Over map stores that file every delegation under its CID, every step keeps MapInv.
LEMMA MapStep ==
  ASSUME MapStores, IInv, MapInv, [Next]_vars
  PROVE  MapInv'
<1> USE DEF IInv, TypeOK
<1>1. \A d \in DlgCid : delegations'[d] \in {d, NoDelegation}
  <2>1. CASE delegations' = delegations
    BY <2>1 DEF MapInv
  <2>2. CASE \E f \in Filings : InsertByCid(f[1], f[2])
    <3>1. PICK f \in Filings : delegations' = [delegations EXCEPT ![f[1]] = f[2]]
      BY <2>2 DEF InsertByCid
    <3>2. f[1] = f[2]
      BY DEF MapStores
    <3> QED  BY <3>1, <3>2 DEF MapInv
  <2> QED
    BY <2>1, <2>2 DEF Next, vars, stores, Begin, Resume, GetAllAnswers, CustomGetAllAnswers,
       CheckProofs, LookupAnswers, CustomLookupAnswers, JudgeRevocations, Claim,
       CustomClaimFails, CallerMutates, InsertRevocation, Tick
<1>3. Grows /\ \A r \in revocations' : Rev[r].valid
  <2>1. CASE revocations' = revocations
    BY <2>1 DEF MapInv, Grows
  <2>2. CASE \E d \in DlgCid, r \in RevCid : InsertRevocation(d, r)
    BY <2>2 DEF MapInv, InsertRevocation, ValidRevocation, Grows
  <2> QED
    BY <2>1, <2>2 DEF Next, vars, stores, Begin, Resume, GetAllAnswers, CustomGetAllAnswers,
       CheckProofs, LookupAnswers, CustomLookupAnswers, JudgeRevocations, Claim,
       CustomClaimFails, CallerMutates, InsertByCid, Tick
<1>4. Grows
  BY <1>3
<1>2. ASSUME NEW c \in Call
      PROVE  Deserved(c)' /\ (pc'[c] = "fetched" => fetched'[c] = Prfs(c)')
  <2>1. /\ Deserved(c) /\ (pc[c] = "fetched" => fetched[c] = Prfs(c))
        /\ clock \in Nat /\ began[c].clock \in Nat
    BY DEF MapInv
  <2>2. CASE Begin(c)
    <3> DEFINE o == options[c]
    <3>1. args'[c] = o /\ pc'[c] # "fetched"
      BY <2>2 DEF Begin, Settle, Suspend
    <3>2. \/ verdict'[c] \in {"invalidInvocationSignature", "audienceMismatch"}
             /\ ~Genuine(o.inv, o.executor)
          \/ verdict'[c] = "none"
      BY <2>2 DEF Begin, Settle, Suspend, Genuine
    <3> QED  BY <3>1, <3>2 DEF Deserved, CheckReason
  <2>3. CASE GetAllAnswers(c)
    <3>1. pc[c] = "getAll" /\ UNCHANGED <<clock, began>>
      BY <2>3 DEF GetAllAnswers
    <3>2. /\ args' = args
          /\ \/ verdict'[c] = "none" /\ fetched'[c] = Prfs(c)
             \/ verdict'[c] = "getError" /\ pc'[c] = "done"
      BY <2>3, <3>1, MapAnswer
    <3>3. Deserved(c)'
      BY <1>4, <2>1, <3>1, <3>2, DeservedFrame
    <3> QED  BY <3>2, <3>3 DEF Prfs
  <2>4. CASE CheckProofs(c)
    <3>1. Deserved(c)'
      BY <2>4, CheckDeserved
    <3>2. pc'[c] # "fetched"
      BY <2>4 DEF CheckProofs, Settle, Suspend
    <3> QED  BY <3>1, <3>2
  <2>5. CASE JudgeRevocations(c) \/ Claim(c)
    <3>1. /\ UNCHANGED <<clock, began, args>> /\ pc'[c] # "fetched"
          /\ verdict'[c] = verdict[c] \/ verdict'[c] \in {"ok", "replay", "revoked"}
      BY <2>5 DEF JudgeRevocations, Claim, locals, Settle, Suspend
    <3> QED  BY <1>4, <2>1, <3>1, DeservedFrame
  <2>11. CASE LookupAnswers(c)
    <3>1. UNCHANGED <<clock, began, args>> /\ pc'[c] # "fetched"
      BY <2>11 DEF LookupAnswers, Settle, Suspend
    <3>2. Deserved(c)'
      BY <2>1, <2>11, LookupKeepsDeserved
    <3> QED  BY <3>1, <3>2
  <2>6. CASE UNCHANGED <<pc[c], verdict[c], args[c], fetched[c], began[c]>>
             /\ clock' \in Nat /\ clock <= clock'
    BY <1>4, <2>1, <2>6, DeservedFrame DEF Prfs
  <2>7. ~CustomGetAllAnswers(c) /\ ~CustomLookupAnswers(c) /\ ~CustomClaimFails(c)
    BY DEF MapStores, CustomGetAllAnswers, CustomLookupAnswers, CustomClaimFails
  <2>8. ASSUME NEW d \in Call \ {c}, Begin(d) \/ Resume(d)
        PROVE  UNCHANGED <<pc[c], verdict[c], args[c], fetched[c], began[c]>> /\ clock' = clock
    <3> DEFINE Moves == (\E outcome : Settle(d, outcome)) \/ (\E where : Suspend(d, where))
               Stays == UNCHANGED <<args[c], fetched[c], began[c]>> /\ clock' = clock
    <3>5. Moves => UNCHANGED <<pc[c], verdict[c]>>
      BY DEF Settle, Suspend
    <3>1. CASE Begin(d)
      <4>1. Moves
        BY <3>1 DEF Begin
      <4>2. Stays
        BY <3>1 DEF Begin
      <4> QED  BY <3>5, <4>1, <4>2
    <3>2. CASE GetAllAnswers(d) \/ CustomGetAllAnswers(d)
      <4>1. Settle(d, "getError") \/ Suspend(d, "fetched")
        BY <3>2 DEF GetAllAnswers, CustomGetAllAnswers
      <4>2. Stays
        BY <3>2 DEF GetAllAnswers, CustomGetAllAnswers
      <4> QED  BY <3>5, <4>1, <4>2
    <3>6. CASE CheckProofs(d)
      <4>1. Moves
        BY <3>6, Zenon DEF CheckProofs
      <4>2. Stays
        BY <3>6 DEF CheckProofs, locals
      <4> QED  BY <3>5, <4>1, <4>2
    <3>3. CASE LookupAnswers(d) \/ CustomLookupAnswers(d) \/ JudgeRevocations(d)
      BY <3>3 DEF LookupAnswers, CustomLookupAnswers, JudgeRevocations, locals, Settle, Suspend
    <3>4. CASE Claim(d) \/ CustomClaimFails(d)
      BY <3>4 DEF Claim, CustomClaimFails, locals, Settle, Suspend
    <3> QED  BY <2>8, <3>1, <3>2, <3>3, <3>4, <3>6 DEF Resume
  <2>9. CASE \/ \E d \in Call : CallerMutates(d)
             \/ \E f \in Filings : InsertByCid(f[1], f[2])
             \/ \E d \in DlgCid, r \in RevCid : InsertRevocation(d, r)
             \/ Tick
             \/ UNCHANGED vars
    BY <2>1, <2>6, <2>9
       DEF CallerMutates, InsertByCid, InsertRevocation, Tick, vars, locals
  <2>10. CASE \E d \in Call : Begin(d) \/ Resume(d)
    <3>1. PICK d \in Call : Begin(d) \/ Resume(d)
      BY <2>10
    <3>2. CASE d = c
      BY <2>2, <2>3, <2>4, <2>5, <2>7, <2>11, <3>1, <3>2 DEF Resume
    <3>3. CASE d # c
      BY <2>1, <2>6, <2>8, <3>1, <3>3
    <3> QED  BY <3>2, <3>3
  <2> QED  BY <2>9, <2>10 DEF Next
<1> QED  BY <1>1, <1>2, <1>3 DEF MapInv

\* So MapInv always holds there.
LEMMA MapInvariant == MapStores => (Spec => [](IInv /\ MapInv))
<1> SUFFICES ASSUME MapStores  PROVE Spec => [](IInv /\ MapInv)
  OBVIOUS
<1>1. Init => MapInv
  BY DEF Init, MapInv, Deserved, CheckReason
<1>2. IInv /\ MapInv /\ [Next]_vars => MapInv'
  BY MapStep
<1> QED  BY <1>1, <1>2, Inductive, PTL DEF Spec

\* With the Map stores a call is refused on its evidence only if that evidence
\* does not hold: the checks reject nothing that is genuine and authorised, and
\* no lookup fails but for a stored revocation that does not decode.
THEOREM RefusedOnEvidence == Spec => []EvidenceRejectionsDeserved
<1>1. CASE MapStores
  <2>1. MapInv => EvidenceRejectionsDeserved
    BY DEF MapInv, Deserved, EvidenceRejectionsDeserved
  <2> QED  BY <1>1, <2>1, MapInvariant, PTL
<1>2. CASE ~MapStores
  <2>1. Init => EvidenceRejectionsDeserved
    BY <1>2 DEF MapStores, EvidenceRejectionsDeserved
  <2>2. [Next]_vars => EvidenceRejectionsDeserved'
    BY <1>2 DEF MapStores, EvidenceRejectionsDeserved
  <2> QED  BY <2>1, <2>2, PTL DEF Spec
<1> QED  BY <1>1, <1>2

(***************************************************************************)
(* verifyInvocation implements AuthGate: seen through the refinement       *)
(* mapping of Verify, each of its steps is a step of the atomic gate or    *)
(* changes nothing.                                                        *)
(***************************************************************************)

\* The mapped answers and beginnings of the calls.
GateAnswer ==
  [c \in Call |-> IF verdict[c] = "none" THEN "none"
                  ELSE IF verdict[c] = "ok" THEN "accepted" ELSE "rejected"]
GateBeginning == [c \in Call |-> [known |-> Heeded(began[c].revocations), clock |-> began[c].clock]]

\* A step that settles one call changes the answer of that call only.
LEMMA AnswerStep ==
  ASSUME TypeOK, NEW c \in Call, NEW outcome, verdict' = [verdict EXCEPT ![c] = outcome],
         outcome # "none"
  PROVE  /\ outcome = "ok" => GateAnswer' = [GateAnswer EXCEPT ![c] = "accepted"]
         /\ outcome # "ok" => GateAnswer' = [GateAnswer EXCEPT ![c] = "rejected"]
BY DEF TypeOK, GateAnswer

\* The initial states of the calls are those of the gate.
LEMMA GateInit ==
  ASSUME Init
  PROVE  Gate!Init
BY DEF Init, Gate!Init, Heeded

\* Begin asks the gate, which may refuse at once.
LEMMA GateBegin ==
  ASSUME IInv, NEW c \in Call, Begin(c)
  PROVE  Gate!Ask(c) \/ Gate!Refuse(c)
<1>1. /\ pc[c] = "idle" /\ args[c] = Idle /\ verdict[c] = "none" /\ options[c] \in Options
      /\ args' = [args EXCEPT ![c] = options[c]]
      /\ revocations' = revocations /\ seen' = seen /\ clock' = clock
  BY DEF IInv, TypeOK, CallInv, BeganInv, Begin, stores
<1>2. GateBeginning' = [GateBeginning EXCEPT ![c] = [known |-> Heeded(revocations), clock |-> clock]]
  BY DEF IInv, TypeOK, Begin, GateBeginning
<1>3. CASE verdict' = verdict
  <2>1. GateAnswer' = GateAnswer
    BY <1>3 DEF GateAnswer
  <2> QED  BY <1>1, <1>2, <2>1 DEF Gate!Ask, GateAnswer, GateBeginning
<1>4. CASE \E outcome : verdict' = [verdict EXCEPT ![c] = outcome] /\ outcome \notin {"none", "ok"}
  <2>1. GateAnswer' = [GateAnswer EXCEPT ![c] = "rejected"]
    BY <1>4, AnswerStep DEF IInv
  <2> QED  BY <1>1, <1>2, <2>1 DEF Gate!Refuse, GateAnswer, GateBeginning
<1> QED  BY <1>3, <1>4 DEF Begin, Settle, Suspend

\* The gate and the calls read the same evidence.
LEMMA SameEvidence ==
  /\ \A i, e : Gate!Genuine(i, e) <=> Genuine(i, e)
  /\ \A i, t, l : Gate!AuthorizedAt(i, t, l) <=> AuthorizedAt(i, t, l)
  /\ \A i, R : Gate!RevokedBy(i, R) <=> RevokedBy(i, R)
<1>1. \A i, e : Gate!Genuine(i, e) <=> Genuine(i, e)
  BY DEF Gate!Genuine, Genuine
<1>2. \A i, R : Gate!RevokedBy(i, R) <=> RevokedBy(i, R)
  <2>1. \A d, r : Gate!ValidRevocation(d, r) <=> ValidRevocation(d, r)
    BY DEF Gate!ValidRevocation, ValidRevocation
  <2>2. \A cids, k, r : Gate!AncestorIssued(cids, k, r) <=> AncestorIssued(cids, k, r)
    BY DEF Gate!AncestorIssued, AncestorIssued
  <2> QED  BY <2>1, <2>2 DEF Gate!RevokedBy, RevokedBy
<1>3. \A inv, ps, t, l : Gate!Authorized(inv, ps, t, l) <=> Authorized(inv, ps, t, l)
  <2>1. \A a, b : Gate!StartsWith(a, b) <=> StartsWith(a, b)
    BY DEF Gate!StartsWith, StartsWith
  <2>2. \A inv, ps : Gate!Linked(inv, ps) <=> Linked(inv, ps)
    BY DEF Gate!Linked, Linked
  <2>3. \A inv, ps : Gate!Granted(inv, ps) <=> Granted(inv, ps)
    BY <2>1 DEF Gate!Granted, Granted
  <2>4. \A inv, ps, t, l : Gate!InTime(inv, ps, t, l) <=> InTime(inv, ps, t, l)
    BY DEF Gate!InTime, InTime
  <2> QED  BY <2>2, <2>3, <2>4 DEF Gate!Authorized, Authorized
<1>4. \A i, t, l : Gate!AuthorizedAt(i, t, l) <=> AuthorizedAt(i, t, l)
  <2>1. \A cids : Gate!Resolve(cids) = Resolve(cids)
    BY DEF Gate!Resolve, Resolve
  <2> QED  BY <1>3, <2>1 DEF Gate!AuthorizedAt, AuthorizedAt
<1> QED  BY <1>1, <1>2, <1>4

\* What is deserved of a call at its claim is what the gate demands.
LEMMA GateDeserved ==
  ASSUME IInv, NEW c \in Call, pc[c] = "claim"
  PROVE  Gate!Deserved(args[c], GateBeginning[c], clock)
<1>1. /\ Genuine(args[c].inv, args[c].executor)
      /\ \E t \in Instants(c) : AuthorizedAt(args[c].inv, t, args[c].leeway)
      /\ args[c].revoking => \A k \in 1..Len(Prfs(c)) : Standing(c, k)
  BY DEF IInv, CallInv, EvidenceInv, RevocationInv, Passed, Cleared
<1>2. args[c].revoking => ~RevokedBy(args[c].inv, Heeded(began[c].revocations))
  BY <1>1 DEF Standing, RevokedBy, Prfs
<1>3. Gate!Instants(args[c], began[c].clock, clock) = Instants(c)
  BY DEF Gate!Instants, Instants
<1>4. GateBeginning[c].known = Heeded(began[c].revocations) /\ GateBeginning[c].clock = began[c].clock
  BY DEF GateBeginning
<1> QED  BY <1>1, <1>2, <1>3, <1>4, SameEvidence DEF Gate!Deserved

\* A call that resumes answers at its claim, or refuses, or lets the gate be.
LEMMA GateResume ==
  ASSUME IInv, IInv', NEW c \in Call, Resume(c)
  PROVE  [Gate!Next]_Gate!vars
<1>1. /\ UNCHANGED <<delegations, revocations, clock, options, args, began>>
      /\ GateBeginning' = GateBeginning
      /\ pc[c] \notin {"idle", "done"} /\ verdict[c] = "none" /\ args[c] # Idle
      /\ GateAnswer[c] = "none"
  <2>1. UNCHANGED <<delegations, revocations, clock, options, args, began>>
    BY DEF Resume, GetAllAnswers, CustomGetAllAnswers, CheckProofs, LookupAnswers,
           CustomLookupAnswers, JudgeRevocations, Claim, CustomClaimFails, stores, locals
  <2>2. pc[c] \notin {"idle", "done"}
    BY DEF Resume, GetAllAnswers, CustomGetAllAnswers, CheckProofs, LookupAnswers,
           CustomLookupAnswers, JudgeRevocations, Claim, CustomClaimFails
  <2> QED  BY <2>1, <2>2 DEF IInv, TypeOK, GateBeginning, GateAnswer
<1>2. CASE verdict' = verdict /\ seen' = seen
  <2>1. GateAnswer' = GateAnswer
    BY <1>2 DEF GateAnswer
  <2> QED  BY <1>1, <1>2, <2>1 DEF Gate!vars, GateAnswer, GateBeginning
<1>3. CASE \E outcome : /\ verdict' = [verdict EXCEPT ![c] = outcome]
                        /\ outcome \notin {"none", "ok"} /\ seen' = seen
  <2>1. GateAnswer' = [GateAnswer EXCEPT ![c] = "rejected"]
    BY <1>3, AnswerStep DEF IInv
  <2>2. Gate!Reject(c)
    BY <1>1, <1>3, <2>1 DEF Gate!Reject, GateAnswer, GateBeginning
  <2> QED  BY <2>2 DEF Gate!Next
<1>4. CASE Claim(c) /\ args[c].inv \notin seen
  <2>1. pc[c] = "claim" /\ seen' = seen \cup {args[c].inv} /\ verdict' = [verdict EXCEPT ![c] = "ok"]
    BY <1>4 DEF Claim, Settle
  <2>2. GateAnswer' = [GateAnswer EXCEPT ![c] = "accepted"]
    BY <2>1, AnswerStep DEF IInv
  <2>3. Gate!Deserved(args[c], GateBeginning[c], clock)
    BY <2>1, GateDeserved
  <2>4. Gate!Accept(c)
    BY <1>1, <1>4, <2>1, <2>2, <2>3 DEF Gate!Accept, GateAnswer, GateBeginning
  <2> QED  BY <2>4 DEF Gate!Next
<1>5. CASE CustomClaimFails(c) /\ seen' = seen \cup {args[c].inv}
  <2>1. pc[c] = "claim" /\ verdict' = [verdict EXCEPT ![c] = "claimError"]
    BY <1>5 DEF CustomClaimFails, Settle
  <2>2. GateAnswer' = [GateAnswer EXCEPT ![c] = "rejected"]
    <3> DEFINE outcome == "claimError"
    <3>1. verdict' = [verdict EXCEPT ![c] = outcome] /\ outcome # "none" /\ outcome # "ok"
      BY <2>1
    <3> HIDE DEF outcome
    <3> QED  BY <3>1, AnswerStep DEF IInv
  <2>3. Gate!Deserved(args[c], GateBeginning[c], clock)
    BY <2>1, GateDeserved
  <2>4. Gate!Lose(c)
    BY <1>1, <1>5, <2>1, <2>2, <2>3 DEF Gate!Lose, GateAnswer, GateBeginning
  <2> QED  BY <2>4 DEF Gate!Next
<1>6. ASSUME NEW outcome, Settle(c, outcome), outcome # "ok", seen' = seen
      PROVE  [Gate!Next]_Gate!vars
  <2>1. outcome # "none"
    BY <1>6 DEF Settle, IInv, TypeOK
  <2> QED  BY <1>3, <1>6, <2>1 DEF Settle
<1>7. ASSUME NEW where, Suspend(c, where), seen' = seen
      PROVE  [Gate!Next]_Gate!vars
  BY <1>2, <1>7 DEF Suspend
<1>8. CASE Claim(c) /\ args[c].inv \in seen
  BY <1>6, <1>8 DEF Claim
<1>9. CASE CustomClaimFails(c) /\ seen' = seen
  BY <1>6, <1>9 DEF CustomClaimFails
<1>10. CASE GetAllAnswers(c)
  BY <1>6, <1>7, <1>10 DEF GetAllAnswers, stores
<1>11. CASE CustomGetAllAnswers(c)
  BY <1>6, <1>7, <1>11 DEF CustomGetAllAnswers, stores
<1>12. CASE CheckProofs(c)
  <2> DEFINE o == args[c]
             proofFault == ProofFault(Prfs(c), fetched[c])
             fault == IF proofFault # "ok" THEN proofFault
                      ELSE CheckResolved(Inv[o.inv], Resolve(fetched[c]), Now(o), o.leeway)
             next == IF o.revoking /\ Prfs(c) # <<>> THEN "lookup" ELSE "claim"
  <2>1. seen' = seen /\ IF fault # "ok" THEN Settle(c, fault) ELSE Suspend(c, next)
    BY <1>12 DEF CheckProofs, stores
  <2> HIDE DEF fault, next
  <2> QED  BY <1>6, <1>7, <2>1
<1>13. CASE LookupAnswers(c)
  BY <1>6, <1>7, <1>13 DEF LookupAnswers, stores
<1>14. CASE CustomLookupAnswers(c)
  BY <1>6, <1>7, <1>14 DEF CustomLookupAnswers, stores
<1>15. CASE JudgeRevocations(c)
  BY <1>6, <1>7, <1>15 DEF JudgeRevocations, stores
<1> QED
  BY <1>4, <1>5, <1>8, <1>9, <1>10, <1>11, <1>12, <1>13, <1>14, <1>15 DEF Resume, CustomClaimFails

\* What happens between the steps of the calls is a step of the gate's
\* environment, or hidden from it.
LEMMA GateOutside ==
  ASSUME IInv,
         \/ \E c \in Call : CallerMutates(c)
         \/ \E f \in Filings : InsertByCid(f[1], f[2])
         \/ \E d \in DlgCid, r \in RevCid : InsertRevocation(d, r)
         \/ Tick
         \/ UNCHANGED vars
  PROVE  [Gate!Next]_Gate!vars
<1>1. UNCHANGED <<args, seen, verdict, began>>
  BY DEF CallerMutates, InsertByCid, InsertRevocation, Tick, vars, stores, locals
<1>2. GateAnswer' = GateAnswer /\ GateBeginning' = GateBeginning
  BY <1>1 DEF GateAnswer, GateBeginning
<1>3. CASE Heeded(revocations') = Heeded(revocations) /\ clock' = clock
  BY <1>1, <1>2, <1>3 DEF Gate!vars, GateAnswer, GateBeginning
<1>4. ASSUME NEW d \in DlgCid, NEW r \in RevCid, InsertRevocation(d, r)
      PROVE  [Gate!Next]_Gate!vars
  <2>1. clock' = clock /\ revocations' = revocations \cup {r}
    BY <1>4 DEF InsertRevocation
  <2>2. CASE CustomStores => Rev[r].decodes
    <3>1. Heeded(revocations') = Heeded(revocations) \cup {r}
      BY <2>1, <2>2 DEF Heeded
    <3>2. Gate!Publish(r)
      BY <1>1, <1>2, <2>1, <3>1 DEF Gate!Publish, GateAnswer, GateBeginning
    <3> QED  BY <3>2 DEF Gate!Next
  <2>3. CASE ~(CustomStores => Rev[r].decodes)
    <3>1. Heeded(revocations') = Heeded(revocations)
      BY <2>1, <2>3 DEF Heeded
    <3> QED  BY <1>3, <2>1, <3>1
  <2> QED  BY <2>2, <2>3
<1>5. CASE Tick
  <2>1. Gate!Tick
    BY <1>1, <1>2, <1>5 DEF Tick, stores, Gate!Tick, GateAnswer, GateBeginning
  <2> QED  BY <2>1 DEF Gate!Next
<1> QED  BY <1>3, <1>4, <1>5 DEF CallerMutates, InsertByCid, vars, stores

\* However many calls run, and whatever happens between their steps, the calls
\* together are the gate: atomic, letting each invocation through once, and
\* only when it is genuine, authorised and not known to be revoked.
THEOREM CallsImplementGate == Spec => ImplementsGate
<1>1. Init => Gate!Init
  BY GateInit
<1>2. IInv /\ IInv' /\ [Next]_vars => [Gate!Next]_Gate!vars
  <2> SUFFICES ASSUME IInv, IInv', [Next]_vars  PROVE [Gate!Next]_Gate!vars
    OBVIOUS
  <2>1. ASSUME NEW c \in Call, Begin(c)  PROVE Gate!Next
    BY <2>1, GateBegin DEF Gate!Next
  <2>2. ASSUME NEW c \in Call, Resume(c)  PROVE [Gate!Next]_Gate!vars
    BY <2>2, GateResume
  <2>3. CASE \/ \E c \in Call : CallerMutates(c)
             \/ \E f \in Filings : InsertByCid(f[1], f[2])
             \/ \E d \in DlgCid, r \in RevCid : InsertRevocation(d, r)
             \/ Tick
             \/ UNCHANGED vars
    BY <2>3, GateOutside
  <2> QED  BY <2>1, <2>2, <2>3 DEF Next
<1> QED  BY <1>1, <1>2, Inductive, PTL DEF Spec, ImplementsGate, Gate!Spec

----------------------------------------------------------------------------
(* The REST service                                                        *)

\* What the requests are, and where their handlers stand.
BodyInv == body \in [Call -> Bodies] /\ inserted \in [Call -> Nat]

\* A request that began is verified with the options of its service.
RouteInv(c) ==
  /\ handler[c] \in {"idle", "proofs"} => pc[c] = "idle" /\ verdict[c] = "none"
  /\ pc[c] # "idle" =>
       /\ handler[c] \in {"verifying", "answered"}
       /\ args[c] = options[c] /\ Inv[args[c].inv].cmd = RouteCommand

\* A note was made by a request that was answered with its id.
NoteInv ==
  /\ \E n \in Nat : DOMAIN notes = 1..n
  /\ \A id \in DOMAIN notes :
       LET c == notes[id].by IN
         /\ notes[id] \in [inv : InvCid, by : Call] /\ notes[id].inv = args[c].inv
         /\ verdict[c] = "ok" /\ handler[c] = "answered" /\ noteId[c] = id
  /\ \A c \in Call : status[c] = 201 => noteId[c] \in DOMAIN notes /\ notes[noteId[c]].by = c

StatusInv ==
  /\ handler \in [Call -> {"idle", "proofs", "verifying", "answered"}]
  /\ status \in [Call -> {0, 201, 403, 404, 500}] /\ noteId \in [Call -> Nat]
  /\ \A c \in Call : status[c] # 0 <=> handler[c] = "answered"

\* What a request has inserted stays, so a proof is not found only if the
\* request does not bring it.
DeliveryInv(c) ==
  LET ps == body[c].proofs IN
  /\ inserted[c] <= Len(ps)
  /\ \A n \in 1..inserted[c] : delegations[ps[n]] # NoDelegation
  /\ pc[c] # "idle" => inserted[c] = Len(ps)
  /\ verdict[c] = "getError" =>
       \E k \in 1..Len(Prfs(c)) : \A n \in 1..Len(ps) : ps[n] # Prfs(c)[k]

\* Where an error response comes from.
AnswerInv(c) ==
  /\ status[c] = 403 /\ body[c].form = "full" =>
       \/ Inv[options[c].inv].cmd # RouteCommand
       \/ pc[c] = "done" /\ verdict[c] \in Structured
  /\ status[c] = 500 =>
       \/ Inv[options[c].inv].seal = "undecodable"
       \/ \E n \in 1..Len(body[c].proofs) : Dlg[body[c].proofs[n]].seal = "undecodable"
       \/ body[c].form = "unparsable"
       \/ pc[c] = "done" /\ verdict[c] \notin Structured \cup {"ok"}

RequestInv(c) == RouteInv(c) /\ DeliveryInv(c) /\ AnswerInv(c)

RInv == BodyInv /\ StatusInv /\ NoteInv /\ \A c \in Call : RequestInv(c)

----------------------------------------------------------------------------
(* Every step of the service is a step of Verify, or touches none of it    *)

\* What is requested of Verify are bodies, kept while they are handled.
LEMMA BodyInvariant == RestSpec => []BodyInv
<1>1. RestInit => BodyInv
  BY DEF RestInit, BodyInv
<1>2. BodyInv /\ [RestNext]_restVars => BodyInv'
  <2> SUFFICES ASSUME BodyInv, [RestNext]_restVars  PROVE BodyInv'
    OBVIOUS
  <2>1. ASSUME NEW c \in Call, Arrive(c)  PROVE BodyInv'
    BY <2>1 DEF BodyInv, Arrive
  <2>2. ASSUME NEW c \in Call, InsertProof(c)  PROVE BodyInv'
    BY <2>2 DEF BodyInv, InsertProof
  <2>3. ASSUME NEW c \in Call, Dispatch(c) \/ Verifying(c) \/ Reply(c)  PROVE BodyInv'
    BY <2>3 DEF BodyInv, Dispatch, Verifying, Reply, service
  <2>4. ASSUME Revoke \/ (Tick /\ UNCHANGED service) \/ UNCHANGED restVars  PROVE BodyInv'
    BY <2>4 DEF BodyInv, Revoke, restVars, service
  <2> QED  BY <2>1, <2>2, <2>3, <2>4 DEF RestNext, Handle
<1> QED  BY <1>1, <1>2, PTL DEF RestSpec

\* The step that the theorem below needs.
LEMMA RestStep ==
  ASSUME BodyInv, [RestNext]_restVars
  PROVE  [Next]_vars
<1>1. ASSUME NEW c \in Call, InsertProof(c)
      PROVE  [Next]_vars
  <2> DEFINE d == body[c].proofs[inserted[c] + 1]
  <2>1. body[c] \in BodyType /\ inserted[c] \in Nat /\ inserted[c] < Len(body[c].proofs)
    BY <1>1, RestAssumption DEF BodyInv, InsertProof
  <2>2. body[c].proofs \in Seq(DlgCid)
    BY <2>1 DEF BodyType
  <2>3. d \in DlgCid
    BY <2>1, <2>2, ElementOfSeq
  <2>4. UNCHANGED vars \/ InsertByCid(d, d)
    BY <1>1 DEF InsertProof
  <2>5. <<d, d>> \in Filings
    BY <2>3, RestAssumption
  <2> HIDE DEF d
  <2>6. ASSUME InsertByCid(d, d)  PROVE Next
    <3>1. <<d, d>>[1] = d /\ <<d, d>>[2] = d
      OBVIOUS
    <3>2. \E f \in Filings : InsertByCid(f[1], f[2])
      BY <2>5, <2>6, <3>1
    <3> QED  BY <3>2 DEF Next
  <2> QED  BY <2>4, <2>6
<1>2. ASSUME NEW c \in Call, Arrive(c) \/ Reply(c)
      PROVE  UNCHANGED vars
  BY <1>2 DEF Arrive, Reply
<1>3. ASSUME NEW c \in Call, Dispatch(c)
      PROVE  UNCHANGED vars \/ Begin(c)
  BY <1>3 DEF Dispatch
<1>4. ASSUME NEW c \in Call, Verifying(c)
      PROVE  Resume(c)
  BY <1>4 DEF Verifying
<1>5. ASSUME Revoke \/ (Tick /\ UNCHANGED service) \/ UNCHANGED restVars
      PROVE  [Next]_vars
  BY <1>5 DEF Revoke, Next, restVars
<1> QED  BY <1>1, <1>2, <1>3, <1>4, <1>5 DEF RestNext, Handle, Next

\* The requests of the service are calls of verifyInvocation.
THEOREM RequestsAreCalls == RestSpec => Spec
<1>1. RestInit => Init
  BY DEF RestInit
<1>2. BodyInv /\ [RestNext]_restVars => [Next]_vars
  BY RestStep
<1> QED  BY <1>1, <1>2, BodyInvariant, PTL DEF RestSpec, Spec

\* The service uses the Map stores, and files delegations under their own CIDs.
LEMMA ServiceMapStores == MapStores
BY RestAssumption DEF MapStores

----------------------------------------------------------------------------
(* Frames                                                                  *)

\* The part of the state that belongs to request c.
RequestState(c) ==
  <<pc[c], verdict[c], args[c], options[c], body[c], handler[c], inserted[c], status[c]>>

\* What is filed stays filed.
Keeps == \A d \in DlgCid : delegations[d] # NoDelegation => delegations'[d] # NoDelegation

\* The fields of a body that is being handled.
LEMMA BodyFields ==
  ASSUME BodyInv, NEW c \in Call
  PROVE  /\ body[c].proofs \in Seq(DlgCid) /\ Len(body[c].proofs) \in Nat
         /\ \A n \in 1..Len(body[c].proofs) : body[c].proofs[n] \in DlgCid
         /\ inserted[c] \in Nat
<1>1. body[c] \in BodyType /\ inserted[c] \in Nat
  BY RestAssumption DEF BodyInv
<1>2. body[c].proofs \in Seq(DlgCid)
  BY <1>1 DEF BodyType
<1> QED  BY <1>1, <1>2, ElementOfSeq

\* A request keeps its invariant when nothing of it changes and nothing is unfiled.
LEMMA RequestFrame ==
  ASSUME BodyInv, NEW c \in Call, RequestInv(c), UNCHANGED RequestState(c), Keeps
  PROVE  RequestInv(c)'
<1>1. /\ UNCHANGED <<pc[c], verdict[c], args[c], options[c]>>
      /\ UNCHANGED <<body[c], handler[c], inserted[c], status[c]>>
  BY DEF RequestState
<1>2. RouteInv(c)'
  BY <1>1 DEF RequestInv, RouteInv
<1>3. DeliveryInv(c)'
  <2>1. \A n \in 1..inserted[c] : body[c].proofs[n] \in DlgCid
    BY BodyFields DEF RequestInv, DeliveryInv
  <2>2. Prfs(c)' = Prfs(c)
    BY <1>1 DEF Prfs
  <2> QED  BY <1>1, <2>1, <2>2 DEF RequestInv, DeliveryInv, Keeps
<1>4. AnswerInv(c)'
  BY <1>1 DEF RequestInv, AnswerInv
<1> QED  BY <1>2, <1>3, <1>4 DEF RequestInv

\* Requests that are not answered yet made no note.
LEMMA NoteFrame ==
  ASSUME NoteInv, UNCHANGED <<notes, noteId>>,
         \A c \in Call : handler[c] = "answered" =>
           handler'[c] = "answered" /\ verdict'[c] = verdict[c] /\ args'[c] = args[c],
         \A c \in Call : status'[c] = 201 => status[c] = 201
  PROVE  NoteInv'
BY DEF NoteInv

\* A step of Verify by one call leaves the others alone.
LEMMA OwnSteps ==
  ASSUME TypeOK, NEW c \in Call, Begin(c) \/ Resume(c)
  PROVE  /\ UNCHANGED <<delegations, revocations, clock, options>>
         /\ \A d \in Call \ {c} : pc'[d] = pc[d] /\ verdict'[d] = verdict[d] /\ args'[d] = args[d]
         /\ verdict[c] = "none" /\ pc'[c] # "idle"
         /\ Begin(c) => pc[c] = "idle" /\ args'[c] = options[c]
         /\ Resume(c) => pc[c] # "idle" /\ args' = args
<1> USE DEF TypeOK, Settle, Suspend, stores, locals
<1>1. CASE Begin(c)
  BY <1>1 DEF Begin, Resume, GetAllAnswers, CustomGetAllAnswers, CheckProofs, LookupAnswers,
              CustomLookupAnswers, JudgeRevocations, Claim, CustomClaimFails
<1>2. CASE Resume(c)
  BY <1>2 DEF Begin, Resume, GetAllAnswers, CustomGetAllAnswers, CheckProofs, LookupAnswers,
              CustomLookupAnswers, JudgeRevocations, Claim, CustomClaimFails
<1> QED  BY <1>1, <1>2

----------------------------------------------------------------------------
(* The steps of a handler                                                  *)

\* A step of c that makes no note: what it has to show of c.
LEMMA OwnRequest ==
  ASSUME RInv, NEW c \in Call, handler[c] # "answered", Keeps, BodyInv', RequestInv(c)',
         StatusInv', UNCHANGED <<notes, noteId>>, status'[c] # 201,
         \A d \in Call \ {c} : UNCHANGED RequestState(d)
  PROVE  RInv'
<1>1. \A d \in Call \ {c} : /\ handler'[d] = handler[d] /\ status'[d] = status[d]
                            /\ verdict'[d] = verdict[d] /\ args'[d] = args[d]
  BY DEF RequestState
<1>2. NoteInv'
  BY <1>1, NoteFrame DEF RInv
<1>3. ASSUME NEW d \in Call \ {c}  PROVE RequestInv(d)'
  BY RequestFrame DEF RInv
<1> QED  BY <1>2, <1>3 DEF RInv

\* A request comes in.
LEMMA ArriveStep ==
  ASSUME RInv, NEW c \in Call, Arrive(c)
  PROVE  RInv'
<1>1. PICK where, code :
        /\ handler' = [handler EXCEPT ![c] = where] /\ status' = [status EXCEPT ![c] = code]
        /\ \/ where = "answered" /\ code = 500 /\ body[c].form = "unparsable"
           \/ where = "answered" /\ code = 404
           \/ where = "answered" /\ code = 403 /\ body[c].form = "bare"
           \/ where = "proofs" /\ code = 0
  <2>1. status = [status EXCEPT ![c] = 0]
    BY DEF RInv, StatusInv, Arrive
  <2> QED  BY <2>1 DEF Arrive, Answer, Continue
<1>2. /\ handler[c] = "idle" /\ UNCHANGED <<vars, body, inserted, notes, noteId>>
  BY DEF Arrive
<1>3. UNCHANGED <<delegations, options, pc, verdict, args>>
  BY <1>2 DEF vars, stores, locals
<1>4. handler'[c] = where /\ status'[c] = code
  BY <1>1 DEF RInv, StatusInv
<1>5. RequestInv(c)'
  <2>1. RouteInv(c)'
    BY <1>1, <1>2, <1>3, <1>4 DEF RInv, RequestInv, RouteInv
  <2>2. DeliveryInv(c)'
    BY <1>2, <1>3 DEF RInv, RequestInv, DeliveryInv, Prfs
  <2>3. AnswerInv(c)'
    BY <1>1, <1>2, <1>3, <1>4 DEF AnswerInv
  <2> QED  BY <2>1, <2>2, <2>3 DEF RequestInv
<1>6. BodyInv' /\ Keeps
  BY <1>2, <1>3 DEF RInv, BodyInv, Keeps
<1>7. /\ StatusInv' /\ status'[c] # 201 /\ handler[c] # "answered"
      /\ UNCHANGED <<notes, noteId>>
  BY <1>1, <1>2, <1>4 DEF RInv, StatusInv
<1>8. \A d \in Call \ {c} : UNCHANGED RequestState(d)
  BY <1>1, <1>2, <1>3 DEF RInv, StatusInv, RequestState
<1> QED  BY <1>5, <1>6, <1>7, <1>8, OwnRequest

\* A proof of the request is filed, or is found not to decode.
LEMMA InsertStep ==
  ASSUME TypeOK, RInv, NEW c \in Call, InsertProof(c)
  PROVE  RInv'
<1> DEFINE ps == body[c].proofs
           d == ps[inserted[c] + 1]
<1>1. /\ handler[c] = "proofs" /\ inserted[c] < Len(ps)
      /\ UNCHANGED <<body, noteId, notes>>
      /\ \/ Dlg[d].seal = "undecodable" /\ Answer(c, 500) /\ UNCHANGED <<vars, inserted>>
         \/ /\ Dlg[d].seal # "undecodable" /\ InsertByCid(d, d)
            /\ inserted' = [inserted EXCEPT ![c] = @ + 1] /\ UNCHANGED <<handler, status>>
  BY DEF InsertProof
<1>2. BodyInv /\ RequestInv(c) /\ status[c] = 0 /\ pc[c] = "idle" /\ verdict[c] = "none"
  BY <1>1 DEF RInv, StatusInv, RequestInv, RouteInv
<1>3. ps \in Seq(DlgCid) /\ Len(ps) \in Nat /\ inserted[c] \in Nat /\ d \in DlgCid
  BY <1>1, <1>2, BodyFields
<1>4. UNCHANGED <<options, pc, verdict, args>>
  BY <1>1 DEF InsertByCid, vars, locals
<1>5. PICK where, code :
        /\ handler' = [handler EXCEPT ![c] = where] /\ status' = [status EXCEPT ![c] = code]
        /\ \/ /\ where = "answered" /\ code = 500
              /\ Dlg[d].seal = "undecodable" /\ UNCHANGED <<inserted, delegations>>
           \/ /\ where = "proofs" /\ code = 0
              /\ inserted' = [inserted EXCEPT ![c] = @ + 1]
              /\ delegations' = [delegations EXCEPT ![d] = d]
  <2>1. status = [status EXCEPT ![c] = 0] /\ handler = [handler EXCEPT ![c] = "proofs"]
    BY <1>1, <1>2 DEF RInv, StatusInv
  <2> QED  BY <1>1, <2>1 DEF Answer, InsertByCid, vars, stores
<1>6. handler'[c] = where /\ status'[c] = code
  BY <1>5 DEF RInv, StatusInv
<1>7. Keeps
  BY <1>3, <1>5, VerifyAssumption DEF Keeps, TypeOK
<1>8. RequestInv(c)'
  <2>1. RouteInv(c)'
    BY <1>2, <1>4, <1>5, <1>6 DEF RouteInv
  <2>2. DeliveryInv(c)'
    <3>1. CASE UNCHANGED <<inserted, delegations>>
      BY <1>1, <1>2, <1>4, <3>1 DEF RequestInv, DeliveryInv, Prfs
    <3>2. CASE /\ inserted' = [inserted EXCEPT ![c] = @ + 1]
               /\ delegations' = [delegations EXCEPT ![d] = d]
      <4>1. inserted'[c] = inserted[c] + 1 /\ delegations'[d] = d
        BY <1>2, <1>3, <3>2 DEF BodyInv, TypeOK
      <4>2. ASSUME NEW n \in 1..inserted'[c]
            PROVE  delegations'[ps[n]] # NoDelegation
        <5>1. CASE n = inserted[c] + 1
          BY <1>3, <4>1, <5>1, VerifyAssumption
        <5>2. CASE n # inserted[c] + 1
          <6>1. n \in 1..inserted[c]
            BY <1>3, <4>1, <5>2
          <6>2. ps[n] \in DlgCid
            BY <1>1, <1>2, <1>3, <6>1, BodyFields
          <6>3. delegations[ps[n]] # NoDelegation
            BY <1>2, <6>1 DEF RequestInv, DeliveryInv
          <6> QED  BY <1>7, <6>2, <6>3 DEF Keeps
        <5> QED  BY <5>1, <5>2
      <4>3. body'[c].proofs = ps /\ inserted'[c] <= Len(ps)
        BY <1>1, <1>3, <4>1
      <4>4. pc'[c] = "idle" /\ verdict'[c] = "none"
        BY <1>2, <1>4
      <4> QED  BY <4>2, <4>3, <4>4 DEF DeliveryInv
    <3> QED  BY <1>5, <3>1, <3>2
  <2>3. AnswerInv(c)'
    <3>1. status'[c] # 403 /\ (status'[c] = 500 => Dlg[d].seal = "undecodable")
      BY <1>5, <1>6
    <3>2. body'[c] = body[c]
      BY <1>1
    <3>3. inserted[c] + 1 \in 1..Len(ps)
      BY <1>1, <1>3
    <3>4. status'[c] = 500 => \E n \in 1..Len(ps) : Dlg[ps[n]].seal = "undecodable"
      BY <3>1, <3>3
    <3> QED  BY <3>1, <3>2, <3>4 DEF AnswerInv
  <2> QED  BY <2>1, <2>2, <2>3 DEF RequestInv
<1>9. BodyInv' /\ \A e \in Call \ {c} : inserted'[e] = inserted[e]
  BY <1>1, <1>2, <1>5 DEF BodyInv
<1> HIDE DEF d, ps
<1>10. /\ StatusInv' /\ status'[c] # 201 /\ handler[c] # "answered"
       /\ UNCHANGED <<notes, noteId>>
  BY <1>1, <1>5, <1>6 DEF RInv, StatusInv
<1>11. \A e \in Call \ {c} : UNCHANGED RequestState(e)
  BY <1>1, <1>4, <1>5, <1>9 DEF RInv, StatusInv, RequestState
<1> QED  BY <1>7, <1>8, <1>9, <1>10, <1>11, OwnRequest

\* All proofs are filed and the invocation is passed to verifyInvocation.
LEMMA DispatchStep ==
  ASSUME TypeOK, RInv, NEW c \in Call, Dispatch(c)
  PROVE  RInv'
<1> DEFINE inv == Inv[options[c].inv]
<1>1. /\ handler[c] = "proofs" /\ inserted[c] = Len(body[c].proofs)
      /\ UNCHANGED <<body, inserted, noteId, notes>>
      /\ \/ inv.seal = "undecodable" /\ Answer(c, 500) /\ UNCHANGED vars
         \/ inv.cmd # RouteCommand /\ Answer(c, 403) /\ UNCHANGED vars
         \/ inv.cmd = RouteCommand /\ Begin(c) /\ Continue(c, "verifying")
  BY DEF Dispatch
<1>2. BodyInv /\ RequestInv(c) /\ status[c] = 0 /\ pc[c] = "idle" /\ verdict[c] = "none"
  BY <1>1 DEF RInv, StatusInv, RequestInv, RouteInv
<1>3. \/ UNCHANGED <<delegations, options, pc, verdict, args>>
      \/ Begin(c)
  BY <1>1 DEF vars, stores, locals
<1>4. /\ UNCHANGED <<delegations, options>>
      /\ \A d \in Call \ {c} : pc'[d] = pc[d] /\ verdict'[d] = verdict[d] /\ args'[d] = args[d]
  BY <1>3, OwnSteps
<1>5. PICK where, code :
        /\ handler' = [handler EXCEPT ![c] = where] /\ status' = [status EXCEPT ![c] = code]
        /\ \/ where = "answered" /\ code = 500 /\ inv.seal = "undecodable" /\ UNCHANGED vars
           \/ where = "answered" /\ code = 403 /\ inv.cmd # RouteCommand /\ UNCHANGED vars
           \/ where = "verifying" /\ code = 0 /\ inv.cmd = RouteCommand /\ Begin(c)
  <2>1. status = [status EXCEPT ![c] = 0]
    BY <1>2 DEF RInv, StatusInv
  <2> QED  BY <1>1, <2>1 DEF Answer, Continue
<1>6. handler'[c] = where /\ status'[c] = code
  BY <1>5 DEF RInv, StatusInv
<1>7. RequestInv(c)'
  <2>1. CASE UNCHANGED vars
    <3>1. UNCHANGED <<pc, verdict, args>> /\ where = "answered"
      BY <1>2, <1>5, <2>1 DEF vars, locals, Begin, Settle, Suspend, TypeOK
    <3>2. RouteInv(c)'
      BY <1>2, <1>4, <1>6, <3>1 DEF RouteInv
    <3>3. DeliveryInv(c)'
      BY <1>1, <1>2, <1>4, <3>1 DEF RequestInv, DeliveryInv, Prfs
    <3>4. AnswerInv(c)'
      BY <1>1, <1>4, <1>5, <1>6, <3>1 DEF AnswerInv
    <3> QED  BY <3>2, <3>3, <3>4 DEF RequestInv
  <2>2. CASE where = "verifying" /\ code = 0 /\ inv.cmd = RouteCommand /\ Begin(c)
    <3>1. /\ args'[c] = options[c] /\ pc'[c] # "idle"
          /\ verdict'[c] \in {"none", "invalidInvocationSignature", "audienceMismatch"}
      BY <1>2, <2>2, OwnSteps DEF Begin, Settle, Suspend, TypeOK
    <3>2. RouteInv(c)'
      BY <1>4, <1>6, <2>2, <3>1 DEF RouteInv
    <3>3. DeliveryInv(c)'
      BY <1>1, <1>2, <1>4, <3>1 DEF RequestInv, DeliveryInv
    <3>4. AnswerInv(c)'
      BY <1>6, <2>2 DEF AnswerInv
    <3> QED  BY <3>2, <3>3, <3>4 DEF RequestInv
  <2> QED  BY <1>5, <2>1, <2>2
<1>8. BodyInv' /\ Keeps /\ \A d \in Call \ {c} : inserted'[d] = inserted[d]
  BY <1>1, <1>2, <1>4 DEF BodyInv, Keeps
<1> HIDE DEF inv
<1>9. /\ StatusInv' /\ status'[c] # 201 /\ handler[c] # "answered"
      /\ UNCHANGED <<notes, noteId>>
  BY <1>1, <1>5, <1>6 DEF RInv, StatusInv
<1>10. \A d \in Call \ {c} : UNCHANGED RequestState(d)
  BY <1>1, <1>4, <1>5, <1>8 DEF RInv, StatusInv, RequestState
<1> QED  BY <1>7, <1>8, <1>9, <1>10, OwnRequest

\* A call fails to find a proof only when it is not filed.
LEMMA NotFound ==
  ASSUME IInv, MapInv, NEW c \in Call, Resume(c), verdict'[c] = "getError"
  PROVE  pc[c] = "getAll" /\ \E k \in 1..Len(Prfs(c)) : delegations[Prfs(c)[k]] = NoDelegation
<1>1. ~CustomGetAllAnswers(c) /\ ~CustomLookupAnswers(c) /\ ~CustomClaimFails(c)
  BY RestAssumption DEF CustomGetAllAnswers, CustomLookupAnswers, CustomClaimFails
<1>2. ~CheckProofs(c)
  BY CheckDeserved
<1>3. verdict[c] = "none" /\ TypeOK
  BY OwnSteps DEF IInv
<1>4. ~LookupAnswers(c) /\ ~JudgeRevocations(c) /\ ~Claim(c)
  BY <1>3 DEF LookupAnswers, JudgeRevocations, Claim, Settle, Suspend, TypeOK
<1>5. GetAllAnswers(c)
  BY <1>1, <1>2, <1>4 DEF Resume
<1> QED  BY <1>3, <1>5 DEF GetAllAnswers, Suspend

\* verifyInvocation goes on.
LEMMA VerifyingStep ==
  ASSUME IInv, MapInv, RInv, NEW c \in Call, Verifying(c)
  PROVE  RInv'
<1>1. handler[c] = "verifying" /\ Resume(c) /\ UNCHANGED service
  BY DEF Verifying
<1>2. UNCHANGED <<body, handler, inserted, status, noteId, notes>>
  BY <1>1 DEF service
<1>3. /\ UNCHANGED <<delegations, options, args>>
      /\ \A d \in Call \ {c} : pc'[d] = pc[d] /\ verdict'[d] = verdict[d]
      /\ pc[c] # "idle" /\ pc'[c] # "idle"
  BY <1>1, OwnSteps DEF IInv
<1>4. RequestInv(c) /\ status[c] = 0 /\ BodyInv
  BY <1>1 DEF RInv, StatusInv
<1>5. RouteInv(c)'
  BY <1>2, <1>3, <1>4 DEF RequestInv, RouteInv
<1>6. DeliveryInv(c)'
  <2>1. verdict'[c] = "getError" =>
          \E k \in 1..Len(Prfs(c)) : \A n \in 1..Len(body[c].proofs) : body[c].proofs[n] # Prfs(c)[k]
    <3>1. SUFFICES ASSUME verdict'[c] = "getError"
                   PROVE  \E k \in 1..Len(Prfs(c)) :
                            \A n \in 1..Len(body[c].proofs) : body[c].proofs[n] # Prfs(c)[k]
      OBVIOUS
    <3>2. PICK k \in 1..Len(Prfs(c)) : delegations[Prfs(c)[k]] = NoDelegation
      BY <1>1, <3>1, NotFound
    <3>3. \A n \in 1..Len(body[c].proofs) : delegations[body[c].proofs[n]] # NoDelegation
      BY <1>3, <1>4 DEF RequestInv, DeliveryInv
    <3> QED  BY <3>2, <3>3
  <2>2. Prfs(c)' = Prfs(c)
    BY <1>3 DEF Prfs
  <2> QED  BY <1>2, <1>3, <1>4, <2>1, <2>2 DEF RequestInv, DeliveryInv
<1>7. AnswerInv(c)'
  BY <1>2, <1>4 DEF AnswerInv
<1>8. /\ StatusInv' /\ BodyInv' /\ Keeps /\ status'[c] # 201 /\ handler[c] # "answered"
      /\ UNCHANGED <<notes, noteId>>
  BY <1>1, <1>2, <1>3, <1>4 DEF RInv, StatusInv, BodyInv, Keeps
<1>9. \A d \in Call \ {c} : UNCHANGED RequestState(d)
  BY <1>2, <1>3 DEF RequestState
<1> QED  BY <1>5, <1>6, <1>7, <1>8, <1>9, OwnRequest DEF RequestInv

\* The note gets the number after the last one.
LEMMA CreateStep ==
  ASSUME RInv, NEW c \in Call, handler[c] = "verifying", verdict[c] = "ok",
         args[c].inv \in InvCid,
         UNCHANGED <<verdict, args>>, Answer(c, 201),
         CreateNote(c, Cardinality(DOMAIN notes) + 1)
  PROVE  NoteInv' /\ StatusInv'
<1>1. PICK n \in Nat : DOMAIN notes = 1..n
  BY DEF RInv, NoteInv
<1>2. Cardinality(DOMAIN notes) = n
  <2>1. Cardinality(1..n) = IF 1 > n THEN 0 ELSE n - 1 + 1
    <3>1. 1 \in Int /\ n \in Int
      OBVIOUS
    <3> QED  BY <3>1, FS_Interval, Zenon
  <2>2. Cardinality(1..n) = n
    BY <2>1
  <2> QED  BY <1>1, <2>2, Zenon
<1>3. /\ \A d \in Call \ {c} : /\ handler'[d] = handler[d] /\ status'[d] = status[d]
                               /\ noteId'[d] = noteId[d]
      /\ handler'[c] = "answered" /\ status'[c] = 201 /\ noteId'[c] = n + 1
  BY <1>2 DEF RInv, StatusInv, Answer, CreateNote
<1>4. StatusInv'
  BY <1>2, <1>3 DEF RInv, StatusInv, Answer, CreateNote
<1>5. /\ DOMAIN notes' = 1..n+1
      /\ \A id \in 1..n : notes'[id] = notes[id]
      /\ notes'[n+1] = [inv |-> args[c].inv, by |-> c]
  BY <1>1, <1>2 DEF CreateNote
<1>6. \A id \in 1..n : notes[id].by \in Call \ {c}
  BY <1>1 DEF RInv, NoteInv
<1>7. ASSUME NEW id \in DOMAIN notes'
      PROVE  LET d == notes'[id].by IN
               /\ notes'[id] \in [inv : InvCid, by : Call] /\ notes'[id].inv = args'[d].inv
               /\ verdict'[d] = "ok" /\ handler'[d] = "answered" /\ noteId'[d] = id
  <2>1. CASE id = n + 1
    BY <1>3, <1>5, <2>1
  <2>2. CASE id \in 1..n
    BY <1>1, <1>3, <1>5, <1>6, <2>2 DEF RInv, NoteInv
  <2> QED  BY <1>5, <2>1, <2>2
<1>8. ASSUME NEW d \in Call, status'[d] = 201
      PROVE  noteId'[d] \in DOMAIN notes' /\ notes'[noteId'[d]].by = d
  <2>1. CASE d = c
    BY <1>3, <1>5, <2>1
  <2>2. CASE d # c
    <3>1. status[d] = 201 /\ noteId'[d] = noteId[d]
      BY <1>3, <1>8, <2>2
    <3>2. noteId[d] \in 1..n /\ notes[noteId[d]].by = d
      BY <1>1, <3>1 DEF RInv, NoteInv
    <3> QED  BY <1>5, <3>1, <3>2
  <2> QED  BY <2>1, <2>2
<1>9. n + 1 \in Nat
  OBVIOUS
<1> QED  BY <1>4, <1>5, <1>7, <1>8, <1>9 DEF NoteInv

\* The request is answered.
LEMMA ReplyStep ==
  ASSUME IInv, RInv, NEW c \in Call, Reply(c)
  PROVE  RInv'
<1>1. /\ handler[c] = "verifying" /\ pc[c] = "done"
      /\ UNCHANGED <<vars, body, inserted>>
  BY DEF Reply
<1>2. UNCHANGED <<delegations, options, pc, verdict, args>>
  BY <1>1 DEF vars, stores, locals
<1>3. RequestInv(c) /\ status[c] = 0 /\ BodyInv /\ args[c].inv \in InvCid
  BY <1>1, CallFields DEF RInv, StatusInv, IInv
<1>4. PICK code \in {201, 403, 500} :
        /\ Answer(c, code)
        /\ code = 201 => verdict[c] = "ok" /\ CreateNote(c, Cardinality(DOMAIN notes) + 1)
        /\ code = 403 => verdict[c] \in Structured
        /\ code = 500 => verdict[c] \notin Structured \cup {"ok"}
        /\ code # 201 => UNCHANGED <<notes, noteId>>
  BY DEF Reply
<1>5. /\ handler'[c] = "answered" /\ status'[c] = code
      /\ \A d \in Call \ {c} : handler'[d] = handler[d] /\ status'[d] = status[d]
  BY <1>4 DEF RInv, StatusInv, Answer
<1>6. RequestInv(c)'
  <2>1. RouteInv(c)'
    BY <1>1, <1>2, <1>3, <1>5 DEF RequestInv, RouteInv
  <2>2. DeliveryInv(c)'
    BY <1>1, <1>2, <1>3 DEF RequestInv, DeliveryInv, Prfs
  <2>3. AnswerInv(c)'
    BY <1>1, <1>2, <1>4, <1>5 DEF AnswerInv
  <2> QED  BY <2>1, <2>2, <2>3 DEF RequestInv
<1>7. BodyInv' /\ Keeps
  BY <1>1, <1>2, <1>3 DEF BodyInv, Keeps
<1>8. \A d \in Call \ {c} : UNCHANGED RequestState(d)
  BY <1>1, <1>2, <1>5 DEF RequestState
<1>9. CASE code = 201
  <2>1. NoteInv' /\ StatusInv'
    BY <1>1, <1>2, <1>3, <1>4, <1>9, CreateStep
  <2>2. ASSUME NEW d \in Call \ {c}  PROVE RequestInv(d)'
    BY <1>3, <1>7, <1>8, RequestFrame DEF RInv
  <2> QED  BY <1>6, <1>7, <2>1, <2>2 DEF RInv
<1>10. CASE code # 201
  <2>1. StatusInv' /\ UNCHANGED <<notes, noteId>>
    BY <1>4, <1>10 DEF RInv, StatusInv, Answer
  <2> QED  BY <1>1, <1>5, <1>6, <1>7, <1>8, <1>10, <2>1, OwnRequest
<1> QED  BY <1>9, <1>10

\* A revocation, the clock, and a stutter.
LEMMA AroundStep ==
  ASSUME RInv, Revoke \/ (Tick /\ UNCHANGED service) \/ UNCHANGED restVars
  PROVE  RInv'
<1>1. /\ UNCHANGED <<body, handler, inserted, status, noteId, notes>>
      /\ UNCHANGED <<delegations, options, pc, verdict, args>>
  BY DEF Revoke, InsertRevocation, Tick, restVars, service, vars, stores, locals
<1>2. BodyInv' /\ StatusInv' /\ NoteInv' /\ Keeps
  <2>1. BodyInv' /\ StatusInv'
    BY <1>1 DEF RInv, BodyInv, StatusInv
  <2>2. NoteInv'
    BY <1>1 DEF RInv, NoteInv
  <2> QED  BY <1>1, <2>1, <2>2 DEF Keeps
<1>3. ASSUME NEW c \in Call  PROVE RequestInv(c)'
  <2>1. UNCHANGED RequestState(c)
    BY <1>1 DEF RequestState
  <2> QED  BY <1>2, <2>1, RequestFrame DEF RInv
<1> QED  BY <1>2, <1>3 DEF RInv

----------------------------------------------------------------------------
(* The theorems                                                            *)

\* The inductive invariant: of the calls, of the Map stores, and of the handlers
\* and the notes on top of them.
THEOREM ServiceInductive == RestSpec => [](IInv /\ MapInv /\ RInv)
<1>1. RestInit => RInv
  <2>1. \A c \in Call : RequestInv(c) <=> RouteInv(c) /\ DeliveryInv(c) /\ AnswerInv(c)
    BY DEF RequestInv
  <2>2. RestInit => BodyInv /\ StatusInv /\ NoteInv
    <3>1. 0 \in Nat /\ 1..0 = {}
      OBVIOUS
    <3>2. RestInit => DOMAIN notes = {} /\ \A c \in Call : status[c] = 0
      BY DEF RestInit
    <3>3. RestInit => NoteInv
      BY <3>1, <3>2 DEF NoteInv
    <3> QED  BY <3>3 DEF RestInit, BodyInv, StatusInv
  <2>3. ASSUME RestInit, NEW c \in Call
        PROVE  RouteInv(c) /\ DeliveryInv(c) /\ AnswerInv(c)
    <3>1. /\ pc[c] = "idle" /\ verdict[c] = "none" /\ handler[c] = "idle"
          /\ inserted[c] = 0 /\ status[c] = 0
      BY <2>3 DEF RestInit, Init
    <3>2. Len(body[c].proofs) \in Nat
      BY <2>2, <2>3, BodyFields
    <3> QED  BY <3>1, <3>2 DEF RouteInv, DeliveryInv, AnswerInv
  <2> QED  BY <2>1, <2>2, <2>3 DEF RInv
<1>2. IInv /\ MapInv /\ RInv /\ [RestNext]_restVars => RInv'
  <2> SUFFICES ASSUME IInv, MapInv, RInv, [RestNext]_restVars  PROVE RInv'
    OBVIOUS
  <2>1. TypeOK
    BY DEF IInv
  <2>2. CASE \E c \in Call : Arrive(c)
    BY <2>2, ArriveStep
  <2>3. CASE \E c \in Call : InsertProof(c)
    BY <2>1, <2>3, InsertStep
  <2>4. CASE \E c \in Call : Dispatch(c)
    BY <2>1, <2>4, DispatchStep
  <2>5. CASE \E c \in Call : Verifying(c)
    BY <2>5, VerifyingStep
  <2>6. CASE \E c \in Call : Reply(c)
    BY <2>6, ReplyStep
  <2>7. CASE Revoke \/ (Tick /\ UNCHANGED service) \/ UNCHANGED restVars
    BY <2>7, AroundStep
  <2> QED  BY <2>2, <2>3, <2>4, <2>5, <2>6, <2>7 DEF RestNext, Handle
<1>3. RestSpec => [](IInv /\ MapInv)
  BY ServiceMapStores, RequestsAreCalls, MapInvariant, PTL
<1> QED  BY <1>1, <1>2, <1>3, PTL DEF RestSpec

\* Handlers, responses and notes are well formed.
THEOREM ServiceTyped == RestSpec => []RestTypeOK
<1>1. RInv => RestTypeOK
  <2>1. RInv => DOMAIN notes \subseteq Nat /\ \A id \in DOMAIN notes : notes[id] \in [inv : InvCid, by : Call]
    BY DEF RInv, NoteInv
  <2> QED  BY <2>1 DEF RInv, BodyInv, StatusInv, RequestInv, RouteInv, RestTypeOK
<1> QED  BY <1>1, ServiceInductive, PTL

\* Replay prevention reaches the notes: no invocation makes two of them.
THEOREM NotedOnce == RestSpec => []OneNotePerInvocation
<1>1. IInv /\ RInv => OneNotePerInvocation
  BY DEF IInv, ReplayInv, AcceptedOnce, Accepted, RInv, NoteInv, OneNotePerInvocation
<1> QED  BY <1>1, ServiceInductive, PTL

\* Numbering by the size of the Map never overwrites a note.
THEOREM RepliesNamed == RestSpec => []RepliesNameNotes
<1>1. RInv => RepliesNameNotes
  BY DEF RInv, NoteInv, RepliesNameNotes
<1> QED  BY <1>1, ServiceInductive, PTL

\* A note has the authority verifyInvocation requires, at an instant of its own
\* request, whatever the other requests inserted.
THEOREM NotedWithAuthority == RestSpec => []NotesAreAuthorized
<1>1. IInv /\ RInv => NotesAreAuthorized
  <2> SUFFICES ASSUME IInv, RInv, NEW id \in DOMAIN notes
               PROVE  LET c == notes[id].by
                          inv == notes[id].inv
                      IN  /\ Inv[inv].cmd = RouteCommand /\ Genuine(inv, Service)
                          /\ \E t \in began[c].clock..clock : AuthorizedAt(inv, t, 0)
                          /\ ~RevokedBy(inv, began[c].revocations)
    BY DEF NotesAreAuthorized
  <2> DEFINE c == notes[id].by
             inv == notes[id].inv
  <2>1. c \in Call /\ inv = args[c].inv /\ verdict[c] = "ok" /\ TypeOK
    BY DEF RInv, NoteInv, IInv
  <2>2. pc[c] # "idle"
    BY <2>1 DEF TypeOK
  <2>3. /\ args[c] \in Options /\ Inv[inv].cmd = RouteCommand
    BY <2>1, <2>2, CallFields DEF RInv, RequestInv, RouteInv
  <2>4. args[c].executor = Service /\ args[c].now = NoNow /\ args[c].leeway = 0 /\ args[c].revoking
    BY <2>3, RestAssumption
  <2>5. /\ Genuine(args[c].inv, args[c].executor)
        /\ \E t \in Instants(c) : AuthorizedAt(args[c].inv, t, args[c].leeway)
    BY <2>1 DEF IInv, CallInv, EvidenceInv, Passed
  <2>6. ~RevokedBy(args[c].inv, began[c].revocations)
    <3>1. Heeded(began[c].revocations) = began[c].revocations
      BY RestAssumption DEF Heeded
    <3>2. \A k \in 1..Len(Prfs(c)) : Standing(c, k)
      BY <2>1, <2>4 DEF IInv, CallInv, RevocationInv, Cleared
    <3> QED  BY <2>1, <3>1, <3>2 DEF Standing, RevokedBy, Prfs
  <2>7. Instants(c) = began[c].clock..clock
    BY <2>4 DEF Instants
  <2> HIDE DEF c, inv
  <2>8. Genuine(inv, Service) /\ \E t \in began[c].clock..clock : AuthorizedAt(inv, t, 0)
    BY <2>1, <2>4, <2>5, <2>7
  <2> QED  BY <2>1, <2>3, <2>6, <2>8 DEF c, inv
<1> QED  BY <1>1, ServiceInductive, PTL

\* What refused a request is the request itself, a revocation or the clock.
THEOREM RefusalsCaused == RestSpec => []RefusedForCause
<1>1. IInv /\ MapInv /\ RInv => RefusedForCause
  <2> SUFFICES ASSUME IInv, MapInv, RInv, NEW c \in Call
               PROVE
    LET inv == options[c].inv
        brought == {body[c].proofs[n] : n \in DOMAIN body[c].proofs}
    IN
    /\ status[c] = 403 /\ body[c].form = "full" =>
         \/ Inv[inv].cmd # RouteCommand
         \/ ~Genuine(inv, Service)
         \/ \E k \in DOMAIN Prf[inv] : Prf[inv][k] \notin brought
         \/ \E t \in began[c].clock..clock : ~AuthorizedAt(inv, t, 0)
         \/ RevokedBy(inv, revocations)
         \/ Claimed(c)
    /\ status[c] = 500 =>
         \/ body[c].form = "unparsable"
         \/ Inv[inv].seal = "undecodable"
         \/ \E d \in brought : Dlg[d].seal = "undecodable"
         \/ Unreadable(inv, revocations)
    BY DEF RefusedForCause
  <2> DEFINE inv == options[c].inv
             ps == body[c].proofs
             brought == {ps[n] : n \in DOMAIN ps}
  <2>1. TypeOK /\ AnswerInv(c) /\ RouteInv(c) /\ DeliveryInv(c) /\ BodyInv
    BY DEF IInv, RInv, RequestInv
  <2>2. DOMAIN ps = 1..Len(ps)
    BY <2>1, BodyFields
  <2>3. ASSUME pc[c] = "done"
        PROVE  /\ args[c] = options[c] /\ verdict[c] \in Outcome
               /\ args[c].executor = Service /\ args[c].leeway = 0
               /\ Instants(c) = began[c].clock..clock
               /\ Prfs(c) = Prf[inv] /\ DOMAIN Prf[inv] = 1..Len(Prf[inv])
    <3>1. args[c] = options[c] /\ verdict[c] \in Outcome /\ options[c] \in Options
      BY <2>1, <2>3 DEF RouteInv, TypeOK
    <3>2. options[c].executor = Service /\ options[c].now = NoNow /\ options[c].leeway = 0
      BY <3>1, RestAssumption
    <3>3. Prfs(c) \in Seq(DlgCid)
      BY <2>1, <2>3, CallFields
    <3> QED  BY <3>1, <3>2, <3>3 DEF Instants, Prfs
  <2>4. ASSUME pc[c] = "done", verdict[c] \in Structured
        PROVE  \/ ~Genuine(inv, Service)
               \/ \E k \in DOMAIN Prf[inv] : Prf[inv][k] \notin brought
               \/ \E t \in began[c].clock..clock : ~AuthorizedAt(inv, t, 0)
               \/ RevokedBy(inv, revocations)
               \/ Claimed(c)
    <3>1. Deserved(c)
      BY DEF MapInv
    <3>2. CASE verdict[c] \in
                 {"invalidInvocationSignature", "audienceMismatch", "invalidProofSignature"}
      BY <2>3, <2>4, <3>1, <3>2 DEF Deserved
    <3>3. CASE verdict[c] \in CheckReason \ {"outOfRange"}
      <4>1. \E t \in Instants(c) : ~AuthorizedAt(args[c].inv, t, args[c].leeway)
        BY <3>1, <3>3 DEF Deserved
      <4>2. args[c].inv = inv /\ args[c].leeway = 0 /\ Instants(c) = began[c].clock..clock
        BY <2>3, <2>4
      <4> QED  BY <4>1, <4>2, Zenon
    <3>4. CASE verdict[c] = "getError"
      <4>1. PICK k \in 1..Len(Prfs(c)) : \A n \in 1..Len(ps) : ps[n] # Prfs(c)[k]
        BY <2>1, <3>4 DEF DeliveryInv
      <4>2. k \in DOMAIN Prf[inv] /\ Prf[inv][k] = Prfs(c)[k]
        BY <2>3, <2>4, <4>1
      <4>3. Prf[inv][k] \notin brought
        BY <2>2, <4>1, <4>2
      <4> QED  BY <4>2, <4>3
    <3>5. CASE verdict[c] = "revoked"
      <4>1. Heeded(revocations) = revocations
        BY RestAssumption DEF Heeded
      <4> QED  BY <2>3, <2>4, <3>5, <4>1, RestAssumption DEF IInv, CallInv, RevocationInv
    <3>6. CASE verdict[c] = "replay"
      <4>1. PICK d \in Call \ {c} : verdict[d] \in {"ok", "claimError"} /\ args[d].inv = args[c].inv
        BY <3>6 DEF IInv, ReplayInv, ReplayMeansClaimed
      <4>2. verdict[d] = "ok" /\ pc[d] # "idle"
        BY <2>1, <4>1 DEF MapInv, Deserved, TypeOK
      <4>3. args[d] # Idle
        BY <2>1, <4>2 DEF TypeOK
      <4> QED  BY <2>3, <2>4, <4>1, <4>2, <4>3 DEF Claimed
    <3>7. verdict[c] \in (CheckReason \ {"outOfRange"})
            \cup {"invalidInvocationSignature", "audienceMismatch", "invalidProofSignature",
                  "getError", "revoked", "replay"}
      BY <2>3, <2>4, <3>1 DEF Deserved, Structured, Outcome, VerifyReason
    <3> QED  BY <3>2, <3>3, <3>4, <3>5, <3>6, <3>7
  <2>5. ASSUME pc[c] = "done"
        PROVE  verdict[c] \in Structured \cup {"ok"} \/ Unreadable(inv, revocations)
    <3>1. /\ verdict[c] \notin {"outOfRange", "claimError"}
          /\ verdict[c] = "lookupError" => Unreadable(inv, revocations)
      BY <2>3, <2>5 DEF MapInv, Deserved
    <3> QED  BY <2>3, <2>5, <3>1 DEF Structured
  <2> QED  BY <2>1, <2>2, <2>4, <2>5 DEF AnswerInv
<1> QED  BY <1>1, ServiceInductive, PTL
=============================================================================
