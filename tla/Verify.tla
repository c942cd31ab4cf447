------------------------------- MODULE Verify -------------------------------
(***************************************************************************)
(* Concurrent calls of verifyInvocation (packages/ucan/src/invocation/     *)
(* verify.ts) over the three stores they share.                            *)
(*                                                                         *)
(* JavaScript runs a call without interruption up to its next await, so a  *)
(* call is a process that takes one step from await to await; the answer   *)
(* of a store is a step of its own, since a store settles its promise at   *)
(* some moment while the call is suspended and the call resumes later.     *)
(* Between any two steps other calls run, delegations and revocations      *)
(* arrive, the clock moves and the caller changes the objects it passed.   *)
(* The Map stores happen to compute their answers in the step that asks    *)
(* for them; the interfaces promise less, and the model takes that less.   *)
(* Only the return after a claim is one step with the claim: nothing is    *)
(* read or written between the two.                                        *)
(*                                                                         *)
(* MapDelegationStore, MapRevocationStore and MapReplayStore are the       *)
(* stores.  With CustomStores they are other implementations of the same   *)
(* interfaces, which may fail, answer getAll with anything, add records    *)
(* to a lookup, or lose the acknowledgement of a claim.                    *)
(***************************************************************************)
EXTENDS Evidence

CONSTANTS
  Call,           \* calls of verifyInvocation
  Options,        \* the parameters callers pass: see OptionsType
  NoNow,          \* options.now left undefined
  NoDelegation,   \* a CID the delegation store has nothing for
  Idle,           \* the locals of a call not made yet
  Filings,        \* the (key, delegation) pairs that get inserted
  CustomStores,   \* see above
  Horizon         \* bound on the clock

OptionsType ==
  [inv : InvCid, executor : Did, now : Nat \cup {NoNow}, leeway : Nat, revoking : BOOLEAN]

ASSUME VerifyAssumption ==
  /\ Options \subseteq OptionsType
  /\ NoNow \notin Nat /\ NoDelegation \notin DlgCid /\ Idle \notin OptionsType
  /\ Filings \subseteq DlgCid \X DlgCid
  /\ CustomStores \in BOOLEAN /\ Horizon \in Nat

VARIABLES
  delegations,    \* MapDelegationStore.map: what is filed under each CID
  revocations,    \* MapRevocationStore.map: each record is filed under its target
  seen,           \* MapReplayStore.seen
  clock,          \* Timestamp.now()
  options,        \* the parameters of each call, which stay its caller's
  pc,             \* where each call is suspended
  args,           \* the parameters as captured when the call began
  fetched,        \* what getAll answered, then verifiedProofs
  at,             \* the proof whose revocations are looked up
  found,          \* what lookup answered
  verdict,        \* "ok", or the reason the call rejected with
  began           \* history: the revocations and the clock as the call found them

stores == <<delegations, revocations, seen>>
locals == <<args, fetched, at, found, began>>
vars == <<stores, clock, options, pc, locals, verdict>>

VerifyReason ==
  {"invalidInvocationSignature", "audienceMismatch", "getError", "proofCountMismatch",
   "proofCidMismatch", "invalidProofSignature", "lookupError", "revoked", "replay",
   "claimError"}

Outcome == CheckReason \cup VerifyReason \cup {"ok"}

Init ==
  /\ delegations = [d \in DlgCid |-> NoDelegation] /\ revocations = {} /\ seen = {}
  /\ clock = 0 /\ options \in [Call -> Options]
  /\ pc = [c \in Call |-> "idle"] /\ verdict = [c \in Call |-> "none"]
  /\ args = [c \in Call |-> Idle]
  /\ fetched = [c \in Call |-> <<>>] /\ at = [c \in Call |-> 1]
  /\ found = [c \in Call |-> {}]
  /\ began = [c \in Call |-> [revocations |-> {}, clock |-> 0]]

Prfs(c) == Prf[args[c].inv]

Settle(c, outcome) ==
  /\ pc' = [pc EXCEPT ![c] = "done"]
  /\ verdict' = [verdict EXCEPT ![c] = outcome]

Suspend(c, where) == pc' = [pc EXCEPT ![c] = where] /\ UNCHANGED verdict

----------------------------------------------------------------------------
(* The steps of a call                                                     *)

\* Up to getAll: capture the options, snapshot and authenticate the invocation.
Begin(c) ==
  LET o == options[c] IN
  /\ pc[c] = "idle"
  /\ args' = [args EXCEPT ![c] = o]
  /\ began' = [began EXCEPT ![c] = [revocations |-> revocations, clock |-> clock]]
  /\ \/ Inv[o.inv].seal # "verifies" /\ Settle(c, "invalidInvocationSignature")
     \/ /\ Inv[o.inv].seal = "verifies" /\ Inv[o.inv].aud # o.executor
        /\ Settle(c, "audienceMismatch")
     \/ Inv[o.inv].seal = "verifies" /\ Inv[o.inv].aud = o.executor /\ Suspend(c, "getAll")
  /\ UNCHANGED <<stores, clock, options, fetched, at, found>>

\* MapDelegationStore.getAll, whole or not at all.
GetAllAnswers(c) ==
  LET cids == Prfs(c) IN
  /\ pc[c] = "getAll"
  /\ IF \E k \in 1..Len(cids) : delegations[cids[k]] = NoDelegation
     THEN Settle(c, "getError") /\ UNCHANGED fetched
     ELSE /\ fetched' = [fetched EXCEPT ![c] = [k \in 1..Len(cids) |-> delegations[cids[k]]]]
          /\ Suspend(c, "fetched")
  /\ UNCHANGED <<stores, clock, options, args, at, found, began>>

CustomGetAllAnswers(c) ==
  /\ CustomStores /\ pc[c] = "getAll"
  /\ \/ Settle(c, "getError") /\ UNCHANGED fetched
     \/ \E n \in 0..Len(Prfs(c)) + 1 : \E answer \in [1..n -> DlgCid] :
          /\ fetched' = [fetched EXCEPT ![c] = answer]
          /\ Suspend(c, "fetched")
  /\ UNCHANGED <<stores, clock, options, args, at, found, began>>

\* A slip: proofs are not compared with the CIDs they were asked for by.
TrustAnswers(cids, answer) ==
  IF Len(answer) # Len(cids) THEN "proofCountMismatch"
  ELSE FirstFault([k \in 1..Len(cids) |->
         IF Dlg[answer[k]].seal # "verifies" THEN "invalidProofSignature" ELSE "ok"])

\* The loop that detaches and authenticates the proofs.
ProofFault(cids, answer) ==
  LET At(k) == IF Dlg[answer[k]].seal = "undecodable" THEN "invalidProofSignature"
               ELSE IF answer[k] # cids[k] THEN "proofCidMismatch"
               ELSE IF Dlg[answer[k]].seal = "forged" THEN "invalidProofSignature"
               ELSE "ok"
  IN  IF Len(answer) # Len(cids) THEN "proofCountMismatch"
      ELSE FirstFault([k \in 1..Len(cids) |-> At(k)])

\* options.now, or the clock as checkResolved reads it.
Now(o) == IF o.now = NoNow THEN clock ELSE o.now

\* Slips: options.revocationStore is read after the await ...
RevokingReadLate(c) ==
  LET o == args[c]
      proofFault == ProofFault(Prfs(c), fetched[c])
      fault == IF proofFault # "ok" THEN proofFault
               ELSE CheckResolved(Inv[o.inv], Resolve(fetched[c]), Now(o), o.leeway)
  IN
  /\ pc[c] = "fetched"
  /\ IF fault # "ok" THEN Settle(c, fault)
     ELSE Suspend(c, IF options[c].revoking /\ Prfs(c) # <<>> THEN "lookup" ELSE "claim")
  /\ UNCHANGED <<stores, clock, options, locals>>

\* ... or the CID is recorded before the checks are over.
RecordFirst(c) ==
  /\ pc[c] = "fetched"
  /\ IF ProofFault(Prfs(c), fetched[c]) # "ok"
     THEN Settle(c, ProofFault(Prfs(c), fetched[c]))
     ELSE Suspend(c, "claim")
  /\ seen' = seen \cup {args[c].inv}
  /\ UNCHANGED <<delegations, revocations, clock, options, locals>>

\* Up to the first lookup, or to the claim when there is nothing to look up.
CheckProofs(c) ==
  LET o == args[c]
      proofFault == ProofFault(Prfs(c), fetched[c])
      fault == IF proofFault # "ok" THEN proofFault
               ELSE CheckResolved(Inv[o.inv], Resolve(fetched[c]), Now(o), o.leeway)
  IN
  /\ pc[c] = "fetched"
  /\ IF fault # "ok" THEN Settle(c, fault)
     ELSE Suspend(c, IF o.revoking /\ Prfs(c) # <<>> THEN "lookup" ELSE "claim")
  /\ UNCHANGED <<stores, clock, options, locals>>

\* MapRevocationStore.lookup, which decodes the snapshots filed under the CID and
\* throws when one of them does not decode.
LookupAnswers(c) ==
  LET stored == {r \in revocations : Rev[r].target = Prfs(c)[at[c]]} IN
  /\ pc[c] = "lookup"
  /\ \/ (\A r \in stored : Rev[r].decodes)
        /\ found' = [found EXCEPT ![c] = stored] /\ Suspend(c, "looked")
     \/ (\E r \in stored : ~Rev[r].decodes) /\ Settle(c, "lookupError") /\ UNCHANGED found
  /\ UNCHANGED <<stores, clock, options, args, fetched, at, began>>

CustomLookupAnswers(c) ==
  /\ CustomStores /\ pc[c] = "lookup"
  /\ \/ Settle(c, "lookupError") /\ UNCHANGED found
     \/ \E more \in SUBSET RevCid :
          /\ found' = [found EXCEPT ![c] =
                         {r \in revocations : Rev[r].target = Prfs(c)[at[c]]} \cup more]
          /\ Suspend(c, "looked")
  /\ UNCHANGED <<stores, clock, options, args, fetched, at, began>>

\* Slips: slice(0, k), the whole array, or no second look at the record.
StrictAncestors(c, k, r) ==
  Revokes(Prfs(c)[k], r) /\ AncestorIssued(fetched[c], k - 1, r)
WholeChain(c, k, r) ==
  Revokes(Prfs(c)[k], r) /\ AncestorIssued(fetched[c], Len(fetched[c]), r)
Unauthenticated(c, k, r) == AncestorIssued(fetched[c], k, r)

\* Authority over the proof at k: proofs.slice(0, k + 1) of the verified proofs.
HasAuthority(c, k, r) ==
  /\ Revokes(Prfs(c)[k], r)
  /\ AncestorIssued(fetched[c], k, r)

\* Slips: the loop does not advance, runs past the end, or ends after one proof.
NeverAdvance(c) ==
  /\ pc[c] = "looked"
  /\ IF \E r \in found[c] : HasAuthority(c, at[c], r) THEN Settle(c, "revoked")
     ELSE Suspend(c, IF at[c] < Len(Prfs(c)) THEN "lookup" ELSE "claim")
  /\ UNCHANGED <<stores, clock, options, locals>>
RunPastEnd(c) ==
  /\ pc[c] = "looked"
  /\ at' = [at EXCEPT ![c] = @ + 1] /\ Suspend(c, "lookup")
  /\ UNCHANGED <<stores, clock, options, args, fetched, found, began>>
JudgeFirstOnly(c) ==
  /\ pc[c] = "looked"
  /\ IF \E r \in found[c] : HasAuthority(c, at[c], r) THEN Settle(c, "revoked")
     ELSE Suspend(c, "claim")
  /\ UNCHANGED <<stores, clock, options, locals>>

\* Up to the next lookup, or to the claim after the last one.
JudgeRevocations(c) ==
  /\ pc[c] = "looked"
  /\ IF \E r \in found[c] : HasAuthority(c, at[c], r)
     THEN Settle(c, "revoked") /\ UNCHANGED at
     ELSE IF at[c] < Len(Prfs(c))
          THEN at' = [at EXCEPT ![c] = @ + 1] /\ Suspend(c, "lookup")
          ELSE Suspend(c, "claim") /\ UNCHANGED at
  /\ UNCHANGED <<stores, clock, options, args, fetched, found, began>>

\* Slips: the set is not looked at, or only after the CID was added.
RecordUntested(c) ==
  /\ pc[c] = "claim"
  /\ seen' = seen \cup {args[c].inv} /\ Settle(c, "ok")
  /\ UNCHANGED <<delegations, revocations, clock, options, locals>>
RecordThenTest(c) ==
  /\ pc[c] = "claim"
  /\ seen' = seen \cup {args[c].inv}
  /\ Settle(c, IF args[c].inv \in seen' THEN "replay" ELSE "ok")
  /\ UNCHANGED <<delegations, revocations, clock, options, locals>>

\* MapReplayStore.claim, an atomic test-and-set, and the return.
Claim(c) ==
  /\ pc[c] = "claim"
  /\ IF args[c].inv \in seen
     THEN Settle(c, "replay") /\ UNCHANGED seen
     ELSE seen' = seen \cup {args[c].inv} /\ Settle(c, "ok")
  /\ UNCHANGED <<delegations, revocations, clock, options, locals>>

\* A claim that throws anything else, before or after the CID was recorded.
CustomClaimFails(c) ==
  /\ CustomStores /\ pc[c] = "claim"
  /\ seen' \in {seen, seen \cup {args[c].inv}}
  /\ Settle(c, "claimError")
  /\ UNCHANGED <<delegations, revocations, clock, options, locals>>

Resume(c) ==
  \/ GetAllAnswers(c) \/ CustomGetAllAnswers(c) \/ CheckProofs(c)
  \/ LookupAnswers(c) \/ CustomLookupAnswers(c) \/ JudgeRevocations(c)
  \/ Claim(c) \/ CustomClaimFails(c)

----------------------------------------------------------------------------
(* What happens between the steps                                          *)

\* insertByCid overwrites and does not compare the key with the delegation's
\* CID; insert files every delegation under its own.
InsertByCid(key, d) ==
  /\ delegations' = [delegations EXCEPT ![key] = d]
  /\ UNCHANGED <<revocations, seen, clock, options, pc, locals, verdict>>

\* MapRevocationStore.insert under key; it throws, and changes nothing, for a
\* record that is not a valid revocation of key.  It does not decode the bytes
\* it stores.
InsertRevocation(key, r) ==
  /\ ValidRevocation(key, r)
  /\ revocations' = revocations \cup {r}
  /\ UNCHANGED <<delegations, seen, clock, options, pc, locals, verdict>>

Tick ==
  /\ clock < Horizon
  /\ clock' = clock + 1
  /\ UNCHANGED <<stores, options, pc, locals, verdict>>

\* The caller, or a store that shares its objects, changes the options or the
\* invocation they hold.
CallerMutates(c) ==
  /\ \E o \in Options : options' = [options EXCEPT ![c] = o]
  /\ UNCHANGED <<stores, clock, pc, locals, verdict>>

Next ==
  \/ \E c \in Call : Begin(c) \/ Resume(c) \/ CallerMutates(c)
  \/ \E f \in Filings : InsertByCid(f[1], f[2])
  \/ \E d \in DlgCid, r \in RevCid : InsertRevocation(d, r)
  \/ Tick

Spec == Init /\ [][Next]_vars
----------------------------------------------------------------------------
(* Properties                                                              *)

TypeOK ==
  /\ delegations \in [DlgCid -> DlgCid \cup {NoDelegation}]
  /\ revocations \subseteq RevCid /\ seen \subseteq InvCid /\ clock \in Nat
  /\ options \in [Call -> Options]
  /\ pc \in [Call -> {"idle", "getAll", "fetched", "lookup", "looked", "claim", "done"}]
  /\ args \in [Call -> Options \cup {Idle}]
  /\ \A c \in Call : pc[c] # "idle" => args[c] # Idle
  /\ fetched \in [Call -> Seq(DlgCid)] /\ found \in [Call -> SUBSET RevCid]
  /\ at \in [Call -> Nat \ {0}]
  /\ \A c \in Call : pc[c] \in {"lookup", "looked"} => at[c] <= Len(Prfs(c))
  /\ verdict \in [Call -> Outcome \cup {"none"}]
  /\ \A c \in Call : verdict[c] # "none" <=> pc[c] = "done"
  /\ began \in [Call -> [revocations : SUBSET RevCid, clock : Nat]]

Accepted(c) == verdict[c] = "ok"

\* The instants at which call c may have judged time bounds.
Instants(c) == IF args[c].now = NoNow THEN began[c].clock..clock ELSE {args[c].now}

\* Replay prevention under concurrency: however the awaits of two calls that
\* were handed one invocation interleave, at most one of them returns it.
AcceptedOnce ==
  \A c, d \in Call : Accepted(c) /\ Accepted(d) /\ c # d => args[c].inv # args[d].inv

\* Whatever the delegation store answered, and whatever became of the caller's
\* objects meanwhile, a call that returns was made with a signed invocation
\* addressed to its executor, whose own proofs, all signed, authorise it at an
\* instant of the call.
AcceptedWasAuthorized ==
  \A c \in Call : Accepted(c) =>
    /\ Genuine(args[c].inv, args[c].executor)
    /\ \E t \in Instants(c) : AuthorizedAt(args[c].inv, t, args[c].leeway)

\* The records of R that a call heeds.  A Map store that holds one which does not
\* decode fails the lookup; checkRevocations passes over one that another
\* implementation hands out.
Heeded(R) == {r \in R : CustomStores => Rev[r].decodes}

\* The stores are read proof by proof while revocations arrive, and no call
\* returns an invocation one of whose proofs was revoked, by its issuer or an
\* ancestor, before the call began.
KnownRevocationsHonoured ==
  \A c \in Call : Accepted(c) /\ args[c].revoking =>
    ~RevokedBy(args[c].inv, Heeded(began[c].revocations))

\* A call refused for revocation holds a proof that a valid record, stored or
\* given in a custom answer, takes away, and that its issuer or an ancestor
\* revoked: a downstream delegate cannot revoke what it was delegated, and a
\* record that does not verify, or is of another proof, revokes nothing.
RevokedByAncestor ==
  \A c \in Call : verdict[c] = "revoked" =>
    RevokedBy(args[c].inv, Heeded(IF CustomStores THEN found[c] ELSE revocations))

\* "A rejected invocation does not burn its CID": what is in the replay store
\* was returned by a call, or lost by a claim that failed.
RejectionBurnsNothing ==
  \A inv \in seen : \E c \in Call : verdict[c] \in {"ok", "claimError"} /\ args[c].inv = inv

\* A call is refused as a replay only when another call got there first.
ReplayMeansClaimed ==
  \A c \in Call : verdict[c] = "replay" =>
    \E d \in Call \ {c} : verdict[d] \in {"ok", "claimError"} /\ args[d].inv = args[c].inv

\* With the Map stores and delegations filed by insert, an invocation whose
\* proofs are found is refused on its evidence only if it is not genuine, or
\* not authorised at some instant of the call; and its revocations cannot be
\* looked up only if one that is stored does not decode.
EvidenceRejectionsDeserved ==
  \A c \in Call : ~CustomStores /\ (\A f \in Filings : f[1] = f[2]) =>
    /\ verdict[c] \in {"invalidInvocationSignature", "audienceMismatch", "invalidProofSignature"} =>
         ~Genuine(args[c].inv, args[c].executor)
    /\ verdict[c] \in CheckReason \ {"outOfRange"} =>
         \E t \in Instants(c) : ~AuthorizedAt(args[c].inv, t, args[c].leeway)
    /\ verdict[c] \notin {"proofCountMismatch", "proofCidMismatch", "claimError"}
    /\ verdict[c] = "lookupError" => Unreadable(args[c].inv, revocations)

\* verifyInvocation implements the atomic gate.
Gate == INSTANCE AuthGate WITH
  Request <- Options, Unasked <- Idle,
  known <- Heeded(revocations), executed <- seen, request <- args,
  began <- [c \in Call |-> [known |-> Heeded(began[c].revocations), clock |-> began[c].clock]],
  answer <- [c \in Call |-> IF verdict[c] = "none" THEN "none"
                           ELSE IF verdict[c] = "ok" THEN "accepted" ELSE "rejected"]

ImplementsGate == Gate!Spec
=============================================================================
