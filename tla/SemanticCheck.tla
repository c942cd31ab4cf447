--------------------------- MODULE SemanticCheck ---------------------------
(***************************************************************************)
(* Concurrent calls of check (packages/ucan/src/invocation/index.ts),      *)
(* checkRevocations and checkWithRevocations (revocation/index.ts), which  *)
(* judge a payload in memory and authenticate nothing.                     *)
(*                                                                         *)
(* A call steps from await to await as in Verify.  Unlike verifyInvocation *)
(* it reads the caller's payload after an await, takes the clock when it   *)
(* is made and not when it judges, and checkWithRevocations asks the       *)
(* delegation store twice.  The stores are the Map stores.                 *)
(***************************************************************************)
EXTENDS Evidence

CONSTANTS
  Call,           \* calls of the three functions
  Request,        \* what they may be asked: see RequestType
  NoNow,          \* the parameter now left to its default
  NoDelegation,   \* a CID the delegation store has nothing for
  NoRequest,      \* of a call not made yet
  Filings,        \* the (key, delegation) pairs that get inserted
  Horizon         \* bound on the clock

\* chain for check, revoking for checkRevocations, both for the two in turn.
RequestType ==
  [inv : InvCid, now : Nat \cup {NoNow}, chain : BOOLEAN, revoking : BOOLEAN]

ASSUME SemanticAssumption ==
  /\ Request \subseteq RequestType
  /\ \A q \in Request : (q.chain \/ q.revoking) /\ (q.revoking => q.now = NoNow)
  /\ NoNow \notin Nat /\ NoDelegation \notin DlgCid /\ NoRequest \notin RequestType
  /\ Filings \subseteq DlgCid \X DlgCid
  /\ Horizon \in Nat

VARIABLES
  delegations, revocations, clock,   \* as in Verify
  payload,    \* what each call's payload argument holds, which stays its caller's
  pc,         \* where each call is suspended
  asked,      \* the request of each call
  now,        \* the parameter now, by default the clock as the call was made
  named,      \* the payload whose proof CIDs a call asked the store for last
  fetched,    \* what getAll answered
  at,         \* the proof whose revocations are looked up
  found,      \* what lookup answered
  verdict,    \* "ok", or the reason the call rejected with
  began,      \* history: the revocations and the clock as the call found them
  intact      \* history: the payload has been left alone since the call began

stores == <<delegations, revocations, clock>>
locals == <<asked, now, named, fetched, at, found, began>>
vars == <<stores, payload, pc, locals, verdict, intact>>

Outcome == CheckReason \cup {"getError", "undecodable", "lookupError", "revoked", "ok"}

Init ==
  /\ delegations = [d \in DlgCid |-> NoDelegation] /\ revocations = {} /\ clock = 0
  /\ payload \in [Call -> InvCid] /\ named = payload
  /\ pc = [c \in Call |-> "idle"] /\ verdict = [c \in Call |-> "none"]
  /\ asked = [c \in Call |-> NoRequest] /\ now = [c \in Call |-> 0]
  /\ fetched = [c \in Call |-> <<>>] /\ at = [c \in Call |-> 1]
  /\ found = [c \in Call |-> {}]
  /\ began = [c \in Call |-> [revocations |-> {}, clock |-> 0]]
  /\ intact = [c \in Call |-> TRUE]

\* The CIDs a call asked for.
Prfs(c) == Prf[named[c]]

Settle(c, outcome) ==
  /\ pc' = [pc EXCEPT ![c] = "done"]
  /\ verdict' = [verdict EXCEPT ![c] = outcome]

Suspend(c, where) == pc' = [pc EXCEPT ![c] = where] /\ UNCHANGED verdict

----------------------------------------------------------------------------
(* check                                                                   *)

\* Up to the first getAll.
Begin(c, q) ==
  /\ pc[c] = "idle" /\ payload[c] = q.inv
  /\ asked' = [asked EXCEPT ![c] = q] /\ named' = [named EXCEPT ![c] = q.inv]
  /\ now' = [now EXCEPT ![c] = IF q.now = NoNow THEN clock ELSE q.now]
  /\ began' = [began EXCEPT ![c] = [revocations |-> revocations, clock |-> clock]]
  /\ Suspend(c, IF q.chain THEN "getAll" ELSE "getAllAgain")
  /\ UNCHANGED <<stores, payload, intact, fetched, at, found>>

\* MapDelegationStore.getAll, whole or not at all.
GetAllAnswers(c, where, next) ==
  /\ pc[c] = where
  /\ IF \E k \in DOMAIN Prfs(c) : delegations[Prfs(c)[k]] = NoDelegation
     THEN Settle(c, "getError") /\ UNCHANGED fetched
     ELSE /\ fetched' = [fetched EXCEPT ![c] = [k \in 1..Len(Prfs(c)) |-> delegations[Prfs(c)[k]]]]
          /\ Suspend(c, next)
  /\ UNCHANGED <<stores, payload, intact, asked, now, named, at, found, began>>

\* A slip: the default of now is taken where it is used.
JudgeAtClock(c) ==
  LET t == IF asked[c].now = NoNow THEN clock ELSE now[c]
      fault == CheckResolved(Inv[payload[c]], Resolve(fetched[c]), t, 0)
  IN
  /\ pc[c] = "fetched"
  /\ IF fault # "ok" THEN Settle(c, fault)
     ELSE IF asked[c].revoking THEN Suspend(c, "checked") ELSE Settle(c, "ok")
  /\ UNCHANGED <<stores, payload, intact, locals>>

\* The payload as it is now against the proofs it named when the call was made.
CheckChain(c) ==
  LET fault == CheckResolved(Inv[payload[c]], Resolve(fetched[c]), now[c], 0) IN
  /\ pc[c] = "fetched"
  /\ IF fault # "ok" THEN Settle(c, fault)
     ELSE IF asked[c].revoking THEN Suspend(c, "checked") ELSE Settle(c, "ok")
  /\ UNCHANGED <<stores, payload, intact, locals>>

----------------------------------------------------------------------------
(* checkRevocations                                                        *)

\* The proof CIDs are captured, once and for all.
CaptureProofs(c) ==
  /\ pc[c] = "checked"
  /\ named' = [named EXCEPT ![c] = payload[c]]
  /\ Suspend(c, "getAllAgain")
  /\ UNCHANGED <<stores, payload, intact, asked, now, fetched, at, found, began>>

\* Every proof is encoded and decoded again, up to the first lookup.
DetachProofs(c) ==
  /\ pc[c] = "again"
  /\ IF \E k \in DOMAIN fetched[c] : Dlg[fetched[c][k]].seal = "undecodable"
     THEN Settle(c, "undecodable")
     ELSE IF Prfs(c) = <<>> THEN Settle(c, "ok") ELSE Suspend(c, "lookup")
  /\ UNCHANGED <<stores, payload, intact, locals>>

\* MapRevocationStore.lookup, which throws when a snapshot does not decode.
LookupAnswers(c) ==
  LET stored == {r \in revocations : Rev[r].target = Prfs(c)[at[c]]} IN
  /\ pc[c] = "lookup"
  /\ \/ (\A r \in stored : Rev[r].decodes)
        /\ found' = [found EXCEPT ![c] = stored] /\ Suspend(c, "looked")
     \/ (\E r \in stored : ~Rev[r].decodes) /\ Settle(c, "lookupError") /\ UNCHANGED found
  /\ UNCHANGED <<stores, payload, intact, asked, now, named, fetched, at, began>>

\* Slips: the ancestors are those of the payload as it is now, or every proof.
AncestorNow(c, r) ==
  \E k \in DOMAIN Prf[payload[c]] : k <= at[c] /\ Dlg[Prf[payload[c]][k]].iss = Rev[r].iss
AnyProof(c, r) == AncestorIssued(fetched[c], Len(fetched[c]), r)

\* Authority over the proof at at[c]: its issuer, or one before it.
HasAuthority(c, r) == AncestorIssued(fetched[c], at[c], r)

\* A slip: the loop runs past the last proof.
RunPastEnd(c) ==
  /\ pc[c] = "looked"
  /\ at' = [at EXCEPT ![c] = @ + 1] /\ Suspend(c, "lookup")
  /\ UNCHANGED <<stores, payload, intact, asked, now, named, fetched, found, began>>

\* Up to the next lookup, or to the end of the call.
JudgeRevocations(c) ==
  /\ pc[c] = "looked"
  /\ IF \E r \in found[c] : Revokes(Prfs(c)[at[c]], r) /\ HasAuthority(c, r)
     THEN Settle(c, "revoked") /\ UNCHANGED at
     ELSE IF at[c] < Len(Prfs(c))
          THEN at' = [at EXCEPT ![c] = @ + 1] /\ Suspend(c, "lookup")
          ELSE Settle(c, "ok") /\ UNCHANGED at
  /\ UNCHANGED <<stores, payload, intact, asked, now, named, fetched, found, began>>

----------------------------------------------------------------------------
(* What happens between the steps                                          *)

InsertByCid(key, d) ==
  /\ delegations' = [delegations EXCEPT ![key] = d]
  /\ UNCHANGED <<revocations, clock, payload, intact, pc, locals, verdict>>

InsertRevocation(key, r) ==
  /\ ValidRevocation(key, r)
  /\ revocations' = revocations \cup {r}
  /\ UNCHANGED <<delegations, clock, payload, intact, pc, locals, verdict>>

Tick ==
  /\ clock < Horizon
  /\ clock' = clock + 1
  /\ UNCHANGED <<delegations, revocations, payload, intact, pc, locals, verdict>>

CallerMutates(c) ==
  /\ \E inv \in InvCid : payload' = [payload EXCEPT ![c] = inv]
  /\ intact' = [intact EXCEPT ![c] = @ /\ pc[c] = "idle"]
  /\ UNCHANGED <<stores, pc, locals, verdict>>

Next ==
  \/ \E c \in Call, q \in Request : Begin(c, q)
  \/ \E c \in Call :
       \/ GetAllAnswers(c, "getAll", "fetched") \/ CheckChain(c)
       \/ CaptureProofs(c) \/ GetAllAnswers(c, "getAllAgain", "again")
       \/ DetachProofs(c) \/ LookupAnswers(c) \/ JudgeRevocations(c)
       \/ CallerMutates(c)
  \/ \E f \in Filings : InsertByCid(f[1], f[2])
  \/ \E d \in DlgCid, r \in RevCid : InsertRevocation(d, r)
  \/ Tick

Spec == Init /\ [][Next]_vars
----------------------------------------------------------------------------
(* Properties                                                              *)

TypeOK ==
  /\ delegations \in [DlgCid -> DlgCid \cup {NoDelegation}]
  /\ revocations \subseteq RevCid /\ clock \in Nat /\ payload \in [Call -> InvCid]
  /\ pc \in [Call -> {"idle", "getAll", "fetched", "checked", "getAllAgain", "again",
                      "lookup", "looked", "done"}]
  /\ asked \in [Call -> Request \cup {NoRequest}] /\ now \in [Call -> Nat]
  /\ named \in [Call -> InvCid] /\ fetched \in [Call -> Seq(DlgCid)]
  /\ at \in [Call -> Nat \ {0}] /\ found \in [Call -> SUBSET RevCid]
  /\ \A c \in Call : pc[c] \in {"lookup", "looked"} => at[c] <= Len(Prfs(c))
  /\ verdict \in [Call -> Outcome \cup {"none"}]
  /\ \A c \in Call : verdict[c] # "none" <=> pc[c] = "done"
  /\ began \in [Call -> [revocations : SUBSET RevCid, clock : Nat]]
  /\ intact \in [Call -> BOOLEAN]

\* Delegations are filed under their own CIDs.
Honest == \A f \in Filings : f[1] = f[2]

\* The chain is judged as of the moment the call was made, however long the
\* store takes: a token that expires during the call is accepted, and one that
\* becomes valid during it is refused.  This is for callers who leave the
\* payload alone: CheckChain reads it after the await.
JudgedAsOfTheCall ==
  Honest => \A c \in Call : intact[c] =>
    LET t == IF asked[c].now = NoNow THEN began[c].clock ELSE asked[c].now IN
      /\ verdict[c] = "ok" /\ asked[c].chain => AuthorizedAt(asked[c].inv, t, 0)
      /\ verdict[c] \in CheckReason => ~AuthorizedAt(asked[c].inv, t, 0)

\* However the payload changes meanwhile, checkRevocations returns only if no
\* proof it captured was revoked, by its issuer or an ancestor, before the call.
KnownRevocationsHonoured ==
  Honest => \A c \in Call : verdict[c] = "ok" /\ asked[c].revoking =>
    ~RevokedBy(named[c], began[c].revocations)

\* A refusal for revocation has a record behind it that the issuer of a proof
\* captured, or one of its ancestors, is the author of.
RevokedByAncestor ==
  Honest => \A c \in Call : verdict[c] = "revoked" => RevokedBy(named[c], revocations)
=============================================================================
