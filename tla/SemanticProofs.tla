--------------------------- MODULE SemanticProofs ---------------------------
(***************************************************************************)
(* check, checkRevocations and checkWithRevocations, for any number of     *)
(* calls over any tokens: what a call knows at each await (CallInv), and   *)
(* that this makes the promises of SemanticCheck hold.                     *)
(***************************************************************************)
EXTENDS SemanticCheck, ChainProofs

Where == {"idle", "getAll", "fetched", "checked", "getAllAgain", "again",
          "lookup", "looked", "done"}

\* The time a call judges by, and what the chain it was made for deserves.
Moment(c) == IF asked[c].now = NoNow THEN began[c].clock ELSE asked[c].now
Deserved(c) == CheckResolved(Inv[asked[c].inv], Resolve(Prf[asked[c].inv]), Moment(c), 0)

\* No revocation known when the call began takes the proof at k away.
Standing(c, k) ==
  \A r \in began[c].revocations :
    ~(ValidRevocation(Prfs(c)[k], r) /\ AncestorIssued(Prfs(c), k, r))

\* The chain of a call that has one is past CheckChain.
Passed(c) ==
  pc[c] \in {"checked", "getAllAgain", "again", "lookup", "looked"} \/ verdict[c] = "ok"

AskedInv(c) ==
  /\ pc[c] # "idle" => asked[c] \in Request /\ now[c] = Moment(c)
  /\ pc[c] # "idle" /\ intact[c] => payload[c] = asked[c].inv
  /\ pc[c] \in {"getAll", "fetched"} => named[c] = asked[c].inv
  /\ pc[c] \notin {"lookup", "looked", "done"} => at[c] = 1
  /\ began[c].revocations \subseteq revocations

FetchedInv(c) ==
  pc[c] \in {"fetched", "again", "lookup", "looked"} /\ Honest => fetched[c] = Prfs(c)

ChainInv(c) ==
  pc[c] # "idle" /\ Honest /\ intact[c] =>
    /\ asked[c].chain /\ Passed(c) => Deserved(c) = "ok"
    /\ verdict[c] \in CheckReason => Deserved(c) # "ok"

RevocationInv(c) ==
  Honest =>
    /\ pc[c] \in {"lookup", "looked"} => \A k \in 1..at[c]-1 : Standing(c, k)
    /\ pc[c] = "looked" =>
         /\ \A r \in began[c].revocations : Rev[r].target = Prfs(c)[at[c]] => r \in found[c]
         /\ \A r \in found[c] : r \in revocations /\ Rev[r].decodes
    /\ verdict[c] = "ok" /\ asked[c].revoking => \A k \in 1..Len(Prfs(c)) : Standing(c, k)
    /\ verdict[c] = "revoked" => RevokedBy(named[c], revocations)

CallInv(c) == AskedInv(c) /\ FetchedInv(c) /\ ChainInv(c) /\ RevocationInv(c)

StoreInv == Honest => \A d \in DlgCid : delegations[d] \in {d, NoDelegation}

IInv == TypeOK /\ StoreInv /\ \A c \in Call : CallInv(c)

\* The part of the state that belongs to call c.
CallState(c) ==
  <<pc[c], verdict[c], payload[c], intact[c], asked[c], now[c], named[c], fetched[c],
    at[c], found[c], began[c]>>

----------------------------------------------------------------------------
(* Frames                                                                  *)

\* Requests and proofs are well formed.
LEMMA Fields ==
  ASSUME TypeOK, NEW c \in Call
  PROVE  /\ named[c] \in InvCid /\ Prfs(c) \in Seq(DlgCid) /\ Len(Prfs(c)) \in Nat
         /\ asked[c] \in Request =>
              /\ asked[c].inv \in InvCid /\ asked[c].now \in Nat \cup {NoNow}
              /\ asked[c].chain \in BOOLEAN /\ asked[c].revoking \in BOOLEAN
<1>1. named[c] \in InvCid
  BY DEF TypeOK
<1>2. Prfs(c) \in Seq(DlgCid) /\ Len(Prfs(c)) \in Nat
  BY <1>1, EvidenceAssumption DEF Prfs
<1>3. asked[c] \in Request => asked[c] \in RequestType
  BY SemanticAssumption
<1> QED  BY <1>1, <1>2, <1>3 DEF RequestType

\* Resolving a sequence of CIDs gives a sequence of delegations.
LEMMA ResolveType ==
  ASSUME NEW cids \in Seq(DlgCid)
  PROVE  Resolve(cids) \in Seq(Delegation)
<1>1. \A k \in 1..Len(cids) : cids[k] \in DlgCid
  BY ElementOfSeq
<1>2. \A k \in 1..Len(cids) : Dlg[cids[k]] \in Delegation
  BY <1>1, EvidenceAssumption
<1> QED  BY <1>2 DEF Resolve

\* A call whose state does not change keeps its invariant while records arrive.
LEMMA Frame ==
  ASSUME NEW c \in Call, CallInv(c), UNCHANGED CallState(c), revocations \subseteq revocations'
  PROVE  CallInv(c)'
<1>1. /\ pc'[c] = pc[c] /\ verdict'[c] = verdict[c] /\ payload'[c] = payload[c]
      /\ intact'[c] = intact[c] /\ asked'[c] = asked[c] /\ now'[c] = now[c]
      /\ named'[c] = named[c] /\ fetched'[c] = fetched[c] /\ at'[c] = at[c]
      /\ found'[c] = found[c] /\ began'[c] = began[c]
  BY DEF CallState
<1>2. Prfs(c)' = Prfs(c) /\ Passed(c)' = Passed(c) /\ Moment(c)' = Moment(c)
  BY <1>1 DEF Prfs, Passed, Moment
<1>3. AskedInv(c)'
  BY <1>1, <1>2 DEF CallInv, AskedInv
<1>4. FetchedInv(c)'
  BY <1>1, <1>2 DEF CallInv, FetchedInv
<1>5. ChainInv(c)'
  <2>1. Deserved(c)' = Deserved(c)
    BY <1>1, <1>2 DEF Deserved
  <2> QED  BY <1>1, <1>2, <2>1 DEF CallInv, ChainInv
<1>6. RevocationInv(c)'
  <2>1. \A k : Standing(c, k) => Standing(c, k)'
    BY <1>1, <1>2 DEF Standing
  <2>2. RevokedBy(named[c], revocations) => RevokedBy(named[c], revocations')
    BY DEF RevokedBy
  <2> QED  BY <1>1, <1>2, <2>1, <2>2 DEF CallInv, RevocationInv
<1> QED  BY <1>3, <1>4, <1>5, <1>6 DEF CallInv

\* A step of call c on its locals: what it has to show of c.
LEMMA ResumeStep ==
  ASSUME IInv, NEW c \in Call, NEW p \in Where, NEW v \in Outcome \cup {"none"},
         pc' = [pc EXCEPT ![c] = p], verdict' = [verdict EXCEPT ![c] = v],
         v # "none" <=> p = "done",
         UNCHANGED <<delegations, revocations, clock, payload, asked, now, began, intact>>,
         named' \in [Call -> InvCid], fetched' \in [Call -> Seq(DlgCid)],
         at' \in [Call -> Nat \ {0}], found' \in [Call -> SUBSET RevCid],
         \A d \in Call \ {c} : UNCHANGED <<named[d], fetched[d], at[d], found[d]>>,
         p \in {"lookup", "looked"} => at'[c] <= Len(Prf[named'[c]])
  PROVE  /\ pc'[c] = p /\ verdict'[c] = v /\ Moment(c)' = Moment(c)
         /\ Deserved(c)' = Deserved(c)
         /\ CallInv(c)' => IInv'
<1>1. /\ pc \in [Call -> Where] /\ verdict \in [Call -> Outcome \cup {"none"}]
      /\ \A d \in Call : verdict[d] # "none" <=> pc[d] = "done"
      /\ \A d \in Call : pc[d] \in {"lookup", "looked"} => at[d] <= Len(Prf[named[d]])
  BY DEF IInv, TypeOK, Where, Prfs
<1>2. /\ pc'[c] = p /\ verdict'[c] = v
      /\ \A d \in Call \ {c} : pc'[d] = pc[d] /\ verdict'[d] = verdict[d]
      /\ pc' \in [Call -> Where] /\ verdict' \in [Call -> Outcome \cup {"none"}]
  BY <1>1
<1>3. Moment(c)' = Moment(c)
  BY DEF Moment
<1>4. Deserved(c)' = Deserved(c)
  BY <1>3 DEF Deserved
<1>5. TypeOK'
  <2>1. (\A d \in Call : pc[d] \in {"lookup", "looked"} => at[d] <= Len(Prfs(d)))'
    <3>1. ASSUME NEW d \in Call, pc'[d] \in {"lookup", "looked"}
          PROVE  at'[d] <= Len(Prf[named'[d]])
      <4>1. CASE d = c
        BY <1>2, <3>1, <4>1
      <4>2. CASE d # c
        BY <1>1, <1>2, <3>1, <4>2
      <4> QED  BY <4>1, <4>2
    <3> QED  BY <3>1 DEF Prfs
  <2>2. \A d \in Call : verdict'[d] # "none" <=> pc'[d] = "done"
    BY <1>1, <1>2
  <2> QED  BY <1>2, <2>1, <2>2 DEF IInv, TypeOK, Where
<1>6. StoreInv'
  BY DEF IInv, StoreInv
<1>7. ASSUME NEW d \in Call \ {c}  PROVE CallInv(d)'
  BY <1>2, Frame DEF IInv, CallState
<1> QED  BY <1>2, <1>3, <1>4, <1>5, <1>6, <1>7 DEF IInv

\* Before a call has an outcome it has no verdict.
LEMMA NoVerdict ==
  ASSUME IInv, NEW c \in Call, pc[c] # "done"
  PROVE  verdict = [verdict EXCEPT ![c] = "none"] /\ verdict[c] = "none"
BY DEF IInv, TypeOK

----------------------------------------------------------------------------
(* The steps                                                               *)

\* A call is made, for the payload as it is.
LEMMA BeginStep ==
  ASSUME IInv, NEW c \in Call, NEW q \in Request, Begin(c, q)
  PROVE  IInv'
<1> DEFINE p == IF q.chain THEN "getAll" ELSE "getAllAgain"
<1>1. /\ pc[c] = "idle" /\ payload[c] = q.inv /\ verdict' = verdict
      /\ asked' = [asked EXCEPT ![c] = q] /\ named' = [named EXCEPT ![c] = q.inv]
      /\ now' = [now EXCEPT ![c] = IF q.now = NoNow THEN clock ELSE q.now]
      /\ began' = [began EXCEPT ![c] = [revocations |-> revocations, clock |-> clock]]
      /\ pc' = [pc EXCEPT ![c] = p]
      /\ UNCHANGED <<delegations, revocations, clock, payload, intact, fetched, at, found>>
  BY DEF Begin, Suspend, stores
<1>2. q \in RequestType
  BY SemanticAssumption
<1>3. q.inv \in InvCid /\ q.now \in Nat \cup {NoNow} /\ p \in {"getAll", "getAllAgain"}
  BY <1>2 DEF RequestType
<1> HIDE DEF p
<1>4. /\ pc'[c] = p /\ asked'[c] = q /\ named'[c] = q.inv /\ verdict[c] = "none" /\ at[c] = 1
      /\ now'[c] = (IF q.now = NoNow THEN clock ELSE q.now)
      /\ began'[c] = [revocations |-> revocations, clock |-> clock]
  BY <1>1 DEF IInv, TypeOK, CallInv, AskedInv
<1>5. TypeOK'
  <2>1. \A d \in Call : pc'[d] \in {"lookup", "looked"} =>
          pc[d] \in {"lookup", "looked"} /\ named'[d] = named[d]
    BY <1>1, <1>3, <1>4 DEF IInv, TypeOK
  <2>2. (\A d \in Call : pc[d] \in {"lookup", "looked"} => at[d] <= Len(Prfs(d)))'
    BY <1>1, <2>1 DEF IInv, TypeOK, Prfs
  <2>3. \A d \in Call : verdict'[d] # "none" <=> pc'[d] = "done"
    BY <1>1, <1>3, <1>4 DEF IInv, TypeOK
  <2>4. /\ now' \in [Call -> Nat] /\ asked' \in [Call -> Request \cup {NoRequest}]
        /\ named' \in [Call -> InvCid]
        /\ began' \in [Call -> [revocations : SUBSET RevCid, clock : Nat]]
    BY <1>1, <1>3 DEF IInv, TypeOK
  <2>5. pc' \in [Call -> Where]
    BY <1>1, <1>3 DEF IInv, TypeOK, Where
  <2> QED  BY <1>1, <2>2, <2>3, <2>4, <2>5 DEF IInv, TypeOK, Where
<1>6. CallInv(c)'
  <2>1. Moment(c)' = now'[c]
    BY <1>4 DEF Moment
  <2>2. AskedInv(c)'
    BY <1>1, <1>3, <1>4, <2>1 DEF AskedInv
  <2>3. FetchedInv(c)' /\ ChainInv(c)' /\ RevocationInv(c)'
    <3>1. q.chain => p = "getAll"
      BY DEF p
    <3> QED  BY <1>1, <1>3, <1>4, <3>1
               DEF FetchedInv, ChainInv, RevocationInv, Passed, CheckReason
  <2> QED  BY <2>2, <2>3 DEF CallInv
<1>7. ASSUME NEW d \in Call \ {c}  PROVE CallInv(d)'
  <2>1. UNCHANGED CallState(d)
    BY <1>1 DEF IInv, TypeOK, CallState
  <2> QED  BY <1>1, <2>1, Frame DEF IInv
<1> QED  BY <1>1, <1>5, <1>6, <1>7 DEF IInv, StoreInv

\* An honest store has answered with what was asked for.
LEMMA GetAllStep ==
  ASSUME IInv, NEW c \in Call, NEW where \in {"getAll", "getAllAgain"}, NEW next,
         where = "getAll" => next = "fetched", where = "getAllAgain" => next = "again",
         GetAllAnswers(c, where, next)
  PROVE  IInv'
<1> DEFINE missing == \E k \in DOMAIN Prfs(c) : delegations[Prfs(c)[k]] = NoDelegation
           answer == [k \in 1..Len(Prfs(c)) |-> delegations[Prfs(c)[k]]]
<1>1. /\ pc[c] = where /\ next \in {"fetched", "again"}
      /\ UNCHANGED <<delegations, revocations, clock, payload, intact, asked, now, named, at,
                     found, began>>
  BY DEF GetAllAnswers, stores
<1>2. /\ named \in [Call -> InvCid] /\ fetched \in [Call -> Seq(DlgCid)]
      /\ at \in [Call -> Nat \ {0}] /\ found \in [Call -> SUBSET RevCid]
      /\ CallInv(c) /\ Prfs(c) \in Seq(DlgCid) /\ Len(Prfs(c)) \in Nat
  BY Fields DEF IInv, TypeOK
<1>3. verdict = [verdict EXCEPT ![c] = "none"]
  BY <1>1, NoVerdict
<1>4. CASE missing
  <2>1. /\ pc' = [pc EXCEPT ![c] = "done"] /\ verdict' = [verdict EXCEPT ![c] = "getError"]
        /\ fetched' = fetched
    BY <1>4 DEF GetAllAnswers, Settle
  <2>2. /\ pc'[c] = "done" /\ verdict'[c] = "getError" /\ Moment(c)' = Moment(c)
        /\ Deserved(c)' = Deserved(c) /\ (CallInv(c)' => IInv')
    BY <1>1, <1>2, <2>1, ResumeStep DEF Where, Outcome
  <2>3. CallInv(c)'
    BY <1>1, <1>2, <2>2
       DEF CallInv, AskedInv, FetchedInv, ChainInv, RevocationInv, Passed, CheckReason
  <2> QED  BY <2>2, <2>3
<1>5. CASE ~missing
  <2>1. /\ pc' = [pc EXCEPT ![c] = next] /\ verdict' = [verdict EXCEPT ![c] = "none"]
        /\ fetched' = [fetched EXCEPT ![c] = answer]
    BY <1>3, <1>5 DEF GetAllAnswers, Suspend
  <2>2. \A k \in 1..Len(Prfs(c)) : Prfs(c)[k] \in DlgCid /\ answer[k] # NoDelegation
    BY <1>2, <1>5, ElementOfSeq
  <2>3. \A k \in 1..Len(Prfs(c)) : answer[k] \in DlgCid
    BY <2>2 DEF IInv, TypeOK
  <2>4. answer \in Seq(DlgCid)
    BY <1>2, <2>3
  <2>5. Honest => answer = Prfs(c)
    <3>1. Honest => \A k \in 1..Len(Prfs(c)) : answer[k] = Prfs(c)[k]
      BY <2>2 DEF IInv, StoreInv
    <3> QED  BY <1>2, <3>1
  <2> HIDE DEF missing, answer
  <2>6. /\ fetched' \in [Call -> Seq(DlgCid)] /\ fetched'[c] = answer
        /\ \A d \in Call \ {c} : fetched'[d] = fetched[d]
    BY <1>2, <2>1, <2>4
  <2>7. /\ pc'[c] = next /\ verdict'[c] = "none" /\ Moment(c)' = Moment(c)
        /\ Deserved(c)' = Deserved(c) /\ (CallInv(c)' => IInv')
    BY <1>1, <1>2, <2>1, <2>6, ResumeStep DEF Where
  <2>8. FetchedInv(c)'
    BY <1>1, <2>5, <2>6, <2>7 DEF FetchedInv, Prfs
  <2>9. AskedInv(c)'
    BY <1>1, <1>2, <2>7 DEF CallInv, AskedInv
  <2>10. ChainInv(c)' /\ RevocationInv(c)'
    <3>1. pc'[c] = "again" => pc[c] = "getAllAgain"
      BY <1>1, <2>7
    <3> QED  BY <1>1, <1>2, <2>7, <3>1 DEF CallInv, ChainInv, RevocationInv, Passed, CheckReason
  <2> QED  BY <2>7, <2>8, <2>9, <2>10 DEF CallInv
<1> QED  BY <1>4, <1>5

\* The payload is judged as it is, which is what was asked about if its owner
\* left it alone.
LEMMA CheckChainStep ==
  ASSUME IInv, NEW c \in Call, CheckChain(c)
  PROVE  IInv'
<1> DEFINE fault == CheckResolved(Inv[payload[c]], Resolve(fetched[c]), now[c], 0)
<1>1. /\ pc[c] = "fetched"
      /\ UNCHANGED <<delegations, revocations, clock, payload, intact, asked, now, named, fetched,
                     at, found, began>>
  BY DEF CheckChain, stores, locals
<1>2. /\ named \in [Call -> InvCid] /\ fetched \in [Call -> Seq(DlgCid)]
      /\ at \in [Call -> Nat \ {0}] /\ found \in [Call -> SUBSET RevCid]
      /\ payload[c] \in InvCid /\ fetched[c] \in Seq(DlgCid) /\ CallInv(c)
  BY DEF IInv, TypeOK
<1>3. verdict = [verdict EXCEPT ![c] = "none"]
  BY <1>1, NoVerdict
<1>4. fault \in CheckReason \cup {"ok"}
  <2>1. Inv[payload[c]] \in Payload /\ Resolve(fetched[c]) \in Seq(Delegation)
    BY <1>2, ResolveType, EvidenceAssumption
  <2> QED  BY <2>1, CheckResolvedType
<1>5. Honest /\ intact[c] => fault = Deserved(c)
  <2>1. Honest => fetched[c] = Prfs(c)
    BY <1>1, <1>2 DEF CallInv, FetchedInv
  <2>2. intact[c] => payload[c] = asked[c].inv /\ named[c] = asked[c].inv
    BY <1>1, <1>2 DEF CallInv, AskedInv
  <2>3. now[c] = Moment(c)
    BY <1>1, <1>2 DEF CallInv, AskedInv
  <2> QED  BY <2>1, <2>2, <2>3 DEF Deserved, Prfs
<1>6. \E p \in {"checked", "done"}, v \in CheckReason \cup {"ok", "none"} :
        /\ pc' = [pc EXCEPT ![c] = p] /\ verdict' = [verdict EXCEPT ![c] = v]
        /\ v # "none" <=> p = "done"
        /\ p = "checked" \/ v = "ok" => fault = "ok"
        /\ v \in CheckReason => fault = v
        /\ v = "ok" => ~asked[c].revoking
  <2> HIDE DEF fault
  <2>1. "ok" \notin CheckReason /\ "none" \notin CheckReason
    BY DEF CheckReason
  <2>2. CASE fault # "ok"
    <3>1. Settle(c, fault)
      BY <2>2 DEF CheckChain, fault
    <3> QED  BY <1>4, <2>1, <2>2, <3>1 DEF Settle
  <2>3. CASE fault = "ok" /\ asked[c].revoking
    <3>1. Suspend(c, "checked")
      BY <2>3 DEF CheckChain, fault
    <3> QED  BY <1>3, <2>1, <2>3, <3>1 DEF Suspend
  <2>4. CASE fault = "ok" /\ ~asked[c].revoking
    <3>1. Settle(c, "ok")
      BY <2>4 DEF CheckChain, fault
    <3> QED  BY <2>1, <2>4, <3>1 DEF Settle
  <2> QED  BY <2>2, <2>3, <2>4
<1> HIDE DEF fault
<1>7. PICK p \in {"checked", "done"}, v \in CheckReason \cup {"ok", "none"} :
        /\ pc' = [pc EXCEPT ![c] = p] /\ verdict' = [verdict EXCEPT ![c] = v]
        /\ v # "none" <=> p = "done"
        /\ p = "checked" \/ v = "ok" => fault = "ok"
        /\ v \in CheckReason => fault = v
        /\ v = "ok" => ~asked[c].revoking
  BY <1>6
<1>8. /\ pc'[c] = p /\ verdict'[c] = v /\ Moment(c)' = Moment(c)
      /\ Deserved(c)' = Deserved(c) /\ (CallInv(c)' => IInv')
  <2>1. p \in Where /\ v \in Outcome \cup {"none"} /\ p \notin {"lookup", "looked"}
    BY DEF Where, Outcome
  <2> QED  BY <1>1, <1>2, <1>7, <2>1, ResumeStep
<1>9. AskedInv(c)' /\ FetchedInv(c)'
  BY <1>1, <1>2, <1>8 DEF CallInv, AskedInv, FetchedInv
<1>10. ChainInv(c)'
  <2>1. "ok" \notin CheckReason
    BY DEF CheckReason
  <2> QED  BY <1>1, <1>5, <1>7, <1>8, <2>1 DEF ChainInv, Passed
<1>11. RevocationInv(c)'
  BY <1>1, <1>7, <1>8 DEF RevocationInv, CheckReason
<1> QED  BY <1>8, <1>9, <1>10, <1>11 DEF CallInv

\* The proofs are captured for good.
LEMMA CaptureStep ==
  ASSUME IInv, NEW c \in Call, CaptureProofs(c)
  PROVE  IInv'
<1>1. /\ pc[c] = "checked" /\ named' = [named EXCEPT ![c] = payload[c]]
      /\ pc' = [pc EXCEPT ![c] = "getAllAgain"] /\ verdict' = verdict
      /\ UNCHANGED <<delegations, revocations, clock, payload, intact, asked, now, fetched,
                     at, found, began>>
  BY DEF CaptureProofs, Suspend, stores
<1>2. /\ fetched \in [Call -> Seq(DlgCid)] /\ at \in [Call -> Nat \ {0}]
      /\ found \in [Call -> SUBSET RevCid] /\ CallInv(c)
      /\ named' \in [Call -> InvCid] /\ \A d \in Call \ {c} : named'[d] = named[d]
  BY <1>1 DEF IInv, TypeOK
<1>3. verdict' = [verdict EXCEPT ![c] = "none"]
  BY <1>1, NoVerdict
<1>4. /\ pc'[c] = "getAllAgain" /\ verdict'[c] = "none" /\ Moment(c)' = Moment(c)
      /\ Deserved(c)' = Deserved(c) /\ (CallInv(c)' => IInv')
  BY <1>1, <1>2, <1>3, ResumeStep DEF Where
<1>5. CallInv(c)'
  BY <1>1, <1>2, <1>4
     DEF CallInv, AskedInv, FetchedInv, ChainInv, RevocationInv, Passed, CheckReason
<1> QED  BY <1>4, <1>5

\* A call without proofs ends here, and has no revocation to heed.
LEMMA DetachStep ==
  ASSUME IInv, NEW c \in Call, DetachProofs(c)
  PROVE  IInv'
<1>1. /\ pc[c] = "again"
      /\ UNCHANGED <<delegations, revocations, clock, payload, intact, asked, now, named, fetched,
                     at, found, began>>
  BY DEF DetachProofs, stores, locals
<1>2. /\ named \in [Call -> InvCid] /\ fetched \in [Call -> Seq(DlgCid)]
      /\ at \in [Call -> Nat \ {0}] /\ found \in [Call -> SUBSET RevCid]
      /\ CallInv(c) /\ at[c] = 1 /\ Len(Prfs(c)) \in Nat /\ Prfs(c) \in Seq(DlgCid)
  BY <1>1, Fields DEF IInv, TypeOK, CallInv, AskedInv
<1>3. verdict = [verdict EXCEPT ![c] = "none"]
  BY <1>1, NoVerdict
<1>4. PICK p \in {"lookup", "done"}, v \in {"undecodable", "ok", "none"} :
        /\ pc' = [pc EXCEPT ![c] = p] /\ verdict' = [verdict EXCEPT ![c] = v]
        /\ v # "none" <=> p = "done"
        /\ v = "ok" => Prfs(c) = <<>>
        /\ p = "lookup" => Prfs(c) # <<>>
  BY <1>3 DEF DetachProofs, Settle, Suspend
<1>5. /\ pc'[c] = p /\ verdict'[c] = v /\ Moment(c)' = Moment(c)
      /\ Deserved(c)' = Deserved(c) /\ (CallInv(c)' => IInv')
  <2>1. p \in Where /\ v \in Outcome \cup {"none"}
    BY DEF Where, Outcome
  <2>2. p \in {"lookup", "looked"} => at[c] <= Len(Prf[named[c]])
    BY <1>2, <1>4 DEF Prfs
  <2> QED  BY <1>1, <1>2, <1>4, <2>1, <2>2, ResumeStep
<1>6. Prfs(c)' = Prfs(c)
  BY <1>1 DEF Prfs
<1>7. AskedInv(c)' /\ FetchedInv(c)' /\ ChainInv(c)'
  BY <1>1, <1>2, <1>5, <1>6
     DEF CallInv, AskedInv, FetchedInv, ChainInv, Passed, CheckReason
<1>8. RevocationInv(c)'
  <2>1. v = "ok" => Len(Prfs(c)) = 0
    BY <1>4
  <2> QED  BY <1>1, <1>2, <1>5, <1>6, <2>1 DEF RevocationInv
<1> QED  BY <1>5, <1>7, <1>8 DEF CallInv

\* The lookup fails, or every record about the proof at hand that was there when
\* the call began is still there.
LEMMA LookupStep ==
  ASSUME IInv, NEW c \in Call, LookupAnswers(c)
  PROVE  IInv'
<1> DEFINE stored == {r \in revocations : Rev[r].target = Prfs(c)[at[c]]}
<1>1. /\ pc[c] = "lookup"
      /\ UNCHANGED <<delegations, revocations, clock, payload, intact, asked, now, named, fetched,
                     at, began>>
  BY DEF LookupAnswers, stores
<1>10. PICK p \in {"looked", "done"}, v \in {"none", "lookupError"} :
         /\ pc' = [pc EXCEPT ![c] = p] /\ verdict' = [verdict EXCEPT ![c] = v]
         /\ v # "none" <=> p = "done"
         /\ p = "looked" => /\ \A r \in stored : Rev[r].decodes
                            /\ found' = [found EXCEPT ![c] = stored]
         /\ p = "done" => found' = found
  <2>1. verdict = [verdict EXCEPT ![c] = "none"]
    BY <1>1, NoVerdict
  <2>2. \/ /\ \A r \in stored : Rev[r].decodes
           /\ Suspend(c, "looked") /\ found' = [found EXCEPT ![c] = stored]
        \/ Settle(c, "lookupError") /\ found' = found
    BY DEF LookupAnswers
  <2> HIDE DEF stored
  <2> QED  BY <2>1, <2>2 DEF Settle, Suspend
<1>2. /\ named \in [Call -> InvCid] /\ fetched \in [Call -> Seq(DlgCid)]
      /\ at \in [Call -> Nat \ {0}] /\ CallInv(c) /\ at[c] <= Len(Prfs(c))
      /\ stored \subseteq revocations /\ stored \in SUBSET RevCid
  BY <1>1 DEF IInv, TypeOK
<1>3. \A r \in revocations : Rev[r].target = Prfs(c)[at[c]] => r \in stored
  OBVIOUS
<1> HIDE DEF stored
<1>4. /\ found' \in [Call -> SUBSET RevCid] /\ (p = "looked" => found'[c] = stored)
      /\ \A d \in Call \ {c} : found'[d] = found[d]
  BY <1>2, <1>10 DEF IInv, TypeOK
<1>6. /\ pc'[c] = p /\ verdict'[c] = v /\ Moment(c)' = Moment(c)
      /\ Deserved(c)' = Deserved(c) /\ (CallInv(c)' => IInv')
  <2>1. at[c] <= Len(Prf[named[c]])
    BY <1>2 DEF Prfs
  <2>2. p \in Where /\ v \in Outcome \cup {"none"}
    BY DEF Where, Outcome
  <2> QED  BY <1>1, <1>2, <1>4, <1>10, <2>1, <2>2, ResumeStep
<1>7. Prfs(c)' = Prfs(c)
  BY <1>1 DEF Prfs
<1>8. AskedInv(c)' /\ FetchedInv(c)' /\ ChainInv(c)'
  BY <1>1, <1>2, <1>6, <1>7, <1>10
     DEF CallInv, AskedInv, FetchedInv, ChainInv, Passed, CheckReason
<1>9. RevocationInv(c)'
  <2>1. \A k : Standing(c, k)' <=> Standing(c, k)
    BY <1>1, <1>7 DEF Standing
  <2>2. p = "looked" =>
          \A r \in began[c].revocations : Rev[r].target = Prfs(c)[at[c]] => r \in found'[c]
    BY <1>2, <1>3, <1>4 DEF CallInv, AskedInv
  <2>4. p = "looked" => \A r \in found'[c] : r \in revocations /\ Rev[r].decodes
    BY <1>2, <1>4, <1>10
  <2>3. Honest => \A k \in 1..at[c]-1 : Standing(c, k)
    BY <1>1, <1>2 DEF CallInv, RevocationInv
  <2> QED  BY <1>1, <1>2, <1>6, <1>7, <2>1, <2>2, <2>3, <2>4 DEF RevocationInv
<1> QED  BY <1>6, <1>8, <1>9 DEF CallInv

\* With no author over the proof at hand among the records found, it stands, and
\* so does the chain after the last one.
LEMMA JudgeStep ==
  ASSUME IInv, NEW c \in Call, JudgeRevocations(c)
  PROVE  IInv'
<1> DEFINE n == Len(Prfs(c))
           condemned == \E r \in found[c] : Revokes(Prfs(c)[at[c]], r) /\ HasAuthority(c, r)
<1>1. /\ pc[c] = "looked"
      /\ UNCHANGED <<delegations, revocations, clock, payload, intact, asked, now, named, fetched,
                     found, began>>
  BY DEF JudgeRevocations, stores
<1>2. /\ named \in [Call -> InvCid] /\ fetched \in [Call -> Seq(DlgCid)]
      /\ found \in [Call -> SUBSET RevCid] /\ at \in [Call -> Nat \ {0}]
      /\ CallInv(c) /\ at[c] \in Nat \ {0} /\ at[c] <= n /\ n \in Nat
      /\ FetchedInv(c) /\ RevocationInv(c)
  BY <1>1, Fields DEF IInv, TypeOK, CallInv
<1>3. verdict = [verdict EXCEPT ![c] = "none"]
  BY <1>1, NoVerdict
<1>4. Honest => fetched[c] = Prfs(c)
  BY <1>1, <1>2 DEF FetchedInv
<1>5. Honest /\ ~condemned => \A k \in 1..at[c] : Standing(c, k)
  <2>1. Honest /\ ~condemned => Standing(c, at[c])
    BY <1>1, <1>2, <1>4 DEF RevocationInv, Standing, HasAuthority, Revokes, ValidRevocation
  <2>2. Honest => \A k \in 1..at[c]-1 : Standing(c, k)
    BY <1>1, <1>2 DEF RevocationInv
  <2> HIDE DEF n, condemned
  <2> QED  BY <1>2, <2>1, <2>2
<1>6. Honest /\ condemned => RevokedBy(named[c], revocations)
  <2> SUFFICES ASSUME Honest, condemned
               PROVE  RevokedBy(named[c], revocations)
    OBVIOUS
  <2>1. PICK r \in found[c] :
          ValidRevocation(Prfs(c)[at[c]], r) /\ AncestorIssued(Prfs(c), at[c], r)
    BY <1>4 DEF HasAuthority, Revokes
  <2>2. r \in revocations /\ at[c] \in 1..n
    BY <1>1, <1>2 DEF RevocationInv
  <2> QED  BY <2>1, <2>2 DEF RevokedBy, Prfs
<1>7. PICK p \in {"lookup", "done"}, v \in {"revoked", "ok", "none"} :
        /\ pc' = [pc EXCEPT ![c] = p] /\ verdict' = [verdict EXCEPT ![c] = v]
        /\ v # "none" <=> p = "done"
        /\ v = "revoked" <=> condemned
        /\ v = "ok" => at[c] = n
        /\ p = "lookup" => at[c] < n
        /\ at' = IF p = "lookup" THEN [at EXCEPT ![c] = @ + 1] ELSE at
  <2>1. CASE condemned
    BY <2>1 DEF JudgeRevocations, Settle
  <2>2. CASE ~condemned /\ at[c] < n
    BY <1>3, <2>2 DEF JudgeRevocations, Suspend
  <2>3. CASE ~condemned /\ ~(at[c] < n)
    <3>1. Settle(c, "ok") /\ UNCHANGED at
      BY <2>3 DEF JudgeRevocations
    <3>2. at[c] = n
      BY <1>2, <2>3
    <3> HIDE DEF condemned, n
    <3> QED  BY <2>3, <3>1, <3>2 DEF Settle
  <2> QED  BY <2>1, <2>2, <2>3
<1>8. /\ at' \in [Call -> Nat \ {0}] /\ \A d \in Call \ {c} : at'[d] = at[d]
      /\ at'[c] = IF p = "lookup" THEN at[c] + 1 ELSE at[c]
  <2> HIDE DEF n, condemned
  <2> QED  BY <1>2, <1>7
<1>9. /\ pc'[c] = p /\ verdict'[c] = v /\ Moment(c)' = Moment(c)
      /\ Deserved(c)' = Deserved(c) /\ (CallInv(c)' => IInv')
  <2>1. p \in Where /\ v \in Outcome \cup {"none"}
    BY DEF Where, Outcome
  <2>2. p \in {"lookup", "looked"} => at'[c] <= Len(Prf[named[c]])
    BY <1>2, <1>7, <1>8 DEF Prfs
  <2> HIDE DEF n, condemned
  <2> QED  BY <1>1, <1>2, <1>7, <1>8, <2>1, <2>2, ResumeStep
<1>10. Prfs(c)' = Prfs(c) /\ \A k : Standing(c, k)' <=> Standing(c, k)
  BY <1>1 DEF Prfs, Standing
<1>11. AskedInv(c)' /\ FetchedInv(c)' /\ ChainInv(c)'
  BY <1>1, <1>2, <1>9, <1>10
     DEF CallInv, AskedInv, FetchedInv, ChainInv, Passed, CheckReason
<1>12. RevocationInv(c)'
  <2> SUFFICES ASSUME Honest'
               PROVE  RevocationInv(c)'
    BY DEF RevocationInv
  <2>1. Honest
    BY DEF Honest
  <2>2. p = "lookup" => \A k \in 1..at'[c]-1 : Standing(c, k)'
    <3> HIDE DEF n, condemned
    <3> QED  BY <1>2, <1>5, <1>7, <1>8, <1>10, <2>1
  <2>3. v = "ok" => \A k \in 1..Len(Prfs(c)) : Standing(c, k)
    <3> HIDE DEF condemned
    <3> QED  BY <1>5, <1>7, <2>1
  <2>4. v = "revoked" => RevokedBy(named[c], revocations)
    <3> HIDE DEF condemned
    <3> QED  BY <1>6, <1>7, <2>1
  <2> QED  BY <1>1, <1>9, <1>10, <2>2, <2>3, <2>4 DEF RevocationInv
<1> QED  BY <1>9, <1>11, <1>12 DEF CallInv

\* The caller writes to its payload.
LEMMA MutateStep ==
  ASSUME IInv, NEW c \in Call, CallerMutates(c)
  PROVE  IInv'
<1>1. PICK inv \in InvCid : payload' = [payload EXCEPT ![c] = inv]
  BY DEF CallerMutates
<1>2. /\ intact' = [intact EXCEPT ![c] = @ /\ pc[c] = "idle"]
      /\ UNCHANGED <<delegations, revocations, clock, pc, asked, now, named, fetched, at, found,
                     began, verdict>>
  BY DEF CallerMutates, stores, locals
<1>3. intact' \in [Call -> BOOLEAN] /\ payload' \in [Call -> InvCid]
  BY <1>1, <1>2 DEF IInv, TypeOK
<1>4. TypeOK'
  <2>1. (\A d \in Call : pc[d] \in {"lookup", "looked"} => at[d] <= Len(Prfs(d)))'
    BY <1>2 DEF IInv, TypeOK, Prfs
  <2> QED  BY <1>2, <1>3, <2>1 DEF IInv, TypeOK
<1>5. CallInv(c)'
  <2>1. pc[c] # "idle" => ~intact'[c]
    BY <1>2 DEF IInv, TypeOK
  <2>2. Prfs(c)' = Prfs(c) /\ Moment(c)' = Moment(c) /\ \A k : Standing(c, k)' <=> Standing(c, k)
    BY <1>2 DEF Prfs, Moment, Standing
  <2>3. AskedInv(c)' /\ FetchedInv(c)' /\ ChainInv(c)'
    BY <1>2, <2>1, <2>2 DEF IInv, CallInv, AskedInv, FetchedInv, ChainInv
  <2>4. RevocationInv(c)'
    BY <1>2, <2>2 DEF IInv, CallInv, RevocationInv
  <2> QED  BY <2>3, <2>4 DEF CallInv
<1>6. ASSUME NEW d \in Call \ {c}  PROVE CallInv(d)'
  <2>1. UNCHANGED CallState(d)
    BY <1>1, <1>2 DEF IInv, TypeOK, CallState
  <2> QED  BY <1>2, <2>1, Frame DEF IInv
<1> QED  BY <1>2, <1>4, <1>5, <1>6 DEF IInv, StoreInv

\* The stores and the clock move on, or nothing does.
LEMMA AroundStep ==
  ASSUME IInv,
         \/ \E f \in Filings : InsertByCid(f[1], f[2])
         \/ \E d \in DlgCid, r \in RevCid : InsertRevocation(d, r)
         \/ Tick
         \/ UNCHANGED vars
  PROVE  IInv'
<1>1. UNCHANGED <<payload, pc, asked, now, named, fetched, at, found, began, verdict, intact>>
  BY DEF InsertByCid, InsertRevocation, Tick, vars, locals
<1>2. revocations \subseteq revocations' /\ revocations' \subseteq RevCid /\ clock' \in Nat
  BY DEF IInv, TypeOK, InsertByCid, InsertRevocation, Tick, vars, stores
<1>3. delegations' \in [DlgCid -> DlgCid \cup {NoDelegation}] /\ StoreInv'
  <2>1. CASE UNCHANGED delegations
    BY <2>1 DEF IInv, TypeOK, StoreInv, Honest
  <2>2. ASSUME NEW f \in Filings, InsertByCid(f[1], f[2])
        PROVE  delegations' \in [DlgCid -> DlgCid \cup {NoDelegation}] /\ StoreInv'
    <3>1. f[1] \in DlgCid /\ f[2] \in DlgCid
      BY SemanticAssumption
    <3>2. delegations' = [delegations EXCEPT ![f[1]] = f[2]]
      BY <2>2 DEF InsertByCid
    <3>3. Honest => f[1] = f[2]
      BY DEF Honest
    <3> QED  BY <3>1, <3>2, <3>3 DEF IInv, TypeOK, StoreInv, Honest
  <2> QED  BY <2>1, <2>2 DEF InsertRevocation, Tick, vars, stores
<1>4. TypeOK'
  <2>1. (\A d \in Call : pc[d] \in {"lookup", "looked"} => at[d] <= Len(Prfs(d)))'
    BY <1>1 DEF IInv, TypeOK, Prfs
  <2> QED  BY <1>1, <1>2, <1>3, <2>1 DEF IInv, TypeOK
<1>5. ASSUME NEW c \in Call  PROVE CallInv(c)'
  BY <1>1, <1>2, Frame DEF IInv, CallState
<1> QED  BY <1>3, <1>4, <1>5 DEF IInv

----------------------------------------------------------------------------
(* The theorems                                                            *)

\* The inductive invariant: what the stores hold and what each call knows.
THEOREM SemanticInductive == Spec => []IInv
<1>1. Init => IInv
  <2> SUFFICES ASSUME Init  PROVE IInv
    OBVIOUS
  <2>1. \A d \in DlgCid : delegations[d] = NoDelegation
    BY DEF Init
  <2>2. TypeOK
    <3>1. \A c \in Call : pc[c] = "idle" /\ verdict[c] = "none"
      BY DEF Init
    <3> QED  BY <3>1 DEF Init, TypeOK
  <2>3. ASSUME NEW c \in Call  PROVE CallInv(c)
    <3>1. pc[c] = "idle" /\ verdict[c] = "none" /\ at[c] = 1 /\ began[c].revocations = {}
      BY DEF Init
    <3> QED  BY <3>1 DEF CallInv, AskedInv, FetchedInv, ChainInv, RevocationInv
  <2> QED  BY <2>1, <2>2, <2>3 DEF IInv, StoreInv
<1>2. IInv /\ [Next]_vars => IInv'
  <2> SUFFICES ASSUME IInv, [Next]_vars  PROVE IInv'
    OBVIOUS
  <2>1. ASSUME NEW c \in Call, NEW q \in Request, Begin(c, q)  PROVE IInv'
    BY <2>1, BeginStep
  <2>2. ASSUME NEW c \in Call, GetAllAnswers(c, "getAll", "fetched")  PROVE IInv'
    BY <2>2, GetAllStep
  <2>3. ASSUME NEW c \in Call, CheckChain(c)  PROVE IInv'
    BY <2>3, CheckChainStep
  <2>4. ASSUME NEW c \in Call, CaptureProofs(c)  PROVE IInv'
    BY <2>4, CaptureStep
  <2>5. ASSUME NEW c \in Call, GetAllAnswers(c, "getAllAgain", "again")  PROVE IInv'
    BY <2>5, GetAllStep
  <2>6. ASSUME NEW c \in Call, DetachProofs(c)  PROVE IInv'
    BY <2>6, DetachStep
  <2>7. ASSUME NEW c \in Call, LookupAnswers(c)  PROVE IInv'
    BY <2>7, LookupStep
  <2>8. ASSUME NEW c \in Call, JudgeRevocations(c)  PROVE IInv'
    BY <2>8, JudgeStep
  <2>9. ASSUME NEW c \in Call, CallerMutates(c)  PROVE IInv'
    BY <2>9, MutateStep
  <2> QED  BY <2>1, <2>2, <2>3, <2>4, <2>5, <2>6, <2>7, <2>8, <2>9, AroundStep DEF Next
<1> QED  BY <1>1, <1>2, PTL DEF Spec

\* The stores and the locals of every call keep their types.
THEOREM SemanticTyped == Spec => []TypeOK
<1>1. IInv => TypeOK
  BY DEF IInv
<1> QED  BY <1>1, SemanticInductive, PTL

\* check judges the chain as of the call, however long the store takes.
THEOREM JudgedAtTheCall == Spec => []JudgedAsOfTheCall
<1>1. IInv => JudgedAsOfTheCall
  <2> SUFFICES ASSUME IInv, Honest, NEW c \in Call, intact[c],
                      verdict[c] = "ok" \/ verdict[c] \in CheckReason
               PROVE  /\ verdict[c] = "ok" /\ asked[c].chain =>
                           AuthorizedAt(asked[c].inv, Moment(c), 0)
                      /\ verdict[c] \in CheckReason => ~AuthorizedAt(asked[c].inv, Moment(c), 0)
    BY DEF JudgedAsOfTheCall, Moment
  <2>1. pc[c] = "done"
    BY DEF IInv, TypeOK, CheckReason
  <2>2. asked[c] \in Request /\ now[c] = Moment(c)
    BY <2>1 DEF IInv, CallInv, AskedInv
  <2>3. /\ asked[c].inv \in InvCid /\ Moment(c) \in Nat
    BY <2>2, Fields DEF IInv, TypeOK
  <2>4. Inv[asked[c].inv] \in Payload /\ Resolve(Prf[asked[c].inv]) \in Seq(Delegation)
    BY <2>3, ResolveType, EvidenceAssumption
  <2>5. Deserved(c) = "ok" <=> AuthorizedAt(asked[c].inv, Moment(c), 0)
    BY <2>3, <2>4, CheckResolvedOk DEF Deserved, AuthorizedAt, ShiftOverflows
  <2> QED  BY <2>1, <2>5 DEF IInv, CallInv, ChainInv, Passed
<1> QED  BY <1>1, SemanticInductive, PTL

\* checkRevocations misses no record that was there before the call.
THEOREM SemanticKnownHonoured == Spec => []KnownRevocationsHonoured
<1>1. IInv => KnownRevocationsHonoured
  BY DEF IInv, CallInv, RevocationInv, Standing, KnownRevocationsHonoured, RevokedBy, Prfs
<1> QED  BY <1>1, SemanticInductive, PTL

\* checkRevocations refuses only for a record by an ancestor.
THEOREM SemanticRevokedHasCause == Spec => []RevokedByAncestor
<1>1. IInv => RevokedByAncestor
  BY DEF IInv, CallInv, RevocationInv, RevokedByAncestor
<1> QED  BY <1>1, SemanticInductive, PTL
=============================================================================
