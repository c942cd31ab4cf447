# Specifications of ts-ucan

This directory holds TLA+ specifications of ts-ucan, a TypeScript implementation
of UCAN 1.0 (User Controlled Authorization Networks): TLC configurations that
check them on small instances, and TLAPS proofs of what matters most for every
instance.  Paths below are relative to the repository.

## 1. The system

A *delegation* hands authority over a subject to an audience, narrowed by a
command prefix, a policy and time bounds.  An *invocation* asks an executor to
run a command for a subject and names, by CID, the chain of delegations that
authorises it, root first.  A *revocation* is itself an invocation, of
`/ucan/revoke`.  All are signed envelopes in canonical DAG-CBOR.  The executor
calls `verifyInvocation` and runs the command if it returns.

| Part | Source (`packages/…`) | State it keeps | Operations |
|---|---|---|---|
| Chain check | `ucan/src/invocation/index.ts` (`check`, `checkResolved`, `timeBoundChecks`, `syntaticChecks`), `command.ts`, `delegation/subject.ts` | the locals `expectedIssuer`, `previous` | one synchronous call |
| Invocation verification | `ucan/src/invocation/verify.ts` | `MapReplayStore.seen` | `verifyInvocation`, `claim` |
| Revocation | `ucan/src/revocation/index.ts` | `MapRevocationStore.map` | `insert`, `lookup`, `checkRevocations`, `checkWithRevocations`, `revoke` |
| Delegation store | `ucan/src/delegation/store.ts` | `MapDelegationStore.map` | `insert`, `insertByCid`, `getAll` |
| Selectors | `ucan/src/delegation/policy/selector/*` | the locals of `Select.get` | parse, print, select |
| Policy predicates | `ucan/src/delegation/policy/predicate.ts`, `number.ts`, `collection.ts`, `ipld.ts` | none | `runPredicate`, `glob`, the codec |
| Payload codecs and builders | `ucan/src/delegation/index.ts`, `invocation/index.ts`, both `builder.ts`, `envelope/*` | the fields of a builder | set, build and sign, encode, decode, verify |
| Time | `ucan/src/time/*` | none (reads the clock) | construct, compare, convert |
| Containers | `ucan/src/container/index.ts` | none; the locals of a call while zlib runs | pack and unpack tokens |
| Promises | `ucan/src/promise.ts` | none | convert between data, promised values and their wire forms |
| Principals, nonces | `ucan/src/did.ts`, `crypto/nonce.ts` | none | parse, print, generate |
| Varsig | `varsig/src/*` | none | headers, sign, verify |
| REST service | `examples/05-rest-api.ts` | its three stores, `notes` | handle a request, revoke |
| Container transport | `examples/06-container-transport.ts` | `delegation`, `invocation` of its loop | pack, unpack, sort tokens out |

**Interaction.**  `verifyInvocation` decodes a private snapshot of the
invocation, awaits `delegationStore.getAll`, authenticates each proof, runs the
synchronous `checkResolved` (which runs the policy of every proof through
`runPredicate`, which selects its operands through `Select.get`), awaits
`revocationStore.lookup` once per proof, and awaits `replayStore.claim`.  The
three stores are shared by all concurrent calls; anyone may insert delegations
and revocations meanwhile; the option object and the invocation stay reachable
from the caller and from stores, which may change them at any await.

Around that, the REST service files the proofs a request brings in the store that
all requests share, calls `verifyInvocation` once per request and makes a note for
each invocation that returns; and tokens travel in containers, with arguments that
may hold promises of other invocations' results.

**What is hard.**  Interleavings of calls at their awaits; values read before an
await and used after it; a clock that moves during a call; stores written by
others, which fail or answer what was not asked; authority that must travel a
whole chain when each step compares two neighbours; strictness and overflow at
time bounds; policies that throw, with early exits that make the order matter;
numbers with two representations; printers and parsers that must agree because
decoding demands the canonical bytes; buffers that zlib reads while their owner
may write to them; ids taken from a size after an await.  There is no persistence
in the code, so there are no crashes to recover from, and no timeouts; a client may
send its invocation again while the first request is on its way.

The hazards are listed one by one, at their lines, in `PROJECT.json`, with the
properties that would catch each of them going wrong.

## 2. The modules

```
Chain ── ChainCheck ── MCChainCheck          Evidence ─┬─ Verify ─┬─ MCVerify
  │  └── ChainProofs ─┬─ ChainCheckProofs              │          └─ RestService ── MCRestService
  │                   ├─ SemanticProofs                ├─ AuthGate (abstract)
  │                   └─ VerifyProofs (RestService)    └─ SemanticCheck ── MCSemanticCheck

Ipld ─┬─ Filters ──┬─ Selector ── MCSelector
      ├─ IpldData ─┴─ Predicates ─┬─ Judging ────────┬─ Policy ── MCPolicy
      └─ IpldTrees ───────────────┴─ PredicateCodec ─┘
             └─ Promises ─┬─ Parcel ─┬─ MCParcel
Container ────────────────┘          └─ ContainerProofs ── (instances of) IpldProofs ── IpldTrees
Selector, Policy ── PolicyNotions ── PolicyProofs ── (instances of) IpldProofs ── IpldTrees

                                             Tokens ── TokenExchange ─┬─ MCTokenExchange
                                                                      └─ TokenProofs
```

| Module | Models | State ↔ code |
|---|---|---|
| `Chain` | one synchronous `checkResolved` as operators: `TimeBoundChecks`, `SyntaticChecks`, `CheckResolved`, with the reason each throw gives; and `Authorized`, what it should mean, stated over the whole chain | none |
| `ChainCheck` | the same call as it runs, one turn of a loop a step | `i`, `expectedIssuer`, `previous` are the locals of `syntaticChecks`; `phase` says which loop runs |
| `Evidence` | the tokens in circulation by CID, `assertValidRevocation`, the ancestors that may revoke | constants `Dlg`, `Inv`, `Prf`, `Rev` |
| `Verify` | any number of concurrent calls of `verifyInvocation` | `delegations`, `revocations`, `seen` are the maps of the three stores; `args`, `fetched`, `at`, `found` the locals of a call; `pc` the await a call is suspended at; `options` what the caller still holds |
| `AuthGate` | the abstract specification: an atomic gate | `executed`, `known`, one request and answer per call |
| `SemanticCheck` | `check`, `checkRevocations`, `checkWithRevocations` on their own | as `Verify`, and `payload`, which these functions read from the caller after an await; `now`, the defaulted parameter |
| `Ipld`, `IpldData`, `IpldTrees` | values and numbers of two kinds; equality of values; what DAG-CBOR makes of them | none |
| `Filters` | selector syntax, parser, printer, `applyFilter` | none |
| `Selector` | one selector: printed, parsed and printed again, then the loop of `Select.get` | `at`, `current`, `isTry` are the loop's locals |
| `Predicates`, `PredicateCodec` | `runPredicate` and `glob`; `predicateToIpld` and `ipldToPredicate` | none |
| `Judging` | one run of a predicate on the arguments at hand, and what the predicate means | the predicate, the arguments, the verdict |
| `Policy` | one predicate from its issuer's memory over the wire to its verifier's | the predicate and arguments on each side and the two verdicts |
| `Tokens` | payload codecs, varsig header, envelope codec, `decode`, `verifySignature` as operators | none |
| `TokenExchange` | builders, signing, the wire with other implementations and alteration, the receiver | `draft` is the builder's fields, `wire` the bytes, `token` the decoded object |
| `RestService` | concurrent requests to the REST service, composed with `Verify` on the stores they share | `handler` is where a request's handler is suspended, `inserted` how many of its proofs it has filed, `notes` the service's map; the call it makes is a call of `Verify` |
| `Container` | one sender's calls of `containerToBytes`, the way the bytes go, one call of `containerFromBytes` | `job` the parameters the caller holds, `cbor` and `payload` what zlib is given, `bytes` the argument of the receiver's call |
| `Promises` | the six conversions of `promise.ts` and what they throw, as operators | none |
| `Parcel` | an argument enclosed in an invocation, packed, carried, unpacked, sorted out and read: `Container` composed with `Promises` | `delegation` and `invocation` are the variables of the example's loop |

Modules named `…Proofs` hold theorems, `MC…` the instances that TLC checks;
`PolicyNotions` defines what the theorems about policies speak of.

### How steps correspond

*Verify.*  JavaScript runs a call without interruption from await to await, so
each such stretch is one action: `Begin` (capture of the options, snapshot,
signature, audience), `GetAllAnswers`, `CheckProofs` (count, CID and signature of
every proof, then `checkResolved`), `LookupAnswers` and `JudgeRevocations` once per
proof, `Claim` with the return.  The answer of a store is a step apart from the
resumption, since a promise settles at one moment and the call goes on at a
later one.  In between, anyone inserts delegations (`InsertByCid`, which `insert`
calls with the delegation's own CID) and revocations, the clock ticks, and the
caller changes what it still holds (`CallerMutates`).  A CID stands for its
token, so `ProofFault` compares CIDs where the code recomputes a hash.  A
signature that does not verify and bytes that do not decode are the values of
`seal`.  With `CustomStores`, `getAll` answers with any delegations or fails,
`lookup` adds any records to what was inserted or fails, and `claim` fails before
or after it has recorded; what is assumed of a custom store is only that a
lookup contains what was inserted, without which no revocation could be
promised.

`MapRevocationStore.insert` authenticates a record in memory and stores its encoding,
which it never decodes; `lookup` decodes it (`revocation/index.ts:107`).  A record may be
one that does not (`decodes` in `Evidence`): the builders take an expiration beyond
2^53-1 (section 5).  Then every lookup of its target throws, and the call is rejected
(`lookupError`), whoever issued the record.  A store of another implementation may hand
such a record out, and `checkRevocations`, which decodes it again, passes over it
(`Revokes`).  So what a call heeds (`Heeded`) is all records with the Map stores, and
those that decode with others; `KnownRevocationsHonoured`, `RevokedByAncestor` and the
mapping to `AuthGate` are about what is heeded.

*SemanticCheck.*  `Begin` takes the clock as the default of `now`, as the
parameter default does.  `CheckChain` reads the payload after the await, and
`CaptureProofs` reads it again before the second `getAll`.  `intact` is a
history variable: the caller left the payload alone.

*RestService.*  A handler is suspended at each `delegationStore.insert` and inside
`verifyInvocation`.  `InsertProof` is the stretch up to the next insert, `Dispatch`
the one that decodes the invocation, compares its command and runs into the call
(so it contains `Begin` of `Verify`); a target that `new URL` throws at, such as `//`, is
answered with 500 before that, in `Arrive`.  `Verifying` is a step of the call, and `Reply` the
stretch that makes the note or maps the error to a status.  `Filings` is every
delegation under its own CID, as `insert` files it.

*Container.*  `Pack` and `Unpack` run to the await of zlib, or to the end without
one; `Gzipped` and `Gunzipped` go on from it.  A token is its bytes, because the
order of tokens depends on them; a payload is what was done to it, one layer per
encoding, so that base64, gzip and CBOR are undone by their inverse only.
`SenderMutates` and `ReceiverMutates` write to what the caller still holds.
`bytes.slice(1)` of a Buffer is a view: `Gunzipped` then reads what the memory was,
what it has become, or a mixture.  Keys are those in the CBOR; the code counts the
keys of the object that `dagCbor.decode` makes of them, which has no key `__proto__`
(`Own`), so that a map with that key next to `ctn-v1` is a container to it, and
`Listings` says so.  `occasion` says which of these worlds a behaviour
is about, so that one run can hold several that do not mix.

*Parcel, Promises.*  Values that are promised have kinds of their own where the
code's have (`integer` and `float` for numbers, three waits); the wire form is an
`Ipld` value, whose numbers and key order DAG-CBOR then normalises as `IpldTrees` says.
`IsData`, `IsPromised` and `IsOutcome` are the three types, for values of any depth;
`Value` holds the values that senders and others start from, with all that is in them, and
`Depth` says that none of them contains itself.  None has a key `__proto__`: an invocation
whose arguments hold one is refused when it is decoded (`ucan/test/ipld.test.ts:35-44`),
which `TokenExchange` has.

*ChainCheck.*  Each turn of the two loops is a step, and each throw settles the
call with its reason.  `RunPredicate` is a constant: nothing about chains
depends on the policy language, which `Policy` models by itself.

*Filters, Selector.*  A selector's text is a sequence of lexemes: a name, a
bracket expression, a dot, a question mark.  That is as much of the text as
printer and parser can disagree on; what a JSON string literal contains is
opaque, except whether it could stand after a dot (`DotKey`) or not (`QuotedKey`).

*IpldTrees.*  What recurses over values without end, as the conversions to and from
DAG-CBOR, of predicates and of promises do, is a `Fold`: a node function says what it
makes of one value, given what it makes of the values in it.  The trees that come up on
the way are in no set given beforehand; `Fold` takes as its domain what is within the
value at hand (`Within`).  DAG-CBOR throws for NaN and the infinities (`Encodable`); it
also throws for bigints beyond 64 bits, which no instance has, and drops the key
`__proto__` when it reads, which is left to `Tokens`.

*Policy.*  `RunHere` is the policy part of `check` on the payloads as built, `WritePolicy`
what `tryBuild` does with them, `WriteElsewhere` another implementation writing the same
policy otherwise or wrongly, `ReadPolicy` the decoder with its re-encoding, and
`RunThere` the policy part of `verifyInvocation` on what was decoded.  `ipldToPredicate`
applies `objectsToMaps` to values that `ipldFromDagCbor` has made Maps of already
(`predicate.ts:301`), and `Object.entries` of a Map is empty: `Emptied` is what becomes of
an operand, `Decoded` what becomes of a predicate, and `ReadPolicy` refuses what does not
encode to the same bytes again.

*Ipld, Predicates.*  Numbers carry their kind (`number` or `bigint`) and their
value in halves, so that some are not whole.  `MaxSafe` stands for 2^53-1.  A
value is never the identical object as another, so the `Object.is` shortcut of
`ipldEquals` is the comparison it shortcuts.  A policy's maps keep their order of
insertion, on which the order of evaluation under `all` and `any` depends.
`Data` and `Predicate` are constants, the values and the predicates there are, each
with all that is in them, so that `runPredicate` and `ipldEquals`, which recurse on
parts, are recursive functions; `Depth` and `Size` say that nothing contains itself.

*Tokens, TokenExchange.*  The fields go by their names on the wire and their
values are opaque, with a value of the wrong type where the decoder looks at
types.  `canonical` is whether the bytes are the canonical DAG-CBOR of what they
say, so that the re-encoding of `decode` compares maps, items and this flag.
`Emptied` and `Stripped` say what reading makes of policies that compare with maps
(`MapOperands`) and of arguments and metadata with a key `__proto__` (`ProtoMaps`):
constants, of which `LossAssumption` says only that nothing lossy comes out and that
everything else stays as it is.  A policy without maps in its operands is read as it was
written, which is what `Policy` shows of it.
The errors of a decoder are not told apart.  A signature is the pair of signer
and content, and signing is not something a third party can do for another.

## 3. What is checked

Each run is one line of `PROJECT.json`; the properties are stated in words where
they are defined.

| Run | Instance and bounds | Shows |
|---|---|---|
| `chain` | 2 principals, 2 segments; all chains of ≤ 2 links with every subject, audience and command; chains of ≤ 4 that differ in commands; windows nbf ∈ {–,1,3}, exp ∈ {–,0,2}, now 0–4, leeway 0–2, `MaxSeconds` 4 | the loops compute `CheckResolved` with the reason, accept exactly what `Authorized` says, and never let a later proof widen an earlier one |
| `replay` | 2 calls, 2 invocations, 1 revocation, failing custom stores, options that change | `AcceptedOnce`, `RejectionBurnsNothing`, `ReplayMeansClaimed`, and the refinement `ImplementsGate` |
| `evidence` | 1 call, 4 delegations (one forged, one short-lived), 4 invocations, 5 records of which 2 have no authority and 1 does not decode, any answer of `getAll` of up to one element too many, clock 0–3 | `AcceptedWasAuthorized`, `KnownRevocationsHonoured`, `RevokedByAncestor` |
| `rest` | 2 requests, Map stores, 4 invocations (two of one content, one for another route, one that does not decode), a grant of one second, a proof that does not decode, 2 records of which one does not decode and is by somebody without authority, a target that is no URL, proofs in another order, missing or garbled, clock 0–1 | `NotesAreAuthorized`, `OneNotePerInvocation`, `RepliesNameNotes`, `RefusedForCause`, `EvidenceRejectionsDeserved`, and the liveness `EveryRequestAnswered` |
| `semantic` | 1 call of each of the three functions, 4 delegations (one that does not decode, one short-lived), 4 records of which one does not decode, a caller that changes the payload, clock 0–2 | `JudgedAsOfTheCall`, `KnownRevocationsHonoured`, `RevokedByAncestor` |
| `selector` | all selectors of ≤ 2 filters of every form, ≤ 3 fields optional or plain, 5 documents, 3 spellings each | `SelectsByMeaning`, `DecodedIsIssued` |
| `policy` | 15 numbers on both sides of the safe range against each other; `==` and its denial, alone and under `any` and `or`, with maps, empty or not, and lists and maps of them; connectives and quantifiers two deep; all globs of ≤ 5 and strings of ≤ 3 characters over 2 letters, `*`, `\` | `VerdictIsMeant`, `ArrivesAsIssued`, `VerdictSurvivesTheWire` |
| `tokens` | both kinds, all sequences of setters, a policy that compares with a map, a map with a key `__proto__`, one alteration of any field, header, tag, signature or of the array, `MaxSafe` 2 | `OwnTokenArrives`, `VerifiedAsSigned`, `ConformingAccepted` |
| `parcel` | 5 tokens of which some are prefixes of others, lists of ≤ 3 in all six formats packed twice, a token of neither kind, a parcel without an invocation, 271 byte strings others send, Buffers that are rewritten; every outcome over values two levels deep on 18 leaves, data that looks like promises, 400 wire forms of others | `OneContainerPerParcel`, `ParcelArrives`, `UnpackedAsOfTheCall`, `ArgumentArrives`, `ReadIsWhatIsWritten`, `ResolvesUnlessWaiting` |
| `selector_wire`, `deep_equality`, `tokens_postel` | one instance each | the findings of section 5 |

*Why the bounds are enough.*  The chain check compares neighbours and the root,
so two links meet every pairing and four show that nothing is lost in passing.
Calls meet only in the replay set and in what is inserted for all, so two calls
show every conflict (the record that does not decode is in the runs `rest`, `semantic` and
`evidence`; `replay` has a decodable one, and the proof of the refinement covers both), and where properties are about one call one call is enough.
A chain of two proofs has a root, a leaf, and both directions of revocation.  The
clock has an instant before, in and after each window, and `MaxSeconds` is small
so that leeway overflows.  Globs of five characters have an anchored end, two
fragments between stars and an escape.  A parcel packed twice (`Packings` = 2) can be
compared with itself; a third call could only repeat a comparison.  Two requests meet
over one invocation, over one proof and over one note number.  What must hold beyond the bounds is
proved (section 4) where the prover can.

*Symmetry* is used in `replay`, over the calls, which no definition tells apart
and where no liveness is checked.  *Deadlock* is not checked: a program whose
calls have all returned and whose clock has reached its horizon may stop.

*Fairness.*  `FairRestSpec` has weak fairness of each handler that is under way: that
promises of the Map stores settle, and that the event loop runs what is resumed.
Nothing is assumed of clients, of revocations or of the clock.
`EveryRequestAnswered` is about requests that arrived: nothing promises that one is
sent.  Weak fairness is enough, since no step of another request disables a
handler's next step.  The step of a custom store may never come, so there is no
liveness under `CustomStores`.

*Histories.*  `began` remembers the clock and the revocations a call found when it
was made, `intact` is described above, `passed`, `made` and `given` are what the calls of
the container codec began with and made; no action of the code reads them for
anything but what it captured itself.

Every property of a passing run has a mutant in `PROJECT.json`: a slip of a
kind this code invites, defined next to the definition it stands in for
(comments call these slips), under which TLC finds the property violated.

## 4. What is proved

The proofs need no bound.  They assume what the modules ASSUME of their
constants: that tokens have the fields their types say, that `RunPredicate` has
one of three outcomes, that the markers for "nothing" are none of the values, and for
the service that its stores are the Map stores and its options are those of the
example.

*The chain* (`ChainProofs`, `ChainCheckProofs`).  `CheckResolvedOk`: `CheckResolved`
is ok exactly when the chain is `Authorized` and the leeway does not overflow.
`LoopCorrect`, `AcceptanceCorrect`, `AttenuationCorrect`: the loops compute it for
chains of any length.  The invariant says what each loop has established when it
is at proof `i`: `expectedIssuer` and `previous` describe proof `i-1`, no link
before `i` is at fault, and commands narrow pairwise over all proofs before `i`;
the last is what makes comparing neighbours enough, by transitivity of
`StartsWith`.

*Concurrent calls* (`VerifyProofs`).  The properties are not inductive: that an
accepted call was authorised rests on what was found two awaits earlier.  `IInv`
records what a call knows at each await: `BeganInv` (revocations and clock only
grow after it began), `EvidenceInv` (past `checkResolved`, what was fetched is what
was named, and it was authorised at an instant of the call), `RevocationInv` (each
proof before `at` stands against every record known at the beginning, and a lookup
has not missed one), and `ReplayInv` (who is behind each CID in `seen`).  From it
follow `Typed`, `ReturnedOnce`, `BurnsNothing`, `ReplayHasCause`,
`ReturnedWasAuthorized`, `KnownHonoured` and `RevokedHasCause`, for any number of
calls, tokens and records, and custom stores.

`RefusedOnEvidence` says the converse of acceptance for the Map stores: a refusal
about signatures, audience or chain is deserved, and a lookup fails only if a revocation
of one of the proofs is stored that does not decode (`LookupDeserved`).  It needs a second invariant,
`MapInv`: with delegations filed under their own CIDs only, what was fetched is what
was asked for, so `checkResolved` judged the chain that the invocation names, and
`CheckResolvedOk` turns its reason into the lack of authorisation; stored records are
valid revocations of what they are filed under, and none is taken out (`Grows`), so that
what once did not decode is still there.

*Refinement* (`VerifyProofs`).  `CallsImplementGate`: `Spec => AuthGate!Spec` under the
mapping of `Verify`.  `Begin` maps to `Ask` or `Refuse`, `Claim` to `Accept` or
`Reject`, a failing claim to `Lose` or `Reject`, other rejections to `Reject`, and
the rest stutters.  `IInv` supplies that a call at its claim deserves acceptance.

*The REST service* (`VerifyProofs`).  `RequestsAreCalls`: `RestSpec => Verify!Spec`, every
step of the service being a step of `Verify` or none of its business.  So all that
is proved of calls holds of requests, and what remains is an invariant on top,
`RInv`: notes are numbered 1 to n and each was made by one answered request whose
call returned (`NoteInv`); what a handler has filed stays filed (`DeliveryInv`), so
that a proof that is not found was not brought; where an error status comes from
(`AnswerInv`).  From it `NotedOnce`, `RepliesNamed`, `NotedWithAuthority`,
`RefusalsCaused` and `ServiceTyped` follow for any number of requests.

*Semantic checks* (`SemanticProofs`).  `CallInv` is as for `Verify`, except that it has
to say of which payload: the proofs captured (`named`) for revocations, the
payload asked about, as long as it was left alone (`intact`), for the chain; and
that `now` is the moment of the call (`AskedInv`).  `JudgedAtTheCall`,
`SemanticKnownHonoured`, `SemanticRevokedHasCause` and `SemanticTyped` follow.

*Containers* (`ContainerProofs`).  `UnpacksAsPassed`: whatever bytes are passed, and
however deep their layers, the outcome is right of the bytes as they were passed.
`HoldsByHeader` and `HeaderHolds` say what each of the six headers announces;
`ExtractRight` and `GunzipRight` that the two ways through the code agree with it;
the invariant, that between the two steps of a call `payload` is what was cut out of
the bytes as passed.
`OneContainer` and `PackedArrives` are about packing: two calls make the same bytes
exactly when they were passed the same tokens, in any order, and one format; and what
was made unpacks to those tokens, sorted.  The code sorts by a comparator of digits
(`WeightByDigits`), which is shown to be the order of bytes (`SortedIsBytewise`), and
tokens that are sorted and the same in number are the same (`SortedOnce`).  The
invariant `PInv` says that whatever a call holds while zlib runs is the content of the
tokens it was passed, so that what its caller does to the array meanwhile is lost.
What is assumed of tokens is that they are byte strings.

*Selectors* (`PolicyProofs`).  `LoopSelectsByMeaning`: the loop of `Select.get` returns
what its filters mean, for selectors of any length on any value.  `FilterPicks` is the
arithmetic: an index or a slice that `applyFilter` computes from negative, missing and
out-of-range bounds picks the positions that `Picks` describes by their distance from
either end.  The values along the filters are a *way* (`IsWay`), the meaning is read off
it (`MeaningIsReached`), and the invariant `SInv` says that the loop is on the way, or
past the first miss and excused by an optional filter (`OnTheWay`).
`AcceptedMeansTheSame`: a text that the parser accepts is read as the selector that was
issued, whoever spelt it.  `Spells` relates texts to selectors; the printer, the other
spellings and the parser stay inside it (`OutSpells`, `SpellingsSpell`,
`ParseReadsFilters`), and `OneSelectorPerText` shows, from the last filter backwards, that
a text spells one selector.  What is assumed of `Data` is that it holds IPLD values with
all that is in them.

*Policies* (`PolicyProofs`).  `GlobIsMatching`: the greedy `glob` matches exactly what a
pattern means.  `GlobMatches` reads the meaning off a table of prefixes; `MatchesPlaces`
shows that it asks for some placement of the fragments one after the other, and that
placing each as early as it fits finds one if there is any.
`VerdictsMeant`: `runPredicate` with its early exits never gives a verdict other than the
meaning, and throws only where a comparison throws, for predicates and arguments of any
depth.  A verdict is `Fair` to a meaning in just that sense.  `ComparisonIsMeant` has the
comparisons, from `CompareIs` (`numberCompare` orders numbers of two representations as
the line from -Infinity to Infinity does), `EqualIsSame` (`ipldEquals` is equality by
value) and `GlobIsMatching`; `FirstIsFair` shows that stopping at the first part that
decides is fair when each part is; `AllJudged` adds them up over `Size`.  Here the
meaning is the invariant: `JudgingInv` says that the verdict is that of the predicate.
The theorem has one hypothesis, `SafeWithin`: no list or map holds a whole float beyond
2^53-1.  It is what run `deep_equality` shows to be needed, and run `policy` has TLC
evaluate it on its own data (`ListsAreSafe`).  The verdict of `Policy` is set by the one
step `Run` of `Judging`, and is not touched after it.

*Induction.*  The library's induction theorems take a predicate as a parameter, which
the provers cannot instantiate.  Here the predicate is a set of numbers:
`LeastNumber` and `SetInduction`, from the well-foundedness of `<`, serve for what
recursive functions over sequences compute, and `RankInduction` for trees.  That a
function that recurses over trees exists, without which its definition says nothing, is
`Recursion`: a body that depends on lower arguments only has a function that follows it.
`RunUnfolds`, `JudgeUnfolds`, `ThrowUnfolds`, `EqualUnfolds`, `SameUnfolds` and
`BodiesUnfold` are the cases of it, from which the definitions may be unfolded in a proof.

*Tokens* (`TokenProofs`).  `VerifiedWasSigned`: a token that `verifySignature`
accepts is the one canonical encoding of what its issuer signed, and the decoder
dropped no field of it.  The invariant is that tokens in memory come from the wire
through `Decode` (`TokenInv`), and that only issuers make their signatures
(`SignatureInv`); the lemma behind it is that decoding what re-encodes to the same
bytes loses nothing (`DecodedEncodes`).  `ConformingIsAccepted` and `OwnIsAccepted` are
the converse: what should be accepted is, exactly if it is `Lossless`, that is, without
map operands and `__proto__`.  `LosslessRead` says that reading leaves such fields as they
are, and `LostIsRefused` that what loses something is not written as it was again.  They rest on `RoundTrip` (fields that
conform are read and written again as they were) and `CompleteConforms` (what an
encoder writes of a builder's fields conforms and is read as it was), and on an
invariant that ties what is signed and sent to the builder's fields (`SignedInv`,
`WireInv`).  `OwnIsAccepted` assumes `SettersTyped`: setters are called with what the
decoder takes for their fields.  Run `tokens` satisfies that; run `tokens_postel` calls
one setter with something else, and there the property fails.

*Policies on the wire* (`PolicyProofs`, with `IpldProofs`).  `AcceptedIsTheIssued`: a
policy that the decoder accepts is the one that was issued, whoever wrote it, and
`PolicyArrives`: of what this library writes, just the policies with a non-empty map in an
operand are refused.  The second has the hypothesis
`SelectorsReadable`, that the decoder reads the selectors in the policies; run
`selector_wire` shows that it is needed, and run `policy` has TLC evaluate it
(`SelectorsAreReadable`).  `ParseReads` says how much it asks: printer and parser of
selectors are inverse to each other but for selectors that begin with an optional dot
field.  The conversions are folds over trees in no given set, so it has to be shown first
that a fold is what its node makes of the folds of the parts: `FoldUnfolds` of
`IpldProofs`, for any node function that looks at nothing else, by induction over the
height of a tree (`Low`), of which each conversion is an instance.  Then predicates are
read as they were written but for the maps in operands (`ReadBack`, which gives `Decoded`,
by induction over `Size`); `Decoded` is `Normal` where all operands are `Flat`, and encodes to
other bytes where one is not; what is received and
written again gives the same bytes (`WrittenAgain` for values, `WrittenAlike` for
predicates), and each way another implementation has of writing a policy is refused or
read as the same (`RewritingsRead`).  The invariant, `JourneyInv`, says which of these the
bytes under way can be.  `PolicyAssumption` adds to what is assumed of `Data` and
`Predicate` that they hold what receivers make of their elements.

`VerdictArrives`: the verdict of `check` on what was built is that of `verifyInvocation`
on what arrived, for policies and arguments of any depth, with no hypothesis.  What the
wire does to a value is little (`ArrivedIs`): bigints in the safe range become numbers, and
the keys of a map are sorted.  `ArriveAlike` shows that `ipldEquals` cannot tell, and
`ComparisonArrives` that a comparison which reaches a verdict reaches it on what arrives,
though one that threw need not throw any more.  A selector picks from what arrives what
arrives for its pick (`MeaningArrives`, over the ways of before), if keys were in order or
it takes no map for a list (`Bare`).  Parts in the same places keep a verdict as it is, parts
in other places keep it or make it an error (`ManyKept`, `ManyKeptLoosely`), which is why
the property has just these two exceptions; `AllSurvive` adds them up over `Size`.
`CrossingInv` ties the two verdicts to the two runs.

*Parcels and promises* (`ContainerProofs`, with `IpldProofs`).  `ParcelIsCarried`: every
step of a parcel is a step of `Container` or none of its business, so what is proved of
containers holds of parcels.  `ArgumentGetsThere`, `ReadAsWritten` and `ResolvesAsItShould`
are about the argument, of any depth, and of any kind where a tag tells the kind.  The
conversions of `promise.ts` are folds, seven of them with DAG-CBOR and the receiver's view
(`AsHeld`), of which `FoldUnfolds` gives the cases (`WriteIs`, `ReadIs`, `PlainIs`, …).  By
induction over the depth of a value follow: what is written is data and a tree (`Written`),
what is written is read as it was, as its receiver holds it (`ReadBack`), what is read was
written by the same library (`WrittenBack`, for a form that DAG-CBOR leaves as it is, as it
does anything it made itself: `ReceivedAgain`), a value resolves or throws what waits in it
(`ResolvesOrWaits`), and data that is promoted, held and resolved is the data received
(`DataPromised`).  `OutcomeReadBack` and `OutcomeWrittenBack` add the tag of an outcome.  The
invariant, `LetterInv`, says that every invocation holds what DAG-CBOR makes of data, the
sender's own what was sent, and at each stage what the one before it left; that a parcel
which was not sorted out (`"missing"`) had tokens that `SortOut` refuses.  `MadeUnpacks`
then says which tokens those are.  It rests on containers holding arrays, also those that
others send and those that a Buffer is rewritten to; `CInv` carries that to what is
unpacked.
What is assumed, beyond `Depth`: arguments are outcomes or data of their types, others
write any data that DAG-CBOR encodes, and DAG-CBOR lists the one key of a tagged value as
that key.  The last is a fact of `KeyOrder` having every tag; the prover cannot open
`SelectSeq`, by which `Sorted` is defined, so `ArgumentsAssumption` states it and TLC
evaluates it.

*Model-checked only.*  Liveness (`EveryRequestAnswered`), which is beyond the prover, as is
ENABLED.  Every other property of the passing runs is stated by a theorem.

## 5. Findings

Three runs end in a violation of something the repository says of itself;
`PROJECT.json` quotes it.

1. `selector_wire`: a selector that begins with an optional field prints as
   `..a?`, which its own parser refuses: a delegation built, signed and encoded by
   the library does not decode.
2. `tokens_postel`: the builders take an expiration from `Timestamp.postelUnix`
   beyond 2^53-1, sign and encode it, and the decoder refuses it.
3. `deep_equality`: a number and a bigint of equal integer value beyond the safe
   range are equal by themselves and different inside a list or record.

Met while modelling, and not runs of their own:

- A policy that compares, with `==` or `!=`, with a non-empty map, or with a list that
  holds one, is built and signed, and its delegation is refused as not canonically encoded
  by this library's own decoder: `ipldToPredicate` empties the map
  (`predicate.ts:301`, `ipld.ts:178-193`).  So is a conforming delegation of another
  implementation.  `ArrivesAsIssued`, `OwnTokenArrives` and `ConformingAccepted` state
  exactly which tokens are refused for it.
- A revocation with an expiration that the decoder does not take passes `insert`, and
  every later `lookup` of its target throws.  Calls are then
  rejected with a bare error (500 in the REST service, whose comment has every
  authorization failure as 403), never let through: `EvidenceRejectionsDeserved` and
  `RefusedForCause` name this cause.
- A request whose target is no URL, such as `//`, is answered with 500 and not 404.
- A container whose map has a second key `__proto__` is accepted, since the object that
  is counted has lost it; an argument or metadata key of that name makes a token that is
  refused, as a test of the repository expects.

- A leeway near 2^53-1 makes `verifyInvocation` reject with a bare `OutOfRangeError`
  (`outOfRange` in `Chain`), which is none of the structured failures of its doc.
- `containerFromBytes` of a Buffer in format `@M` lets zlib read memory that the
  caller may reuse before the promise settles: `UnpackedAsOfTheCall` is stated for
  all but that case (`Exposed`).
- `Timestamp.toDate` lets through seconds up to 2^53/1000, while a `Date` ends at
  8.64e15 milliseconds; between the two it returns an Invalid Date.
- DAG-CBOR sorts the keys of a map, so that at the receiver `any` and `all` may meet an
  operand in error before the one that decides, and a verdict at the sender become an
  error at the receiver.  A selector may also take the values of a map for a list and
  pick one by its position; then even the verdict may be the other one: for arguments
  whose keys were set in the order b, a, the policy `not (.[][0] == 1)` may hold where it
  was checked as built and fail where it arrived.  `VerdictSurvivesTheWire` allows the
  first where the keys of a map are out of order (`OutOfOrder`), and the second only if
  the predicate takes a map for a list, too (`Enlists`).

## 6. What is not modelled

- *Bytes below the level of a token.*  base58 and varints of DIDs (`did.ts`; a DID is a
  model value), the byte layout of DAG-CBOR and of varsig headers, UTF-8.  base64 and
  gzip are layers that only their inverse undoes (`Container`).  DAG-JSON, which no
  path from a signed token to a verdict goes through.
- *Cryptography.*  Signatures and hashes are ideal.  ECDSA and WebCrypto of varsig,
  which no token of the library uses.
- *Nonces.*  `Generated` in `Tokens` stands for random bytes, taken to differ.
- *Operations that the library offers and never calls:* `compare`, `isRelated` and
  `filterIsIn` of selectors, `Timestamp.toDate` and the codecs of errors.  No verdict
  and no token depends on them.  `Timestamp.now` goes through a `Date` inside its
  range; `Chain` takes the seconds it gives.
- *Time without bound on an await.*  A store whose promise never settles holds its call
  for ever; the code has no timeout, so there is nothing to state but that.
- Logging, wording of errors, and what other code in the process could do to the
  prototypes of the language.  `sealed.ts` and the index files hold types and exports.

## 7. Plan

Done: the chain check; `verifyInvocation` with its stores and its refinement of the
gate; the semantic checks; selectors and policies, on both sides of the wire; tokens and
builders; promises and containers; the REST service on top of the calls; proofs of each
of these.

Left to prove: nothing that a run checks but liveness.

Left to model: `compare` of selectors, once something in the library relies on it, and the
other algorithms of varsig, once tokens carry them.
