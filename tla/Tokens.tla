------------------------------- MODULE Tokens -------------------------------
(***************************************************************************)
(* Delegations and invocations as tokens: the fields of their payloads     *)
(* (delegation/index.ts, invocation/index.ts), the varsig header, and the  *)
(* envelope that carries the signature (envelope/index.ts).                *)
(*                                                                         *)
(* Fields go by their names on the wire.  Their values are opaque: a DID   *)
(* stands for its text, a policy for its list of predicates, and so on;    *)
(* a value of another type is one that the field does not take.  Two kinds *)
(* of values do not come back as they went: DAG-CBOR is written with the   *)
(* keys __proto__ of maps and read without them, and the decoder of        *)
(* policies takes every map that it compares with for an empty one (see    *)
(* PredicateCodec).                                                        *)
(***************************************************************************)
EXTENDS Integers, Sequences

CONSTANTS
  Did, Command, Policy, Proofs, Cid, Nonce,
  Map, EmptyMap,   \* arguments and metadata
  MapOperands,     \* the policies that compare with a map that has something in it
  Emptied,         \* every policy with the maps it compares with emptied
  ProtoMaps,       \* the maps with a key __proto__, at any depth
  Stripped,        \* every map without such keys
  Null,
  MaxSafe          \* 2^53 - 1

ASSUME TokensAssumption ==
  EmptyMap \in Map /\ MaxSafe \in Nat /\ Null \notin Nat \cup Cid

ASSUME LossAssumption ==
  /\ MapOperands \subseteq Policy /\ Emptied \in [Policy -> Policy \ MapOperands]
  /\ \A p \in Policy \ MapOperands : Emptied[p] = p
  /\ ProtoMaps \subseteq Map \ {EmptyMap} /\ Stripped \in [Map -> Map \ ProtoMaps]
  /\ \A m \in Map \ ProtoMaps : Stripped[m] = m

Kind == {"dlg", "inv"}

Required(kind) ==
  IF kind = "dlg" THEN {"iss", "aud", "sub", "cmd", "pol", "exp", "nonce"}
  ELSE {"iss", "sub", "cmd", "args", "prf", "exp", "nonce"}

Optional(kind) == IF kind = "dlg" THEN {"meta", "nbf"} ELSE {"aud", "cause", "iat", "meta"}

Field(kind) == Required(kind) \cup Optional(kind)

\* What the decoder takes for a field.
Takes(kind, k) ==
  CASE k \in {"iss", "aud"}  -> Did
    [] k = "sub"             -> IF kind = "dlg" THEN Did \cup {Null} ELSE Did
    [] k = "cmd"             -> Command
    [] k = "pol"             -> Policy
    [] k \in {"args", "meta"} -> Map
    [] k = "prf"             -> Proofs
    [] k = "cause"           -> Cid
    [] k = "exp"             -> 0..MaxSafe \cup {Null}
    [] k \in {"nbf", "iat"}  -> 0..MaxSafe
    [] k = "nonce"           -> Nonce

\* The required fields are there, and every known field has its type.
WellTyped(kind, fields) ==
  /\ Required(kind) \subseteq DOMAIN fields
  /\ \A k \in DOMAIN fields \cap Field(kind) : fields[k] \in Takes(kind, k)

Default(fields, k) ==
  CASE k = "meta" -> EmptyMap [] k = "aud" -> fields["sub"] [] OTHER -> Null

\* A payload has all the fields; metaPresent is FALSE in one from a builder.
PayloadOf(kind, fields, metaPresent) ==
  [k \in Field(kind) \cup {"metaPresent"} |->
     IF k = "metaPresent" THEN metaPresent
     ELSE IF k \in DOMAIN fields THEN fields[k] ELSE Default(fields, k)]

----------------------------------------------------------------------------
(* The payload codecs; a decoder answers <<>> when it throws               *)

\* A slip: meta goes by its size alone.
OmitEmptyMeta(p) ==
  [k \in Field("dlg") \ {o \in {"meta", "nbf"} : p[o] \in {EmptyMap, Null}} |-> p[k]]

DelegationPayloadToIpld(p) ==
  LET omitted == {k \in {"meta"} : p[k] = EmptyMap /\ ~p["metaPresent"]}
                 \cup {k \in {"nbf"} : p[k] = Null}
  IN  [k \in Field("dlg") \ omitted |-> p[k]]

IpldToDelegationPayload(fields) ==
  IF WellTyped("dlg", fields) /\ DOMAIN fields \subseteq Field("dlg")
  THEN <<PayloadOf("dlg", fields, "meta" \in DOMAIN fields)>> ELSE <<>>

\* A slip: the audience is always written.
KeepAudience(p) ==
  [k \in Field("inv") \ {o \in {"cause", "iat", "meta"} : p[o] \in {EmptyMap, Null}} |-> p[k]]

InvocationPayloadToIpld(p) ==
  LET omitted == {k \in {"cause", "iat"} : p[k] = Null}
                 \cup {k \in {"meta"} : p[k] = EmptyMap}
                 \cup {k \in {"aud"} : p[k] = p["sub"]}
  IN  [k \in Field("inv") \ omitted |-> p[k]]

IpldToInvocationPayload(fields) ==
  IF WellTyped("inv", fields) /\ ("aud" \in DOMAIN fields => fields["aud"] # fields["sub"])
  THEN <<PayloadOf("inv", fields, FALSE)>> ELSE <<>>

PayloadToIpld(kind, p) ==
  IF kind = "dlg" THEN DelegationPayloadToIpld(p) ELSE InvocationPayloadToIpld(p)

\* The fields as ipldFromDagCbor and ipldToPredicate read them.
ReadFields(fields) ==
  [k \in DOMAIN fields |->
     CASE k = "pol" /\ fields[k] \in Policy            -> Emptied[fields[k]]
       [] k \in {"args", "meta"} /\ fields[k] \in Map -> Stripped[fields[k]]
       [] OTHER                                       -> fields[k]]

IpldToPayload(kind, fields) ==
  IF kind = "dlg" THEN IpldToDelegationPayload(ReadFields(fields))
  ELSE IpldToInvocationPayload(ReadFields(fields))

----------------------------------------------------------------------------
(* The varsig header, as the integers it is made of                        *)

DagCbor == 113
DagJson == 297
EncodeHeader(codec) == <<52, 1, 237, 237, 19, codec>>

\* Varsig.decode with ed25519TryFromTags; <<>> or <<the codec>>.
DecodeHeader(h) ==
  IF \E codec \in {DagCbor, DagJson} : h = EncodeHeader(codec) THEN <<h[6]>> ELSE <<>>

----------------------------------------------------------------------------
(* Envelopes                                                               *)

Tag(kind) == IF kind = "dlg" THEN "ucan/dlg@1.0.0" ELSE "ucan/inv@1.0.0"

\* What gets signed.
SigPayload(kind, h, fields) ==
  [k \in {"h", Tag(kind)} |-> IF k = "h" THEN h ELSE fields]

\* An Ed25519 signature, and bytes of another length.
Signature(by, over) == [by |-> by, over |-> over]
NotASignature == Signature(Null, Null)

\* A token on the wire: an array of items, of which two are read, and
\* whether its bytes are the canonical encoding of that.
Wire(items, signature, map, canonical) ==
  [items |-> items, signature |-> signature, map |-> map, canonical |-> canonical]

\* A token in memory: its kind, signature, codec and payload.
Token(kind, signature, codec, p) ==
  [kind |-> kind, signature |-> signature, codec |-> codec, payload |-> p]

SigPayloadOf(t) == SigPayload(t.kind, EncodeHeader(t.codec), PayloadToIpld(t.kind, t.payload))

\* encode.
Encode(t) == Wire(2, t.signature, SigPayloadOf(t), TRUE)

\* envelopeFromIpld.
EnvelopeFromIpld(kind, w) ==
  IF w.items # 2 \/ DOMAIN w.map # {"h", Tag(kind)} \/ w.signature = NotASignature THEN <<>>
  ELSE LET codec == DecodeHeader(w.map["h"])
           p == IpldToPayload(kind, w.map[Tag(kind)])
       IN  IF codec = <<>> \/ p = <<>> THEN <<>> ELSE <<Token(kind, w.signature, codec[1], p[1])>>

\* A slip: what was read is not encoded again.
DecodeLoosely(kind, w) == EnvelopeFromIpld(kind, w)

\* Delegation.decode and Invocation.decode.
Decode(kind, w) ==
  LET t == EnvelopeFromIpld(kind, w)
  IN  IF t # <<>> /\ Encode(t[1]) = w /\ t[1].codec = DagCbor THEN t ELSE <<>>

\* verifySignature returns.
VerifySignature(t) ==
  t.codec = DagCbor /\ t.signature = Signature(t.payload["iss"], SigPayloadOf(t))
=============================================================================
