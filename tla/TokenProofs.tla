---------------------------- MODULE TokenProofs ----------------------------
(* What verifySignature vouches for, and what the decoders accept,          *)
(* whatever the values of the fields.                                       *)
EXTENDS TokenExchange, TLAPS

\* The two tags differ from each other and from the key of the header.
LEMMA TagsDiffer ==
  ASSUME NEW k1 \in Kind, NEW k2 \in Kind
  PROVE  Tag(k1) # "h" /\ (Tag(k1) = Tag(k2) => k1 = k2)
BY DEF Tag, Kind

\* What is signed has two entries, and the payload is the one of its tag.
LEMMA SigPayloadHolds ==
  ASSUME NEW k \in Kind, NEW h, NEW fields
  PROVE  /\ DOMAIN SigPayload(k, h, fields) = {"h", Tag(k)}
         /\ SigPayload(k, h, fields)[Tag(k)] = fields
BY TagsDiffer DEF SigPayload

\* The encoders write fields of the payload only, the issuer among them, and
\* as they are.
LEMMA FieldsWritten ==
  ASSUME NEW k \in Kind, NEW p
  PROVE  /\ DOMAIN PayloadToIpld(k, p) \subseteq Field(k)
         /\ "iss" \in DOMAIN PayloadToIpld(k, p)
         /\ \A f \in DOMAIN PayloadToIpld(k, p) : PayloadToIpld(k, p)[f] = p[f]
<1>1. CASE k = "dlg"
  BY <1>1 DEF PayloadToIpld, DelegationPayloadToIpld, Field, Required, Optional
<1>2. CASE k = "inv"
  BY <1>2 DEF PayloadToIpld, InvocationPayloadToIpld, Field, Required, Optional
<1> QED BY <1>1, <1>2 DEF Kind

\* A token that a decoder accepts is encoded as it was read.
LEMMA DecodedEncodes ==
  ASSUME NEW k \in Kind, NEW w, Decode(k, w) # <<>>
  PROVE  LET t == Decode(k, w)[1]
         IN  /\ Encode(t) = w
             /\ t.kind = k /\ t.codec = DagCbor /\ t.signature = w.signature
             /\ w.signature # NotASignature
<1> DEFINE e == EnvelopeFromIpld(k, w)
<1>1. Decode(k, w) = e /\ e # <<>> /\ Encode(e[1]) = w /\ e[1].codec = DagCbor
  BY DEF Decode
<1>2. /\ w.signature # NotASignature
      /\ \E codec, p : e = <<Token(k, w.signature, codec, p)>>
  BY <1>1 DEF EnvelopeFromIpld
<1>3. e[1].kind = k /\ e[1].signature = w.signature
  BY <1>2 DEF Token
<1> QED BY <1>1, <1>2, <1>3

----------------------------------------------------------------------------
(* The inductive invariant                                                 *)

\* The builder has the fields of its kind.
DraftInv == kind \in Kind /\ DOMAIN draft = Field(kind)

\* What this library signed names its signer as the issuer.
IssuedInv ==
  phase = "signed" \/ origin \in {"own", "altered"} =>
    DOMAIN issued = {"h", Tag(kind)} /\ issued[Tag(kind)]["iss"] = draft["iss"]

\* Signatures cannot be made up: the issuer signs only what it issued, and
\* others may sign that as well, on a token they altered.
SignatureInv ==
  phase \in {"sent", "decoded", "done"} =>
    \/ wire.signature \in {NotASignature, Signature(draft["iss"], issued)}
    \/ origin = "altered" /\ \E d \in Did : wire.signature = Signature(d, issued)

OriginInv ==
  /\ phase \in {"draft", "refused", "signed"} => origin = "none"
  /\ phase \in {"sent", "decoded", "done"} => origin \in {"own", "elsewhere", "altered"}

\* A token in memory was decoded from the wire, and verified if it says so.
TokenInv ==
  /\ token # <<>> => phase \in {"decoded", "done"} /\ \E k \in Kind : token = Decode(k, wire)
  /\ verified => phase = "done" /\ token # <<>> /\ VerifySignature(token[1])

TInv == DraftInv /\ IssuedInv /\ SignatureInv /\ OriginInv /\ TokenInv

\* Nothing is sent or in memory in the beginning.
LEMMA InitTInv == Init => TInv
BY DEF Init, TInv, DraftInv, IssuedInv, SignatureInv, OriginInv, TokenInv, Defaults

\* Sending puts a signature on the wire and leaves the rest alone.
LEMMA SendTInv ==
  ASSUME TInv, NEW w, NEW who, Send(w, who), token = <<>>, ~verified,
         who \in {"own", "elsewhere", "altered"},
         who \in {"own", "altered"} =>
           DOMAIN issued' = {"h", Tag(kind)} /\ issued'[Tag(kind)]["iss"] = draft["iss"],
         \/ w.signature \in {NotASignature, Signature(draft["iss"], issued')}
         \/ who = "altered" /\ \E d \in Did : w.signature = Signature(d, issued')
  PROVE  TInv'
<1>1. wire' = w /\ origin' = who /\ phase' = "sent" /\ UNCHANGED <<kind, draft, token, verified>>
  BY DEF Send
<1>2. DraftInv'
  BY <1>1 DEF TInv, DraftInv
<1>3. IssuedInv' /\ OriginInv' /\ TokenInv'
  BY <1>1 DEF IssuedInv, OriginInv, TokenInv
<1>4. SignatureInv'
  BY <1>1 DEF SignatureInv
<1> QED BY <1>2, <1>3, <1>4 DEF TInv

\* Nothing is in memory before the token arrives.
LEMMA NothingYet ==
  ASSUME TInv, phase \notin {"decoded", "done"}
  PROVE  token = <<>> /\ ~verified
BY DEF TInv, TokenInv

\* Each step of builder, wire and receiver keeps TInv.
LEMMA NextTInv == TInv /\ [Next]_vars => TInv'
<1> SUFFICES ASSUME TInv, [Next]_vars PROVE TInv'
  OBVIOUS
<1>1. ASSUME NEW k \in DOMAIN Offer, NEW v \in Offer[k], Set(k, v) PROVE TInv'
  <2>1. DOMAIN draft' = DOMAIN draft /\ phase = "draft"
        /\ UNCHANGED <<kind, issued, wire, origin, token, verified, phase>>
    BY <1>1 DEF Set
  <2> QED BY <2>1 DEF TInv, DraftInv, IssuedInv, SignatureInv, OriginInv, TokenInv
<1>2. ASSUME TryBuild PROVE TInv'
  <2> DEFINE p == PayloadOf(kind, Draft, FALSE)
  <2>1. phase = "draft" /\ UNCHANGED <<kind, draft, wire, origin, token, verified>>
    BY <1>2 DEF TryBuild
  <2>2. \/ phase' = "refused" /\ UNCHANGED issued
        \/ phase' = "signed" /\ issued' = SigPayload(kind, EncodeHeader(DagCbor), PayloadToIpld(kind, p))
    BY <1>2 DEF TryBuild
  <2>3. kind \in Kind /\ "iss" \in Field(kind) /\ "iss" \in DOMAIN draft
    BY DEF TInv, DraftInv, Field, Required, Kind
  <2>4. "iss" \in DOMAIN Draft /\ Draft["iss"] = draft["iss"]
    BY <2>3 DEF Draft
  <2>5. p["iss"] = draft["iss"]
    BY <2>3, <2>4 DEF PayloadOf
  <2>6. IssuedInv'
    <3> HIDE DEF p
    <3>1. CASE phase' = "refused"
      BY <3>1, <2>1 DEF IssuedInv, TInv, OriginInv
    <3>2. CASE phase' = "signed"
      <4>1. issued' = SigPayload(kind, EncodeHeader(DagCbor), PayloadToIpld(kind, p))
        BY <2>2, <3>2
      <4>2. DOMAIN issued' = {"h", Tag(kind)} /\ issued'[Tag(kind)] = PayloadToIpld(kind, p)
        BY <4>1, <2>3, SigPayloadHolds
      <4>3. issued'[Tag(kind)]["iss"] = draft["iss"]
        BY <4>2, <2>3, <2>5, FieldsWritten
      <4> QED BY <4>2, <4>3, <2>1 DEF IssuedInv
    <3> QED BY <3>1, <3>2, <2>2
  <2> QED BY <2>1, <2>2, <2>6 DEF TInv, DraftInv, SignatureInv, OriginInv, TokenInv
<1>3. ASSUME EncodeOwn PROVE TInv'
  <2> DEFINE t == Token(kind, Signature(draft["iss"], issued), DagCbor, PayloadOf(kind, Draft, FALSE))
  <2>1. phase = "signed" /\ Send(Encode(t), "own") /\ issued' = issued
    BY <1>3 DEF EncodeOwn
  <2>2. Encode(t).signature = Signature(draft["iss"], issued)
    BY DEF Encode, Wire, Token
  <2>3. DOMAIN issued = {"h", Tag(kind)} /\ issued[Tag(kind)]["iss"] = draft["iss"]
    BY <2>1 DEF TInv, IssuedInv
  <2> HIDE DEF t
  <2> QED BY <2>1, <2>2, <2>3, NothingYet, SendTInv
<1>4. ASSUME EncodeElsewhere PROVE TInv'
  <2>1. phase = "signed"
    BY <1>4 DEF EncodeElsewhere
  <2>2. PICK m, canonical : issued' = m /\ Send(Wire(2, Signature(draft["iss"], m), m, canonical), "elsewhere")
    BY <1>4 DEF EncodeElsewhere
  <2> DEFINE w == Wire(2, Signature(draft["iss"], m), m, canonical)
  <2>3. w.signature = Signature(draft["iss"], issued') /\ Send(w, "elsewhere")
    BY <2>2 DEF Wire
  <2> HIDE DEF w
  <2> QED BY <2>1, <2>3, NothingYet, SendTInv
<1>5. ASSUME Alter PROVE TInv'
  <2>1. phase = "sent" /\ origin = "own" /\ issued' = issued
    BY <1>5 DEF Alter
  <2>2. PICK m, items, canonical, signature :
          /\ signature \in {wire.signature, NotASignature}
                           \cup {Signature(d, issued) : d \in Did \ {draft["iss"]}}
          /\ Send(Wire(items, signature, m, canonical), "altered")
    BY <1>5 DEF Alter
  <2> DEFINE w == Wire(items, signature, m, canonical)
  <2>3. w.signature = signature /\ Send(w, "altered")
    BY <2>2 DEF Wire
  <2>4. DOMAIN issued = {"h", Tag(kind)} /\ issued[Tag(kind)]["iss"] = draft["iss"]
    BY <2>1 DEF TInv, IssuedInv
  <2>5. wire.signature \in {NotASignature, Signature(draft["iss"], issued)}
    BY <2>1 DEF TInv, SignatureInv
  <2>6. \/ w.signature \in {NotASignature, Signature(draft["iss"], issued')}
        \/ \E d \in Did : w.signature = Signature(d, issued')
    BY <2>1, <2>2, <2>3, <2>5
  <2> HIDE DEF w
  <2> QED BY <2>1, <2>3, <2>4, <2>6, NothingYet, SendTInv
<1>6. ASSUME Receive PROVE TInv'
  <2>1. /\ phase = "sent" /\ phase' = "decoded"
        /\ UNCHANGED <<kind, draft, issued, wire, origin, verified>>
        /\ \E expected \in Kind : token' = Decode(expected, wire)
    BY <1>6 DEF Receive
  <2>2. ~verified
    BY <2>1, NothingYet
  <2>3. DraftInv' /\ IssuedInv' /\ SignatureInv' /\ OriginInv'
    BY <2>1 DEF TInv, DraftInv, IssuedInv, SignatureInv, OriginInv
  <2>4. TokenInv'
    BY <2>1, <2>2 DEF TokenInv
  <2> QED BY <2>3, <2>4 DEF TInv
<1>7. ASSUME Verify PROVE TInv'
  <2>1. /\ phase = "decoded" /\ phase' = "done" /\ token # <<>>
        /\ verified' = VerifySignature(token[1])
        /\ UNCHANGED <<kind, draft, issued, wire, origin, token>>
    BY <1>7 DEF Verify
  <2>2. DraftInv' /\ IssuedInv' /\ SignatureInv' /\ OriginInv'
    BY <2>1 DEF TInv, DraftInv, IssuedInv, SignatureInv, OriginInv
  <2>3. TokenInv'
    BY <2>1 DEF TInv, TokenInv
  <2> QED BY <2>2, <2>3 DEF TInv
<1>8. CASE UNCHANGED vars
  BY <1>8 DEF vars, TInv, DraftInv, IssuedInv, SignatureInv, OriginInv, TokenInv
<1> QED BY <1>1, <1>2, <1>3, <1>4, <1>5, <1>6, <1>7, <1>8 DEF Next

\* The invariant makes every verified token the encoding of what was signed:
\* a signature of the issuer is over what it issued, and one of anybody else
\* is over a payload that names another issuer.
LEMMA TInvVerified == TInv => VerifiedAsSigned
<1> SUFFICES ASSUME TInv, verified
             PROVE  LET t == token[1]
                        said == issued[Tag(t.kind)]
                    IN  /\ wire = Wire(2, Signature(draft["iss"], issued), issued, TRUE)
                        /\ t.payload["iss"] = draft["iss"]
                        /\ \A k \in DOMAIN said : k \in Field(t.kind) /\ t.payload[k] = said[k]
  BY DEF VerifiedAsSigned
<1> DEFINE t == token[1]
<1>1. phase = "done" /\ token # <<>> /\ VerifySignature(t)
  BY DEF TInv, TokenInv
<1>2. PICK k \in Kind : token = Decode(k, wire)
  BY <1>1 DEF TInv, TokenInv
<1>3. /\ Encode(t) = wire /\ t.kind = k /\ t.codec = DagCbor
      /\ t.signature = wire.signature /\ wire.signature # NotASignature
  BY <1>1, <1>2, DecodedEncodes
<1>4. wire.signature = Signature(t.payload["iss"], SigPayloadOf(t))
  BY <1>1, <1>3 DEF VerifySignature
<1>5. wire = Wire(2, wire.signature, SigPayloadOf(t), TRUE)
  BY <1>3 DEF Encode
<1> HIDE DEF t
<1>6. /\ DOMAIN SigPayloadOf(t) = {"h", Tag(k)}
      /\ SigPayloadOf(t)[Tag(k)] = PayloadToIpld(k, t.payload)
  <2>1. SigPayloadOf(t) = SigPayload(k, EncodeHeader(t.codec), PayloadToIpld(k, t.payload))
    BY <1>3 DEF SigPayloadOf
  <2> QED BY ONLY <2>1, SigPayloadHolds, k \in Kind
<1>7. \A by1, by2, o1, o2 : Signature(by1, o1) = Signature(by2, o2) => by1 = by2 /\ o1 = o2
  BY DEF Signature
<1>8. PICK d : wire.signature = Signature(d, issued) /\ (d = draft["iss"] \/ origin = "altered")
  BY <1>1, <1>3 DEF TInv, SignatureInv
<1>9. issued = SigPayloadOf(t) /\ t.payload["iss"] = d
  BY <1>4, <1>7, <1>8
<1>10. d = draft["iss"]
  <2>1. CASE origin = "altered"
    <3>1. DOMAIN issued = {"h", Tag(kind)} /\ issued[Tag(kind)]["iss"] = draft["iss"] /\ kind \in Kind
      BY <2>1 DEF TInv, IssuedInv, DraftInv
    <3>2. Tag(kind) = Tag(k)
      BY <3>1, <1>6, <1>9, TagsDiffer
    <3>3. issued[Tag(kind)] = PayloadToIpld(k, t.payload)
      BY <3>2, <1>6, <1>9
    <3> QED BY <3>1, <3>3, <1>9, FieldsWritten
  <2> QED BY <2>1, <1>8
<1>11. \A f \in DOMAIN issued[Tag(k)] : f \in Field(k) /\ t.payload[f] = issued[Tag(k)][f]
  BY <1>6, <1>9, FieldsWritten
<1> QED BY <1>3, <1>5, <1>8, <1>9, <1>10, <1>11 DEF t

----------------------------------------------------------------------------

\* Whatever fields there are and whatever is offered, altered or signed
\* elsewhere: a token that verifySignature accepts is, byte for byte, what its
\* issuer signed, and the receiver reads every field of it.
THEOREM VerifiedWasSigned == Spec => []VerifiedAsSigned
<1>1. TInv /\ [Next]_vars => TInv'
  BY NextTInv
<1>2. Spec => []TInv
  BY InitTInv, <1>1, PTL DEF Spec
<1> QED BY <1>2, TInvVerified, PTL

----------------------------------------------------------------------------
(* Tokens that conform are accepted, those of this library among them      *)

\* A function, of whatever domain.
IsFunction(f) == f = [x \in DOMAIN f |-> f[x]]

\* The fields of a payload as the specification has them.
ConformingFields(k, fields) ==
  /\ IsFunction(fields)
  /\ Required(k) \subseteq DOMAIN fields /\ DOMAIN fields \subseteq Field(k)
  /\ \A f \in DOMAIN fields : fields[f] \in Takes(k, f)
  /\ k = "inv" /\ "aud" \in DOMAIN fields => fields["aud"] # fields["sub"]
  /\ k = "inv" /\ "meta" \in DOMAIN fields => fields["meta"] # EmptyMap

\* Fields of which nothing is lost are read as they are.
LEMMA LosslessRead ==
  ASSUME NEW fields, IsFunction(fields), Lossless(fields)
  PROVE  ReadFields(fields) = fields
<1>1. ASSUME NEW f \in DOMAIN fields  PROVE ReadFields(fields)[f] = fields[f]
  <2>1. CASE f = "pol" /\ fields[f] \in Policy
    <3>1. fields[f] \in Policy \ MapOperands  BY <2>1 DEF Lossless
    <3>2. ReadFields(fields)[f] = Emptied[fields[f]]  BY <2>1 DEF ReadFields
    <3> QED  BY <3>1, <3>2, LossAssumption
  <2>2. CASE f \in {"args", "meta"} /\ fields[f] \in Map
    <3>1. fields[f] \in Map \ ProtoMaps  BY <2>2 DEF Lossless
    <3>2. ReadFields(fields)[f] = Stripped[fields[f]]  BY <2>2 DEF ReadFields
    <3> QED  BY <3>1, <3>2, LossAssumption
  <2>3. CASE ~(f = "pol" /\ fields[f] \in Policy) /\ ~(f \in {"args", "meta"} /\ fields[f] \in Map)
    BY <2>3 DEF ReadFields
  <2> QED  BY <2>1, <2>2, <2>3
<1>2. \E g : ReadFields(fields) = [f \in DOMAIN fields |-> g[f]]
  <2> DEFINE r == ReadFields(fields)
  <2>1. r = [f \in DOMAIN fields |-> r[f]]  BY DEF ReadFields
  <2> HIDE DEF r
  <2> QED  BY <2>1 DEF r
<1>3. PICK g : ReadFields(fields) = [f \in DOMAIN fields |-> g[f]]  BY <1>2
<1>4. \A f \in DOMAIN fields : g[f] = fields[f]  BY <1>1, <1>3
<1> QED  BY <1>3, <1>4 DEF IsFunction

\* A token is not accepted when something of it is lost in reading: what was
\* read is without it, and is not written again as it was.
LEMMA LostIsRefused ==
  ASSUME NEW k \in Kind, NEW w, Decode(k, w) # <<>>
  PROVE  Lossless(w.map[Tag(k)])
<1> DEFINE t == Decode(k, w)[1]
           fields == w.map[Tag(k)]
           read == ReadFields(fields)
<1>1. Encode(t) = w /\ t.kind = k  BY DecodedEncodes
<1>2. \E present : t.payload = PayloadOf(k, read, present)
  <2>1. Decode(k, w) = EnvelopeFromIpld(k, w)  BY DEF Decode
  <2> HIDE DEF read
  <2>2. IpldToPayload(k, fields) # <<>> /\ t.payload = IpldToPayload(k, fields)[1]
    BY <2>1 DEF EnvelopeFromIpld, Token
  <2>3. k = "dlg" \/ k = "inv"  BY DEF Kind
  <2> HIDE DEF t, fields
  <2> DEFINE p1 == PayloadOf(k, read, "meta" \in DOMAIN read)
             p2 == PayloadOf(k, read, FALSE)
  <2>4. IpldToPayload(k, fields) \in {<<>>, <<p1>>, <<p2>>}
    BY <2>3 DEF IpldToPayload, IpldToDelegationPayload, IpldToInvocationPayload, read
  <2>5. t.payload \in {p1, p2}
    <3> HIDE DEF p1, p2
    <3> QED  BY <2>2, <2>4
  <2> QED  BY <2>5
<1>3. fields = PayloadToIpld(k, t.payload)
  <2> HIDE DEF t
  <2> DEFINE h == EncodeHeader(t.codec)
             said == PayloadToIpld(k, t.payload)
  <2>1. w.map = SigPayload(k, h, said)
    BY <1>1 DEF Encode, Wire, SigPayloadOf
  <2> HIDE DEF h, said
  <2>2. SigPayload(k, h, said)[Tag(k)] = said  BY SigPayloadHolds
  <2> QED  BY <2>1, <2>2 DEF said
<1> HIDE DEF t, fields, read
<1>4. ASSUME NEW f \in DOMAIN fields  PROVE fields[f] = read[f]
  <2>1. f \in Field(k) /\ fields[f] = t.payload[f]  BY <1>3, FieldsWritten
  <2>2. PICK present : t.payload = PayloadOf(k, read, present)  BY <1>2
  <2>3. DOMAIN read = DOMAIN fields  BY DEF read, ReadFields
  <2>4. f # "metaPresent"  BY <2>1 DEF Field, Required, Optional, Kind
  <2> QED  BY <2>1, <2>2, <2>3, <2>4 DEF PayloadOf
<1>5. ASSUME "pol" \in DOMAIN fields, fields["pol"] \in MapOperands  PROVE FALSE
  <2>1. fields["pol"] \in Policy  BY <1>5, LossAssumption
  <2>2. read["pol"] = Emptied[fields["pol"]]  BY <1>5, <2>1 DEF read, ReadFields
  <2> QED  BY <1>4, <1>5, <2>1, <2>2, LossAssumption
<1>6. ASSUME NEW f \in {"args", "meta"} \cap DOMAIN fields, fields[f] \in ProtoMaps  PROVE FALSE
  <2>1. fields[f] \in Map  BY <1>6, LossAssumption
  <2>2. read[f] = Stripped[fields[f]]  BY <2>1 DEF read, ReadFields
  <2> QED  BY <1>4, <1>6, <2>1, <2>2, LossAssumption
<1> QED  BY <1>5, <1>6 DEF Lossless, fields

\* Fields that conform and are read as they are, are written again as they were:
\* what each encoder leaves out is what the decoder's defaults put back.
LEMMA RoundTrip ==
  ASSUME NEW k \in Kind, NEW fields, ConformingFields(k, fields), Lossless(fields)
  PROVE  LET p == PayloadOf(k, fields, k = "dlg" /\ "meta" \in DOMAIN fields)
         IN  IpldToPayload(k, fields) = <<p>> /\ PayloadToIpld(k, p) = fields
<1> DEFINE p == PayloadOf(k, fields, k = "dlg" /\ "meta" \in DOMAIN fields)
<1>1. WellTyped(k, fields) /\ DOMAIN fields \subseteq Field(k)
  BY DEF ConformingFields, WellTyped
<1>0. ReadFields(fields) = fields
  BY LosslessRead DEF ConformingFields
<1>2. CASE k = "dlg"
  <2> DEFINE pd == PayloadOf("dlg", fields, "meta" \in DOMAIN fields)
  <2>1. p = pd
    BY <1>2
  <2>2. IpldToPayload(k, fields) = <<pd>>
    BY <1>0, <1>1, <1>2 DEF IpldToPayload, IpldToDelegationPayload
  <2>3. /\ \A f \in Field("dlg") : pd[f] = IF f \in DOMAIN fields THEN fields[f] ELSE Default(fields, f)
        /\ pd["metaPresent"] = ("meta" \in DOMAIN fields)
    BY DEF PayloadOf, Field, Required, Optional
  <2>4. "nbf" \in DOMAIN fields => pd["nbf"] # Null
    BY <1>2, <2>3, TokensAssumption DEF ConformingFields, Takes, Field, Optional
  <2>5. "nbf" \notin DOMAIN fields => pd["nbf"] = Null
    BY <2>3 DEF Default, Field, Optional
  <2>6. "meta" \notin DOMAIN fields => pd["meta"] = EmptyMap
    BY <2>3 DEF Default, Field, Optional
  <2> DEFINE omitted == {f \in {"meta"} : pd[f] = EmptyMap /\ ~pd["metaPresent"]}
                        \cup {f \in {"nbf"} : pd[f] = Null}
  <2>7. Field("dlg") \ omitted = DOMAIN fields
    <3>1. \A f : f \in omitted <=> \/ f = "meta" /\ pd["meta"] = EmptyMap /\ ~pd["metaPresent"]
                                   \/ f = "nbf" /\ pd["nbf"] = Null
      BY Zenon
    <3>2. "nbf" \in omitted <=> "nbf" \notin DOMAIN fields
      BY <2>4, <2>5, <3>1
    <3>3. "meta" \in omitted <=> "meta" \notin DOMAIN fields
      BY <2>3, <2>6, <3>1
    <3>4. \A f \in Required("dlg") : f \notin omitted /\ f \in DOMAIN fields
      BY <1>2, <3>1 DEF ConformingFields, Required
    <3>5. DOMAIN fields \subseteq Field("dlg") /\ Field("dlg") = Required("dlg") \cup {"nbf", "meta"}
      BY <1>2 DEF ConformingFields, Field, Optional
    <3> HIDE DEF pd, omitted
    <3> QED  BY <3>2, <3>3, <3>4, <3>5
  <2>8. PayloadToIpld(k, pd) = [f \in Field("dlg") \ omitted |-> pd[f]]
    BY <1>2 DEF PayloadToIpld, DelegationPayloadToIpld
  <2>9. PayloadToIpld(k, pd) = fields
    <3>1. \A f \in DOMAIN fields : pd[f] = fields[f]
      BY <1>1, <1>2, <2>3
    <3> HIDE DEF pd, omitted
    <3> QED  BY <2>7, <2>8, <3>1 DEF ConformingFields, IsFunction
  <2> QED  BY <2>1, <2>2, <2>9
<1>3. CASE k = "inv"
  <2> DEFINE pi == PayloadOf("inv", fields, FALSE)
  <2>1. p = pi
    BY <1>3
  <2>2. IpldToPayload(k, fields) = <<pi>>
    BY <1>0, <1>1, <1>3 DEF IpldToPayload, IpldToInvocationPayload, ConformingFields
  <2>3. \A f \in Field("inv") : pi[f] = IF f \in DOMAIN fields THEN fields[f] ELSE Default(fields, f)
    BY DEF PayloadOf, Field, Required, Optional
  <2>4. \A f \in {"cause", "iat"} : f \in DOMAIN fields <=> pi[f] # Null
    <3>1. \A f \in {"cause", "iat"} : f \in Field("inv") /\ Default(fields, f) = Null
      BY DEF Default, Field, Optional
    <3>2. "cause" \in DOMAIN fields => fields["cause"] # Null
      BY <1>3, TokensAssumption DEF ConformingFields, Takes
    <3>3. "iat" \in DOMAIN fields => fields["iat"] # Null
      BY <1>3, TokensAssumption DEF ConformingFields, Takes
    <3> HIDE DEF pi
    <3> QED  BY <2>3, <3>1, <3>2, <3>3
  <2>5. "meta" \in DOMAIN fields <=> pi["meta"] # EmptyMap
    BY <1>3, <2>3 DEF ConformingFields, Default, Field, Optional
  <2>6. "aud" \in DOMAIN fields <=> pi["aud"] # pi["sub"]
    BY <1>3, <2>3 DEF ConformingFields, Default, Field, Required, Optional
  <2> DEFINE omitted == {f \in {"cause", "iat"} : pi[f] = Null}
                        \cup {f \in {"meta"} : pi[f] = EmptyMap}
                        \cup {f \in {"aud"} : pi[f] = pi["sub"]}
  <2>7. Field("inv") \ omitted = DOMAIN fields
    <3>1. \A f \in Field("inv") : f \in DOMAIN fields <=> f \notin omitted
      <4> HIDE DEF pi
      <4> QED  BY <1>3, <2>4, <2>5, <2>6 DEF ConformingFields, Field, Required, Optional
    <3> HIDE DEF pi, omitted
    <3> QED  BY <1>1, <1>3, <3>1
  <2>8. PayloadToIpld(k, pi) = [f \in Field("inv") \ omitted |-> pi[f]]
    BY <1>3 DEF PayloadToIpld, InvocationPayloadToIpld
  <2>9. PayloadToIpld(k, pi) = fields
    <3>1. \A f \in DOMAIN fields : pi[f] = fields[f]
      BY <1>1, <1>3, <2>3
    <3> HIDE DEF pi, omitted
    <3> QED  BY <2>7, <2>8, <3>1 DEF ConformingFields, IsFunction
  <2> QED  BY <2>1, <2>2, <2>9
<1> QED  BY <1>2, <1>3 DEF Kind

\* A conforming token under this library's header, of which nothing is lost, is
\* decoded to what it says and encoded again as it was.
LEMMA ConformingDecodes ==
  ASSUME NEW k \in Kind, NEW fields, ConformingFields(k, fields), Lossless(fields),
         NEW s, s # NotASignature,
         NEW w, w = Wire(2, s, SigPayload(k, EncodeHeader(DagCbor), fields), TRUE)
  PROVE  \E t : /\ Decode(k, w) = <<t>> /\ SigPayloadOf(t) = w.map
                /\ t = Token(k, s, DagCbor, PayloadOf(k, fields, k = "dlg" /\ "meta" \in DOMAIN fields))
<1> DEFINE p == PayloadOf(k, fields, k = "dlg" /\ "meta" \in DOMAIN fields)
           t == Token(k, s, DagCbor, p)
<1>1. IpldToPayload(k, fields) = <<p>> /\ PayloadToIpld(k, p) = fields
  BY RoundTrip
<1>0. t = Token(k, s, DagCbor, p)
  OBVIOUS
<1> HIDE DEF p
<1>2. /\ t.kind = k /\ t.signature = s /\ t.codec = DagCbor /\ t.payload = p
  BY DEF Token
<1>3. w.items = 2 /\ w.signature = s /\ w.map = SigPayload(k, EncodeHeader(DagCbor), fields)
  BY DEF Wire
<1>4. /\ DOMAIN w.map = {"h", Tag(k)} /\ w.map[Tag(k)] = fields
      /\ w.map["h"] = EncodeHeader(DagCbor)
  <2>1. SigPayload(k, EncodeHeader(DagCbor), fields)["h"] = EncodeHeader(DagCbor)
    BY DEF SigPayload
  <2>2. /\ DOMAIN SigPayload(k, EncodeHeader(DagCbor), fields) = {"h", Tag(k)}
        /\ SigPayload(k, EncodeHeader(DagCbor), fields)[Tag(k)] = fields
    BY SigPayloadHolds
  <2> QED  BY <1>3, <2>1, <2>2
<1>5. DecodeHeader(w.map["h"]) = <<DagCbor>>
  <2>1. EncodeHeader(DagCbor)[6] = DagCbor
    BY DEF EncodeHeader
  <2> QED  BY <1>4, <2>1 DEF DecodeHeader
<1>6. EnvelopeFromIpld(k, w) = <<t>>
  <2>1. /\ <<DagCbor>> # <<>> /\ <<DagCbor>>[1] = DagCbor
        /\ <<p>> # <<>> /\ <<p>>[1] = p
    OBVIOUS
  <2>2. ~(w.items # 2 \/ DOMAIN w.map # {"h", Tag(k)} \/ w.signature = NotASignature)
    BY <1>3, <1>4
  <2>3. IpldToPayload(k, w.map[Tag(k)]) = <<p>>
    BY <1>1, <1>4
  <2> HIDE DEF t
  <2> QED  BY <1>0, <1>3, <1>5, <2>1, <2>2, <2>3 DEF EnvelopeFromIpld
<1>7. SigPayloadOf(t) = w.map
  BY <1>1, <1>2, <1>3 DEF SigPayloadOf
<1>8. Encode(t) = w
  BY <1>2, <1>3, <1>7 DEF Encode
<1> HIDE DEF t
<1>9. Decode(k, w) = <<t>>
  <2>1. <<t>> # <<>> /\ <<t>>[1] = t
    OBVIOUS
  <2> QED  BY <1>2, <1>6, <1>8, <2>1 DEF Decode
<1> QED  BY <1>7, <1>9 DEF t, p

\* Complete fields of a builder have their types, or are null where the token
\* may go without.
CompleteFields(k, d) ==
  /\ DOMAIN d = Field(k)
  /\ \A f \in Field(k) : d[f] \in Takes(k, f) \/ (d[f] = Null /\ f \in {"nbf", "iat", "cause"})

\* What an encoder writes of complete fields conforms, and is read as it was.
LEMMA CompleteConforms ==
  ASSUME NEW k \in Kind, NEW d, CompleteFields(k, d)
  PROVE  LET fields == PayloadToIpld(k, PayloadOf(k, d, FALSE))
         IN  /\ ConformingFields(k, fields)
             /\ \A present \in BOOLEAN : \A f \in Field(k) : PayloadOf(k, fields, present)[f] = d[f]
<1> DEFINE p == PayloadOf(k, d, FALSE)
           fields == PayloadToIpld(k, p)
<1> SUFFICES /\ ConformingFields(k, fields)
             /\ \A present \in BOOLEAN : \A f \in Field(k) : PayloadOf(k, fields, present)[f] = d[f]
  OBVIOUS
<1>1. p["metaPresent"] = FALSE /\ \A f \in Field(k) : p[f] = d[f]
  BY DEF PayloadOf, CompleteFields, Field, Required, Optional
<1> HIDE DEF p
<1>2. \A present \in BOOLEAN : \A f \in Field(k) :
        PayloadOf(k, fields, present)[f] = IF f \in DOMAIN fields THEN fields[f] ELSE Default(fields, f)
  BY DEF PayloadOf, Field, Required, Optional
<1>3. CASE k = "dlg"
  <2> DEFINE omitted == {f \in {"meta"} : p[f] = EmptyMap /\ ~p["metaPresent"]}
                        \cup {f \in {"nbf"} : p[f] = Null}
  <2>1. fields = [f \in Field("dlg") \ omitted |-> p[f]]
    BY <1>3 DEF PayloadToIpld, DelegationPayloadToIpld
  <2>2. omitted \subseteq {"meta", "nbf"}
    OBVIOUS
  <2> HIDE DEF fields
  <2>3. DOMAIN fields = Field(k) \ omitted /\ \A f \in DOMAIN fields : fields[f] = d[f]
    <3> HIDE DEF omitted
    <3> QED  BY <1>1, <1>3, <2>1
  <2>4. IsFunction(fields)
    <3> HIDE DEF omitted
    <3> QED  BY <2>1 DEF IsFunction
  <2>5. Required(k) \subseteq DOMAIN fields /\ DOMAIN fields \subseteq Field(k)
    <3> HIDE DEF omitted
    <3> QED  BY <1>3, <2>2, <2>3 DEF Field, Required
  <2>6. "nbf" \in DOMAIN fields => d["nbf"] # Null
    BY <1>1, <1>3, <2>3 DEF Field, Optional
  <2>7. \A f \in DOMAIN fields : fields[f] \in Takes(k, f)
    <3>1. \A f \in Field(k) : f \notin {"iat", "cause"}
      BY <1>3 DEF Field, Required, Optional
    <3> HIDE DEF omitted
    <3> QED  BY <2>3, <2>6, <3>1 DEF CompleteFields
  <2>8. \A f \in omitted : Default(fields, f) = d[f]
    BY <1>1, <1>3, <2>2 DEF Default, Field, Optional
  <2>9. \A f \in Field(k) : (IF f \in DOMAIN fields THEN fields[f] ELSE Default(fields, f)) = d[f]
    <3> HIDE DEF omitted
    <3> QED  BY <2>3, <2>8
  <2> QED  BY <1>2, <1>3, <2>4, <2>5, <2>7, <2>9 DEF ConformingFields
<1>4. CASE k = "inv"
  <2> DEFINE omitted == {f \in {"cause", "iat"} : p[f] = Null}
                        \cup {f \in {"meta"} : p[f] = EmptyMap}
                        \cup {f \in {"aud"} : p[f] = p["sub"]}
  <2>1. fields = [f \in Field("inv") \ omitted |-> p[f]]
    BY <1>4 DEF PayloadToIpld, InvocationPayloadToIpld
  <2>2. omitted \subseteq {"cause", "iat", "meta", "aud"}
    OBVIOUS
  <2> HIDE DEF fields
  <2>3. DOMAIN fields = Field(k) \ omitted /\ \A f \in DOMAIN fields : fields[f] = d[f]
    <3> HIDE DEF omitted
    <3> QED  BY <1>1, <1>4, <2>1
  <2>4. IsFunction(fields)
    <3> HIDE DEF omitted
    <3> QED  BY <2>1 DEF IsFunction
  <2>5. Required(k) \subseteq DOMAIN fields /\ DOMAIN fields \subseteq Field(k)
    <3> HIDE DEF omitted
    <3> QED  BY <1>4, <2>2, <2>3 DEF Field, Required
  <2>6. \A f \in {"cause", "iat"} : f \in DOMAIN fields => d[f] # Null
    BY <1>1, <1>4, <2>3 DEF Field, Optional
  <2>7. \A f \in DOMAIN fields : fields[f] \in Takes(k, f)
    <3>1. \A f \in Field(k) : f # "nbf"
      BY <1>4 DEF Field, Required, Optional
    <3> HIDE DEF omitted
    <3> QED  BY <2>3, <2>6, <3>1 DEF CompleteFields
  <2>8. fields["sub"] = d["sub"]
    BY <1>4, <2>3, <2>5 DEF Required
  <2>9. \A f \in omitted : Default(fields, f) = d[f]
    BY <1>1, <1>4, <2>2, <2>8 DEF Default, Field, Required, Optional
  <2>10. \A f \in Field(k) : (IF f \in DOMAIN fields THEN fields[f] ELSE Default(fields, f)) = d[f]
    <3> HIDE DEF omitted
    <3> QED  BY <2>3, <2>9
  <2>11. /\ "aud" \in DOMAIN fields => fields["aud"] # fields["sub"]
         /\ "meta" \in DOMAIN fields => fields["meta"] # EmptyMap
    BY <1>1, <1>4, <2>3, <2>8 DEF Field, Required, Optional
  <2> QED  BY <1>2, <1>4, <2>4, <2>5, <2>7, <2>10, <2>11 DEF ConformingFields
<1> QED  BY <1>3, <1>4 DEF Kind

----------------------------------------------------------------------------
(* What a builder has to do with what it issues                            *)

\* Setters get what TypeScript's types let them be called with, and the
\* timestamps that Timestamp.fromUnix makes.
SettersTyped ==
  \A knd \in Kind : \A k \in DOMAIN Offer \cap Field(knd) : \A v \in Offer[k] :
    v # Null => v \in Takes(knd, k)

\* A field is as the builder came, or was set.
BuilderInv ==
  \A k \in Field(kind) :
    \/ draft[k] = Defaults(kind)[k]
    \/ draft[k] # Null
    \/ kind = "dlg" /\ k = "sub"

\* What was set has the type of its field.
TypedInv ==
  \A k \in Field(kind) :
    draft[k] = Defaults(kind)[k] \/ draft[k] \in Takes(kind, k)

\* What is signed was built from all the fields, and by somebody.
SignedInv ==
  /\ phase \notin {"draft", "refused"} => draft["iss"] \notin {Unset, Null}
  /\ phase = "signed" \/ origin = "own" =>
       /\ issued = SigPayload(kind, EncodeHeader(DagCbor),
                              PayloadToIpld(kind, PayloadOf(kind, Draft, FALSE)))
       /\ \A k \in Field(kind) : Draft[k] # Unset

\* What this library sends is canonical; what others send is signed.
WireInv ==
  /\ origin = "own" => wire = Wire(2, Signature(draft["iss"], issued), issued, TRUE)
  /\ origin = "elsewhere" /\ phase = "sent" =>
       /\ wire = Wire(wire.items, Signature(draft["iss"], wire.map), wire.map, wire.canonical)
       /\ DOMAIN wire.map = {"h", Tag(kind)} =>
            /\ wire.map = SigPayload(kind, wire.map["h"], wire.map[Tag(kind)])
            /\ IsFunction(wire.map[Tag(kind)])

\* Who is done has tried the signature.
DoneInv == phase = "done" => token # <<>> /\ verified = VerifySignature(token[1])

EInv == BuilderInv /\ SignedInv /\ WireInv /\ DoneInv

\* Nothing is built or sent in the beginning.
LEMMA InitEInv == Init => EInv /\ TypedInv
BY DEF Init, EInv, BuilderInv, TypedInv, SignedInv, WireInv, DoneInv

\* Setting a field leaves the builder in order.
LEMMA SetEInv ==
  ASSUME DraftInv, BuilderInv, NEW k, NEW v, Set(k, v)
  PROVE  BuilderInv' /\ (TypedInv /\ (v # Null => v \in Takes(kind, k)) => TypedInv')
<1>1. /\ k \in Field(kind) /\ (v # Null \/ (kind = "dlg" /\ k = "sub"))
      /\ draft' = [draft EXCEPT ![k] = v] /\ kind' = kind
  BY DEF Set
<1>2. /\ draft'[k] = v
      /\ \A f \in Field(kind) : f # k => draft'[f] = draft[f]
  BY <1>1 DEF DraftInv
<1>3. BuilderInv'
  BY <1>1, <1>2 DEF BuilderInv
<1>4. kind = "dlg" => Null \in Takes(kind, "sub")
  BY DEF Takes
<1>5. ASSUME TypedInv, v # Null => v \in Takes(kind, k)  PROVE TypedInv'
  BY <1>1, <1>2, <1>4, <1>5 DEF TypedInv
<1> QED  BY <1>3, <1>5

\* Whatever somebody says instead of a function under a tag is a function
\* under its tag, if it is under that tag at all.
LEMMA StatementsAreFunctions ==
  ASSUME kind \in Kind, NEW m0, IsFunction(m0[Tag(kind)]), DOMAIN m0 = {"h", Tag(kind)},
         NEW m \in Statements(m0), DOMAIN m = {"h", Tag(kind)}
  PROVE  m = SigPayload(kind, m["h"], m[Tag(kind)]) /\ IsFunction(m[Tag(kind)])
<1> DEFINE fields == m0[Tag(kind)]
           Holds(k, h, fs) == m = SigPayload(k, h, fs) /\ IsFunction(fs)
<1>1. ASSUME NEW fs \in Altered(fields)  PROVE IsFunction(fs)
  <2>1. CASE \E gone \in DOMAIN fields : fs = [k \in DOMAIN fields \ {gone} |-> fields[k]]
    BY <2>1 DEF IsFunction
  <2>2. CASE \E added \in DOMAIN Alien : \E v \in Alien[added] :
               fs = [k \in DOMAIN fields \cup {added} |-> IF k = added THEN v ELSE fields[k]]
    <3>1. PICK added, v :
            fs = [k \in DOMAIN fields \cup {added} |-> IF k = added THEN v ELSE fields[k]]
      BY <2>2, Zenon
    <3> DEFINE at(k) == IF k = added THEN v ELSE fields[k]
               D == DOMAIN fields \cup {added}
    <3>2. fs = [k \in D |-> at(k)]
      BY <3>1
    <3> HIDE DEF at, D
    <3> QED  BY <3>2 DEF IsFunction
  <2> HIDE DEF fields
  <2>3. \/ \E gone \in DOMAIN fields : fs = [k \in DOMAIN fields \ {gone} |-> fields[k]]
        \/ \E added \in DOMAIN Alien : \E v \in Alien[added] :
             fs = [k \in DOMAIN fields \cup {added} |-> IF k = added THEN v ELSE fields[k]]
    <3> DEFINE Added(added, v) == [k \in DOMAIN fields \cup {added} |-> IF k = added THEN v ELSE fields[k]]
               Gone(gone) == [k \in DOMAIN fields \ {gone} |-> fields[k]]
    <3>1. Altered(fields) = {Gone(gone) : gone \in DOMAIN fields}
            \cup UNION {{Added(added, v) : v \in Alien[added]} : added \in DOMAIN Alien}
      BY DEF Altered
    <3> HIDE DEF Added, Gone
    <3>2. \/ \E gone \in DOMAIN fields : fs = Gone(gone)
          \/ \E added \in DOMAIN Alien : \E v \in Alien[added] : fs = Added(added, v)
      BY <1>1, <3>1
    <3> QED  BY <3>2, Zenon DEF Added, Gone
  <2> QED  BY <2>1, <2>2, <2>3, Zenon
<1>2. \E k \in Kind : \E h, fs : Holds(k, h, fs)
  <2>1. CASE \E fs \in Altered(fields) : m = SigPayload(kind, m0["h"], fs)
    BY <1>1, <2>1
  <2>2. CASE \E h \in AlienHeaders : m = SigPayload(kind, h, fields)
    BY <2>2
  <2>3. CASE \E knd \in Kind : m = SigPayload(knd, m0["h"], fields)
    BY <2>3
  <2>4. CASE m = [k \in DOMAIN m0 \cup {"x"} |-> IF k = "x" THEN Null ELSE m0[k]]
    BY <2>4 DEF Tag
  <2> QED  BY <2>1, <2>2, <2>3, <2>4 DEF Statements
<1>3. PICK k \in Kind : \E h, fs : Holds(k, h, fs)
  BY <1>2
<1>4. PICK h, fs : Holds(k, h, fs)
  BY <1>3
<1>5. DOMAIN m = {"h", Tag(k)} /\ m[Tag(k)] = fs /\ m["h"] = h
  <2>1. SigPayload(k, h, fs)["h"] = h
    BY DEF SigPayload
  <2> QED  BY <1>4, <2>1, SigPayloadHolds
<1>6. k = kind
  BY <1>5, TagsDiffer
<1> QED  BY <1>4, <1>5, <1>6

\* What the builder holds, what is signed and what is sent keep in step.
LEMMA NextEInv == TInv /\ EInv /\ [Next]_vars => EInv'
<1> SUFFICES ASSUME TInv, EInv, [Next]_vars  PROVE EInv'
  OBVIOUS
<1>0. DraftInv /\ IssuedInv /\ OriginInv /\ BuilderInv /\ SignedInv /\ WireInv /\ DoneInv
  BY DEF TInv, EInv
<1>1. ASSUME NEW k \in DOMAIN Offer, NEW v \in Offer[k], Set(k, v)  PROVE EInv'
  <2>1. phase = "draft" /\ UNCHANGED <<kind, issued, wire, origin, phase>>
    BY <1>1 DEF Set
  <2>2. SignedInv' /\ WireInv' /\ DoneInv'
    BY <1>0, <2>1 DEF SignedInv, WireInv, DoneInv, OriginInv
  <2> QED  BY <1>0, <1>1, <2>2, SetEInv DEF EInv
<1>2. ASSUME TryBuild  PROVE EInv'
  <2>1. phase = "draft" /\ origin = "none" /\ UNCHANGED <<kind, draft, wire, origin>>
    BY <1>0, <1>2 DEF TryBuild, OriginInv
  <2>2. \/ phase' = "refused"
        \/ /\ phase' = "signed" /\ \A k \in Field(kind) : Draft[k] # Unset
           /\ issued' = SigPayload(kind, EncodeHeader(DagCbor),
                                   PayloadToIpld(kind, PayloadOf(kind, Draft, FALSE)))
    BY <1>2 DEF TryBuild
  <2>3. "iss" \in Field(kind) /\ Draft["iss"] = draft["iss"] /\ Defaults(kind)["iss"] = Unset
    BY <1>0 DEF DraftInv, Draft, Defaults, Kind, Field, Required
  <2>4. phase' = "signed" => draft["iss"] \notin {Unset, Null}
    BY <1>0, <2>2, <2>3 DEF BuilderInv
  <2>5. Draft' = Draft
    BY <2>1 DEF Draft
  <2>6. SignedInv'
    BY <2>1, <2>2, <2>4, <2>5 DEF SignedInv
  <2> QED  BY <1>0, <2>1, <2>2, <2>6 DEF EInv, BuilderInv, WireInv, DoneInv
<1>3. ASSUME EncodeOwn  PROVE EInv'
  <2> DEFINE p == PayloadOf(kind, Draft, FALSE)
             t == Token(kind, Signature(draft["iss"], issued), DagCbor, p)
  <2>1. phase = "signed" /\ Send(Encode(t), "own") /\ issued' = issued
    BY <1>3 DEF EncodeOwn
  <2>2. /\ issued = SigPayload(kind, EncodeHeader(DagCbor), PayloadToIpld(kind, p))
        /\ \A k \in Field(kind) : Draft[k] # Unset
        /\ draft["iss"] \notin {Unset, Null}
    BY <1>0, <2>1 DEF SignedInv
  <2>3. Encode(t) = Wire(2, Signature(draft["iss"], issued), issued, TRUE)
    <3> HIDE DEF p
    <3> QED  BY <2>2 DEF Encode, SigPayloadOf, Token
  <2>4. /\ wire' = Wire(2, Signature(draft["iss"], issued), issued, TRUE)
        /\ origin' = "own" /\ phase' = "sent" /\ kind' = kind /\ draft' = draft
    <3> HIDE DEF t
    <3> QED  BY <2>1, <2>3 DEF Send
  <2>5. Draft' = Draft
    BY <2>4 DEF Draft
  <2>6. SignedInv'
    BY <2>1, <2>2, <2>4, <2>5 DEF SignedInv
  <2> HIDE DEF t
  <2> QED  BY <1>0, <2>1, <2>4, <2>6 DEF EInv, BuilderInv, WireInv, DoneInv
<1>4. ASSUME EncodeElsewhere  PROVE EInv'
  <2>1. phase = "signed" /\ draft["iss"] \notin {Unset, Null}
    BY <1>0, <1>4 DEF EncodeElsewhere, SignedInv
  <2>2. PICK m \in Statements(issued), canonical \in BOOLEAN :
          Send(Wire(2, Signature(draft["iss"], m), m, canonical), "elsewhere")
    BY <1>4 DEF EncodeElsewhere
  <2>3. /\ wire' = Wire(2, Signature(draft["iss"], m), m, canonical)
        /\ origin' = "elsewhere" /\ phase' = "sent" /\ kind' = kind /\ draft' = draft
    BY <2>2 DEF Send
  <2>4. wire'.items = 2 /\ wire'.map = m /\ wire'.canonical = canonical
    BY <2>3 DEF Wire
  <2>5. IsFunction(issued[Tag(kind)]) /\ DOMAIN issued = {"h", Tag(kind)}
    <3> DEFINE fields == PayloadToIpld(kind, PayloadOf(kind, Draft, FALSE))
    <3>1. issued = SigPayload(kind, EncodeHeader(DagCbor), fields)
      BY <1>0, <2>1 DEF SignedInv
    <3>2. IsFunction(fields)
      BY DEF PayloadToIpld, DelegationPayloadToIpld, InvocationPayloadToIpld, IsFunction
    <3> HIDE DEF fields
    <3>3. issued[Tag(kind)] = fields /\ DOMAIN issued = {"h", Tag(kind)}
      BY <1>0, <3>1, SigPayloadHolds DEF DraftInv
    <3> QED  BY <3>2, <3>3
  <2>6. DOMAIN m = {"h", Tag(kind)} =>
          m = SigPayload(kind, m["h"], m[Tag(kind)]) /\ IsFunction(m[Tag(kind)])
    BY <1>0, <2>5, StatementsAreFunctions DEF DraftInv
  <2>7. WireInv'
    BY <2>3, <2>4, <2>6 DEF WireInv
  <2>8. SignedInv'
    BY <2>1, <2>3 DEF SignedInv
  <2> QED  BY <1>0, <2>3, <2>7, <2>8 DEF EInv, BuilderInv, DoneInv
<1>5. ASSUME Alter  PROVE EInv'
  <2>1. /\ phase = "sent" /\ phase' = "sent" /\ origin' = "altered"
        /\ kind' = kind /\ draft' = draft
    BY <1>5 DEF Alter, Send
  <2> QED  BY <1>0, <2>1 DEF EInv, BuilderInv, SignedInv, WireInv, DoneInv
<1>6. ASSUME Receive \/ Verify  PROVE EInv'
  <2>1. /\ phase \in {"sent", "decoded"} /\ phase' \in {"decoded", "done"}
        /\ UNCHANGED <<kind, draft, issued, wire, origin>>
        /\ phase' = "done" => token' # <<>> /\ verified' = VerifySignature(token'[1])
    BY <1>6 DEF Receive, Verify
  <2>2. Draft' = Draft
    BY <2>1 DEF Draft
  <2> QED  BY <1>0, <2>1, <2>2 DEF EInv, BuilderInv, SignedInv, WireInv, DoneInv
<1>7. ASSUME UNCHANGED vars  PROVE EInv'
  <2>1. UNCHANGED <<kind, draft, issued, wire, origin, token, verified, phase>> /\ Draft' = Draft
    BY <1>7 DEF vars, Draft
  <2> QED  BY <1>0, <2>1 DEF EInv, BuilderInv, SignedInv, WireInv, DoneInv
<1> QED  BY <1>1, <1>2, <1>3, <1>4, <1>5, <1>6, <1>7 DEF Next

\* Only setters change the builder.
LEMMA NextTypedInv ==
  ASSUME SettersTyped, TInv, EInv, TypedInv, [Next]_vars
  PROVE  TypedInv'
<1>1. ASSUME NEW k \in DOMAIN Offer, NEW v \in Offer[k], Set(k, v)  PROVE TypedInv'
  <2>1. kind \in Kind /\ k \in Field(kind) /\ DraftInv /\ BuilderInv
    BY <1>1 DEF Set, TInv, EInv, DraftInv
  <2>2. v # Null => v \in Takes(kind, k)
    BY <1>1, <2>1 DEF SettersTyped
  <2> QED  BY <1>1, <2>1, <2>2, SetEInv
<1>2. ASSUME TryBuild \/ EncodeOwn \/ EncodeElsewhere \/ Alter \/ Receive \/ Verify \/ UNCHANGED vars
      PROVE  TypedInv'
  <2>1. kind' = kind /\ draft' = draft
    BY <1>2 DEF TryBuild, EncodeOwn, EncodeElsewhere, Alter, Send, Receive, Verify, vars
  <2> QED  BY <2>1 DEF TypedInv
<1> QED  BY <1>1, <1>2 DEF Next

----------------------------------------------------------------------------

\* What another implementation writes as the specification has it is decoded
\* and verified.
LEMMA EInvConforming == TInv /\ EInv => ConformingAccepted
<1> SUFFICES ASSUME TInv, EInv, origin = "elsewhere", phase = "sent", Conforms(kind, wire),
                    wire.map[Tag(kind)]["iss"] = draft["iss"]
             PROVE  LET t == Decode(kind, wire) IN
                    /\ t # <<>> <=> Lossless(wire.map[Tag(kind)])
                    /\ t # <<>> => VerifySignature(t[1])
  BY DEF ConformingAccepted
<1> SUFFICES ASSUME Lossless(wire.map[Tag(kind)])
             PROVE  LET t == Decode(kind, wire) IN t # <<>> /\ VerifySignature(t[1])
  BY LostIsRefused DEF TInv, DraftInv
<1> DEFINE fields == wire.map[Tag(kind)]
           s == Signature(draft["iss"], wire.map)
<1>1. kind \in Kind /\ draft["iss"] # Null
  BY DEF TInv, EInv, DraftInv, SignedInv
<1>2. /\ wire.items = 2 /\ wire.canonical /\ DOMAIN wire.map = {"h", Tag(kind)}
      /\ wire.map["h"] = EncodeHeader(DagCbor)
  BY DEF Conforms
<1>3. /\ wire = Wire(wire.items, s, wire.map, wire.canonical)
      /\ wire.map = SigPayload(kind, wire.map["h"], fields) /\ IsFunction(fields)
  BY <1>2 DEF EInv, WireInv
<1>4. ConformingFields(kind, fields)
  BY <1>3 DEF Conforms, ConformingFields
<1>5. s # NotASignature
  BY <1>1 DEF Signature, NotASignature
<1>6. wire.canonical = TRUE
  BY <1>2, <1>3
<1>7. wire = Wire(2, s, SigPayload(kind, EncodeHeader(DagCbor), fields), TRUE)
  BY <1>2, <1>3, <1>6
<1>8. PICK t : /\ Decode(kind, wire) = <<t>> /\ SigPayloadOf(t) = wire.map
               /\ \E present \in BOOLEAN : t = Token(kind, s, DagCbor, PayloadOf(kind, fields, present))
  <2> DEFINE present == kind = "dlg" /\ "meta" \in DOMAIN fields
  <2>1. present \in BOOLEAN
    OBVIOUS
  <2> HIDE DEF fields, s
  <2>3. kind \in Kind
    BY <1>1
  <2>4. Lossless(fields)
    BY DEF fields
  <2>2. \E t : /\ Decode(kind, wire) = <<t>> /\ SigPayloadOf(t) = wire.map
               /\ t = Token(kind, s, DagCbor, PayloadOf(kind, fields, present))
    BY <1>4, <1>5, <1>7, <2>3, <2>4, ConformingDecodes, Zenon
  <2> HIDE DEF present
  <2> QED  BY <2>1, <2>2
<1>9. "iss" \in DOMAIN fields
  BY <1>1, <1>4 DEF ConformingFields, Required, Kind
<1>10. /\ t.codec = DagCbor /\ t.signature = s
       /\ t.payload["iss"] = fields["iss"]
  BY <1>1, <1>8, <1>9 DEF Token, PayloadOf, Field, Required, Kind
<1>11. VerifySignature(t)
  BY <1>8, <1>10 DEF VerifySignature
<1>12. <<t>> # <<>> /\ <<t>>[1] = t
  OBVIOUS
<1> QED  BY <1>8, <1>11, <1>12

\* What a builder was given typed values for arrives.
LEMMA EInvOwn == TInv /\ EInv /\ TypedInv => OwnTokenArrives
<1> SUFFICES ASSUME TInv, EInv, TypedInv, origin = "own"
             PROVE  /\ phase = "sent" => (Decode(kind, wire) # <<>> <=> Lossless(Draft))
                    /\ token # <<>> => /\ token[1].kind = kind
                                       /\ \A k \in Field(kind) : token[1].payload[k] = Draft[k]
                    /\ phase = "done" => verified
  BY DEF OwnTokenArrives
<1> DEFINE fields == PayloadToIpld(kind, PayloadOf(kind, Draft, FALSE))
           s == Signature(draft["iss"], issued)
<1>1. /\ kind \in Kind /\ DOMAIN draft = Field(kind)
      /\ wire = Wire(2, s, issued, TRUE)
      /\ issued = SigPayload(kind, EncodeHeader(DagCbor), fields)
      /\ \A k \in Field(kind) : Draft[k] # Unset
  BY DEF TInv, EInv, DraftInv, WireInv, SignedInv
<1>2. CompleteFields(kind, Draft)
  <2>1. DOMAIN Draft = Field(kind) /\ \A k \in Field(kind) \ {"nonce"} : Draft[k] = draft[k]
    BY <1>1 DEF Draft
  <2>2. Draft["nonce"] \in Takes(kind, "nonce")
    <3>1. "nonce" \in Field(kind) /\ Defaults(kind)["nonce"] = Unset
      BY <1>1 DEF Defaults, Kind, Field, Required
    <3>2. draft["nonce"] = Unset \/ draft["nonce"] \in Takes(kind, "nonce")
      BY <3>1 DEF TypedInv
    <3> QED  BY <1>1, <3>1, <3>2, ExchangeAssumption DEF Draft, Takes
  <2>3. ASSUME NEW k \in Field(kind) \ {"nonce"}
        PROVE  Draft[k] \in Takes(kind, k) \/ (Draft[k] = Null /\ k \in {"nbf", "iat", "cause"})
    <3>1. CASE draft[k] = Defaults(kind)[k]
      <4>1. k \notin {"iss", "aud", "sub", "cmd", "prf"}
        BY <1>1, <2>1, <2>3, <3>1 DEF Defaults
      <4>2. k \in {"pol", "args", "meta", "exp", "nbf", "iat", "cause"}
        BY <1>1, <2>3, <4>1 DEF Kind, Field, Required, Optional
      <4>3. CASE k = "pol"
        BY <2>1, <2>3, <3>1, <4>3, ExchangeAssumption DEF Defaults, Takes
      <4>4. CASE k \in {"args", "meta"}
        BY <2>1, <2>3, <3>1, <4>4, TokensAssumption DEF Defaults, Takes
      <4>5. CASE k \in {"exp", "nbf", "iat", "cause"}
        BY <2>1, <2>3, <3>1, <4>5 DEF Defaults, Takes
      <4> QED  BY <4>2, <4>3, <4>4, <4>5
    <3>2. CASE draft[k] \in Takes(kind, k)
      BY <2>1, <3>2
    <3> QED  BY <3>1, <3>2 DEF TypedInv
  <2> QED  BY <2>1, <2>2, <2>3 DEF CompleteFields
<1>3. /\ ConformingFields(kind, fields)
      /\ \A present \in BOOLEAN : \A f \in Field(kind) : PayloadOf(kind, fields, present)[f] = Draft[f]
  BY <1>1, <1>2, CompleteConforms
<1>4. "iss" \in Field(kind) /\ Draft["iss"] = draft["iss"]
  BY <1>1 DEF Draft, Kind, Field, Required
<1>5. draft["iss"] # Null
  BY <1>1, <1>4 DEF EInv, BuilderInv, Defaults
<1>6. s # NotASignature
  BY <1>5 DEF Signature, NotASignature
<1>15. Lossless(fields) <=> Lossless(Draft)
  <2> HIDE DEF fields, s
  <2>1. DOMAIN Draft = Field(kind) /\ "pol" \in Field("dlg") /\ "args" \in Field("inv") /\ "meta" \in Field(kind)
    BY <1>1, <1>2 DEF CompleteFields, Kind, Field, Required, Optional
  <2>2. Required(kind) \subseteq DOMAIN fields /\ DOMAIN fields \subseteq Field(kind)
    BY <1>3 DEF ConformingFields
  <2>3. \A f \in Field(kind) : (IF f \in DOMAIN fields THEN fields[f] ELSE Default(fields, f)) = Draft[f]
    BY <1>1, <1>3 DEF PayloadOf, Field, Required, Optional, Kind
  <2>4. "pol" \in DOMAIN fields <=> "pol" \in DOMAIN Draft
    BY <1>1, <2>1, <2>2 DEF Kind, Field, Required, Optional
  <2>5. "args" \in DOMAIN fields <=> "args" \in DOMAIN Draft
    BY <1>1, <2>1, <2>2 DEF Kind, Field, Required, Optional
  <2>6. \A f \in DOMAIN fields : fields[f] = Draft[f]
    BY <2>2, <2>3
  <2>7. "meta" \notin DOMAIN fields => Draft["meta"] \notin ProtoMaps
    BY <2>1, <2>3, LossAssumption DEF Default
  <2> QED  BY <2>1, <2>4, <2>5, <2>6, <2>7 DEF Lossless
<1>16. wire.map[Tag(kind)] = fields
  <2>1. wire.map = issued  BY <1>1 DEF Wire
  <2> DEFINE h == EncodeHeader(DagCbor)
  <2>2. issued = SigPayload(kind, h, fields)  BY <1>1
  <2> HIDE DEF h, fields
  <2>3. SigPayload(kind, h, fields)[Tag(kind)] = fields  BY <1>1, SigPayloadHolds
  <2> QED  BY <2>1, <2>2, <2>3
<1> HIDE DEF fields
<1>7. wire.map = issued /\ DOMAIN wire.map = {"h", Tag(kind)}
  BY <1>1, SigPayloadHolds DEF Wire
<1>11. \A k \in Kind : k = kind \/ Decode(k, wire) = <<>>
  <2>1. ASSUME NEW k \in Kind, k # kind  PROVE EnvelopeFromIpld(k, wire) = <<>>
    <3>1. Tag(k) # Tag(kind) /\ Tag(k) # "h"
      BY <1>1, <2>1, TagsDiffer
    <3>2. DOMAIN wire.map # {"h", Tag(k)}
      BY <1>7, <3>1
    <3> QED  BY <3>2, Zenon DEF EnvelopeFromIpld
  <2> QED  BY <2>1, Zenon DEF Decode
<1>17. Decode(kind, wire) # <<>> => Lossless(Draft)
  BY <1>1, <1>15, <1>16, LostIsRefused
<1>18. token # <<>> => Lossless(Draft)
  BY <1>11, <1>17 DEF TInv, TokenInv
<1>19. phase = "done" => token # <<>>
  BY DEF EInv, DoneInv
<1> SUFFICES ASSUME Lossless(Draft)
             PROVE  /\ Decode(kind, wire) # <<>>
                    /\ token # <<>> => /\ token[1].kind = kind
                                       /\ \A k \in Field(kind) : token[1].payload[k] = Draft[k]
                    /\ phase = "done" => verified
  BY <1>17, <1>18, <1>19
<1>8. PICK t : /\ Decode(kind, wire) = <<t>> /\ SigPayloadOf(t) = issued
               /\ \E present \in BOOLEAN : t = Token(kind, s, DagCbor, PayloadOf(kind, fields, present))
  <2> DEFINE present == kind = "dlg" /\ "meta" \in DOMAIN fields
  <2>1. present \in BOOLEAN
    OBVIOUS
  <2>2. wire = Wire(2, s, SigPayload(kind, EncodeHeader(DagCbor), fields), TRUE)
    BY <1>1
  <2> HIDE DEF s
  <2>3. \E t : /\ Decode(kind, wire) = <<t>> /\ SigPayloadOf(t) = wire.map
               /\ t = Token(kind, s, DagCbor, PayloadOf(kind, fields, present))
    <3>1. kind \in Kind /\ ConformingFields(kind, fields)
      BY <1>1, <1>3
    <3> QED  BY <1>6, <1>15, <2>2, <3>1, ConformingDecodes, Zenon
  <2> HIDE DEF present
  <2> QED  BY <1>7, <2>1, <2>3
<1>9. /\ t.kind = kind /\ t.codec = DagCbor /\ t.signature = s
      /\ \A k \in Field(kind) : t.payload[k] = Draft[k]
  BY <1>3, <1>8 DEF Token
<1>10. VerifySignature(t)
  BY <1>4, <1>8, <1>9 DEF VerifySignature
<1>12. token # <<>> => token = <<t>>
  BY <1>8, <1>11 DEF TInv, TokenInv
<1>13. <<t>> # <<>> /\ <<t>>[1] = t
  OBVIOUS
<1>14. phase = "done" => verified
  BY <1>10, <1>12, <1>13 DEF EInv, DoneInv
<1> QED  BY <1>8, <1>9, <1>12, <1>13, <1>14

----------------------------------------------------------------------------

\* Whatever there is to write and to sign: what conforms to the specification
\* is decoded just when nothing of it is lost in reading, and then its signature
\* holds, whoever wrote it.
THEOREM ConformingIsAccepted == Spec => []ConformingAccepted
<1>1. Init => TInv /\ EInv
  BY InitTInv, InitEInv
<1>2. (TInv /\ EInv) /\ [Next]_vars => (TInv /\ EInv)'
  BY NextTInv, NextEInv
<1>3. Spec => [](TInv /\ EInv)
  BY <1>1, <1>2, PTL DEF Spec
<1> QED  BY <1>3, EInvConforming, PTL

\* A builder whose setters are called with values of their types, in any
\* order and for any kind of token, issues a token that is decoded just when
\* nothing of it is lost in reading; what is decoded is as it was built, its
\* signature holds, and it passes for no other kind.
THEOREM OwnIsAccepted ==
  ASSUME SettersTyped
  PROVE  Spec => []OwnTokenArrives
<1> DEFINE I == TInv /\ EInv /\ TypedInv
<1>1. Init => I
  BY InitTInv, InitEInv
<1>2. I /\ [Next]_vars => I'
  BY NextTInv, NextEInv, NextTypedInv
<1>3. I => OwnTokenArrives
  BY EInvOwn
<1> HIDE DEF I
<1> QED  BY <1>1, <1>2, <1>3, PTL DEF Spec
=============================================================================
