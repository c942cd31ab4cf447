--------------------------- MODULE TokenExchange ---------------------------
(***************************************************************************)
(* A token from its builder (delegation/builder.ts, invocation/builder.ts) *)
(* through the wire to its receiver, who decodes it and verifies its       *)
(* signature.  Other implementations sign and write tokens as well, and on *)
(* its way a token may be altered by those who cannot sign.                *)
(***************************************************************************)
EXTENDS Tokens

CONSTANTS
  Unset,      \* the symbol of unset.ts
  Generated,  \* the nonce that Nonce.generate16 makes
  EmptyList,  \* the policy of a new builder
  Offer,      \* for each field, what its setter is called with
  Alien       \* what other implementations write in a field

ASSUME ExchangeAssumption == Generated \in Nonce /\ EmptyList \in Policy \ MapOperands

VARIABLES
  kind,     \* of the token that is built
  draft,    \* the fields of the builder
  issued,   \* the SigPayload the issuer signed
  wire,     \* the token on its way
  origin,   \* who wrote it: "own", "elsewhere", "altered"
  token,    \* <<>>, or <<the decoded token>>
  verified, \* whether verifySignature returned
  phase     \* "draft", "refused", "signed", "sent", "decoded", "done"

vars == <<kind, draft, issued, wire, origin, token, verified, phase>>

----------------------------------------------------------------------------
(* The builder                                                             *)

Defaults(knd) ==
  [k \in Field(knd) |->
     CASE k \in {"iss", "aud", "sub", "cmd", "prf", "nonce"} -> Unset
       [] k = "pol" -> EmptyList
       [] k \in {"args", "meta"} -> EmptyMap
       [] k \in {"exp", "nbf", "iat", "cause"} -> Null]

Init ==
  /\ kind \in Kind /\ draft = Defaults(kind)
  /\ issued = Null /\ wire = Null /\ origin = "none"
  /\ token = <<>> /\ verified = FALSE /\ phase = "draft"

\* A setter: it takes no null, but for the powerline subject.
Set(k, v) ==
  /\ phase = "draft" /\ k \in Field(kind)
  /\ v # Null \/ (kind = "dlg" /\ k = "sub")
  /\ draft' = [draft EXCEPT ![k] = v]
  /\ UNCHANGED <<kind, issued, wire, origin, token, verified, phase>>

\* intoPayload.
Draft == [draft EXCEPT !["nonce"] = IF @ = Unset THEN Generated ELSE @]

\* tryBuild: it throws on a required field that is unset.
TryBuild ==
  LET p == PayloadOf(kind, Draft, FALSE)
      missing == \E k \in Field(kind) : Draft[k] = Unset
  IN
  /\ phase = "draft"
  /\ \/ missing /\ phase' = "refused" /\ UNCHANGED issued
     \/ /\ ~missing /\ phase' = "signed"
        /\ issued' = SigPayload(kind, EncodeHeader(DagCbor), PayloadToIpld(kind, p))
  /\ UNCHANGED <<kind, draft, wire, origin, token, verified>>

----------------------------------------------------------------------------
(* The wire                                                                *)

Send(w, who) ==
  /\ wire' = w /\ origin' = who /\ phase' = "sent"
  /\ UNCHANGED <<kind, draft, token, verified>>

EncodeOwn ==
  /\ phase = "signed"
  /\ LET t == Token(kind, Signature(draft["iss"], issued), DagCbor, PayloadOf(kind, Draft, FALSE))
     IN  Send(Encode(t), "own")
  /\ UNCHANGED issued

\* fields with one of them left out, or another value in one, or one that
\* nobody knows.
Altered(fields) ==
  {[k \in DOMAIN fields \ {gone} |-> fields[k]] : gone \in DOMAIN fields}
  \cup UNION {{[k \in DOMAIN fields \cup {added} |-> IF k = added THEN v ELSE fields[k]] :
                 v \in Alien[added]} : added \in DOMAIN Alien}

AlienHeaders == {EncodeHeader(DagJson), EncodeHeader(85), EncodeHeader(DagCbor) \o <<DagCbor>>, <<52>>}

\* What to say instead of m: other fields, another header, another tag, or
\* something besides.
Statements(m) ==
  LET fields == m[Tag(kind)]
      Other(h, fs) == SigPayload(kind, h, fs)
  IN  {Other(m["h"], fs) : fs \in Altered(fields)}
      \cup {Other(h, fields) : h \in AlienHeaders}
      \cup {SigPayload(knd, m["h"], fields) : knd \in Kind}
      \cup {[k \in DOMAIN m \cup {"x"} |-> IF k = "x" THEN Null ELSE m[k]]}

\* Another implementation signs what it writes, in bytes of its own choice.
EncodeElsewhere ==
  /\ phase = "signed"
  /\ \E m \in Statements(issued), canonical \in BOOLEAN :
       /\ issued' = m
       /\ Send(Wire(2, Signature(draft["iss"], m), m, canonical), "elsewhere")

\* A token that was sent is altered, in what it says, its signature, its
\* bytes or its shape, by someone other than its issuer.
Alter ==
  /\ phase = "sent" /\ origin = "own"
  /\ \E m \in Statements(issued) \cup {issued}, items \in {2, 3}, canonical \in BOOLEAN,
        signature \in {wire.signature, NotASignature} \cup {Signature(d, issued) : d \in Did \ {draft["iss"]}} :
       /\ m = issued \/ (items = 2 /\ canonical)
       /\ Send(Wire(items, signature, m, canonical), "altered")
  /\ UNCHANGED issued

----------------------------------------------------------------------------
(* The receiver, who expects a token of one kind                           *)

Receive ==
  /\ phase = "sent"
  /\ \E expected \in Kind : token' = Decode(expected, wire)
  /\ phase' = "decoded"
  /\ UNCHANGED <<kind, draft, issued, wire, origin, verified>>

Verify ==
  /\ phase = "decoded" /\ token # <<>>
  /\ verified' = VerifySignature(token[1]) /\ phase' = "done"
  /\ UNCHANGED <<kind, draft, issued, wire, origin, token>>

Next ==
  \/ \E k \in DOMAIN Offer : \E v \in Offer[k] : Set(k, v)
  \/ TryBuild \/ EncodeOwn \/ EncodeElsewhere \/ Alter \/ Receive \/ Verify

Spec == Init /\ [][Next]_vars

----------------------------------------------------------------------------
(* Properties                                                              *)

\* No policy of the fields compares with a map that has something in it, and
\* no map of theirs has a key __proto__.
Lossless(fields) ==
  /\ "pol" \in DOMAIN fields => fields["pol"] \notin MapOperands
  /\ \A k \in {"args", "meta"} \cap DOMAIN fields : fields[k] \notin ProtoMaps

\* One function decides which fields to leave out and another puts them
\* back: what a builder was given is accepted by the decoder of its kind and
\* by no other, unless some of it is lost in reading; what is accepted is as
\* it was given, and its signature holds.
OwnTokenArrives ==
  origin = "own" =>
    /\ phase = "sent" => (Decode(kind, wire) # <<>> <=> Lossless(Draft))
    /\ token # <<>> => token[1].kind = kind /\ \A k \in Field(kind) : token[1].payload[k] = Draft[k]
    /\ phase = "done" => verified

\* verifySignature works on the payload in memory and not on the bytes, yet
\* it vouches for the bytes: a verified token is the one encoding of what its
\* issuer signed, so that it has one CID, and no field of it went unread.
VerifiedAsSigned ==
  verified =>
    LET t == token[1]
        said == issued[Tag(t.kind)]
    IN  /\ wire = Wire(2, Signature(draft["iss"], issued), issued, TRUE)
        /\ t.payload["iss"] = draft["iss"]
        /\ \A k \in DOMAIN said : k \in Field(t.kind) /\ t.payload[k] = said[k]

\* What the specification asks of the writer of a token: fields of their types
\* in canonical bytes, an audience that is not the subject of an invocation,
\* no empty metadata in one.
Conforms(knd, w) ==
  LET fields == w.map[Tag(knd)] IN
  /\ w.items = 2 /\ w.canonical
  /\ DOMAIN w.map = {"h", Tag(knd)} /\ w.map["h"] = EncodeHeader(DagCbor)
  /\ Required(knd) \subseteq DOMAIN fields /\ DOMAIN fields \subseteq Field(knd)
  /\ \A k \in DOMAIN fields : fields[k] \in Takes(knd, k)
  /\ knd = "inv" /\ "aud" \in DOMAIN fields => fields["aud"] # fields["sub"]
  /\ knd = "inv" /\ "meta" \in DOMAIN fields => fields["meta"] # EmptyMap

\* What another implementation signs and writes so is accepted, unless some of
\* it is lost in reading: then what was read is not written again as it was,
\* and the decoder refuses a token that conforms.
ConformingAccepted ==
  origin = "elsewhere" /\ phase = "sent" /\ Conforms(kind, wire) /\ wire.map[Tag(kind)]["iss"] = draft["iss"] =>
    LET t == Decode(kind, wire) IN
    /\ t # <<>> <=> Lossless(wire.map[Tag(kind)])
    /\ t # <<>> => VerifySignature(t[1])
=============================================================================
