--------------------------- MODULE ContainerProofs ---------------------------
(***************************************************************************)
(* Packing and unpacking, for any tokens, any containers that others write *)
(* and any number of calls that pack: what containerFromBytes resolves to  *)
(* is right for the bytes it was passed, one parcel has one container, and *)
(* what was packed is what arrives, in bytewise order.                     *)
(*                                                                         *)
(* Then the parcel, for arguments of any depth: what was enclosed is what  *)
(* is read, what is read is what this library writes, and it resolves      *)
(* exactly when nothing in it waits.                                       *)
(***************************************************************************)
EXTENDS Parcel, WellFoundedInduction, FiniteSetTheorems, SequenceTheorems, TLAPS

Shaped(s) == s = [header |-> s.header, payload |-> s.payload] /\ IsPayload(s.payload)

\* The CBOR that a call holds while gzip runs.
IsCbor(p) == p.layer = "cbor" /\ IsLayer(p)

\* What there is to read is made of the layers, and a call that waits for
\* gunzip has cut its gzip stream out of the bytes it was passed.
CInv ==
  /\ occasion \in Occasions
  /\ packing = "gzip" => IsCbor(cbor)
  /\ \A m \in made : Shaped(m.packed)
  /\ bytes # Unset => Shaped(bytes)
  /\ unpacking # "idle" => bytes # Unset
  /\ unpacking = "gunzip" =>
       Shaped(given) /\ given.header \in IsGzip /\ payload = CutOut(given)
  /\ unpacked.tokens \in Seq(Item)
  /\ UnpackedAsOfTheCall

----------------------------------------------------------------------------
(* What is read out of a container                                         *)

\* The six headers.
LEMMA Headers ==
  /\ ContainerHeader("none", "bytes") = 64 /\ ContainerHeader("gzip", "bytes") = 77
  /\ ContainerHeader("none", "base64-std") = 66 /\ ContainerHeader("gzip", "base64-std") = 79
  /\ ContainerHeader("none", "base64-url") = 67 /\ ContainerHeader("gzip", "base64-url") = 80
BY DEF ContainerHeader

\* Extract refuses or returns the items.
LEMMA ExtractOk ==
  ASSUME NEW p
  PROVE  /\ Extract(p).ok <=> /\ p.layer = "cbor" /\ p.top = "map" /\ Own(p.keys) = {"ctn-v1"}
                              /\ p.below = "array"
                              /\ \A n \in DOMAIN p.items : p.items[n] # NotBytes
         /\ Extract(p).ok => Extract(p).tokens = p.items
BY DEF Extract

\* The content that Extract accepts is the one that containers hold.
LEMMA Accepted ==
  ASSUME NEW p, IsLayer(p), Extract(p).ok
  PROVE  /\ p \in Listings(p.items) /\ Extract(p).tokens = p.items
         /\ \A n \in DOMAIN p.items : p.items[n] # NotBytes
<1>1. p.layer = "cbor"
  BY ExtractOk
<1>2. p = Cbor(p.top, p.keys, p.below, p.items)
  BY <1>1 DEF IsLayer, Gzip, Base64, Garbage
<1>3. p.keys = {"ctn-v1"} \/ p.keys = {"ctn-v1"} \cup {"__proto__"}
  BY ExtractOk DEF Own
<1>4. p.top = "map" /\ p.below = "array"
  BY ExtractOk
<1>5. p \in Listings(p.items)
  BY <1>2, <1>3, <1>4 DEF Listings
<1> QED  BY <1>5, ExtractOk

\* A content that Extract refuses is not the one of tokens.
LEMMA NotAccepted ==
  ASSUME NEW p, ~Extract(p).ok, NEW tokens, p \in Listings(tokens)
  PROVE  ~\A n \in DOMAIN tokens : tokens[n] # NotBytes
<1>1. /\ p.layer = "cbor" /\ p.top = "map" /\ Own(p.keys) = {"ctn-v1"} /\ p.below = "array"
      /\ p.items = tokens
  BY DEF Listings, Cbor, Own
<1> QED  BY <1>1, ExtractOk

\* What a container holds, by its header.
LEMMA HoldsByHeader ==
  ASSUME NEW s, NEW tokens, Holds(s, tokens)
  PROVE  \E content \in Listings(tokens) :
         /\ s.header \in Known /\ \A n \in DOMAIN tokens : tokens[n] # NotBytes
         /\ s.header = 64 => s.payload = content
         /\ s.header = 77 => s.payload = Gzip(content)
         /\ s.header \in {66, 67} => \E a \in {"std", "url"} : s.payload = Base64(a, content)
         /\ s.header \in {79, 80} => \E a \in {"std", "url"} : s.payload = Base64(a, Gzip(content))
<1>1. PICK content \in Listings(tokens), compression \in Compression, encoding \in BaseEncoding, a \in {"std", "url"} :
        /\ \A n \in DOMAIN tokens : tokens[n] # NotBytes
        /\ s.header = ContainerHeader(compression, encoding)
        /\ s.payload = IF encoding = "bytes"
                       THEN IF compression = "gzip" THEN Gzip(content) ELSE content
                       ELSE Base64(a, IF compression = "gzip" THEN Gzip(content) ELSE content)
  BY DEF Holds
<1> SUFFICES
         /\ s.header \in Known
         /\ s.header = 64 => s.payload = content
         /\ s.header = 77 => s.payload = Gzip(content)
         /\ s.header \in {66, 67} => \E b \in {"std", "url"} : s.payload = Base64(b, content)
         /\ s.header \in {79, 80} => \E b \in {"std", "url"} : s.payload = Base64(b, Gzip(content))
  BY <1>1
<1>2. CASE encoding = "bytes"
  <2>1. CASE compression = "none"
    BY <1>1, <1>2, <2>1, Headers DEF Known
  <2>2. CASE compression = "gzip"
    BY <1>1, <1>2, <2>2, Headers DEF Known
  <2> QED  BY <2>1, <2>2 DEF Compression
<1>3. CASE encoding = "base64-std"
  <2>1. CASE compression = "none"
    BY <1>1, <1>3, <2>1, Headers DEF Known
  <2>2. CASE compression = "gzip"
    BY <1>1, <1>3, <2>2, Headers DEF Known
  <2> QED  BY <2>1, <2>2 DEF Compression
<1>4. CASE encoding = "base64-url"
  <2>1. CASE compression = "none"
    BY <1>1, <1>4, <2>1, Headers DEF Known
  <2>2. CASE compression = "gzip"
    BY <1>1, <1>4, <2>2, Headers DEF Known
  <2> QED  BY <2>1, <2>2 DEF Compression
<1> QED  BY <1>2, <1>3, <1>4 DEF BaseEncoding

\* The same from the other side.
LEMMA HeaderHolds ==
  ASSUME NEW s, NEW tokens, \A n \in DOMAIN tokens : tokens[n] # NotBytes,
         NEW content \in Listings(tokens),
           \/ s.header = 64 /\ s.payload = content
           \/ s.header = 77 /\ s.payload = Gzip(content)
           \/ s.header \in {66, 67} /\ \E a \in {"std", "url"} : s.payload = Base64(a, content)
           \/ s.header \in {79, 80} /\ \E a \in {"std", "url"} : s.payload = Base64(a, Gzip(content))
  PROVE  Holds(s, tokens)
<1> DEFINE Fits(c, e, a) ==
             /\ s.header = ContainerHeader(c, e)
             /\ s.payload = IF e = "bytes"
                            THEN IF c = "gzip" THEN Gzip(content) ELSE content
                            ELSE Base64(a, IF c = "gzip" THEN Gzip(content) ELSE content)
<1>1. SUFFICES \E c \in Compression, e \in BaseEncoding, a \in {"std", "url"} : Fits(c, e, a)
  BY DEF Holds
<1>2. "none" \in Compression /\ "gzip" \in Compression
  BY DEF Compression
<1>3. "bytes" \in BaseEncoding /\ "base64-std" \in BaseEncoding /\ "base64-url" \in BaseEncoding
  BY DEF BaseEncoding
<1>4. CASE s.header = 64 /\ s.payload = content
  <2>1. Fits("none", "bytes", "std")
    BY <1>4, Headers
  <2> HIDE DEF Fits
  <2> QED  BY <1>2, <1>3, <2>1
<1>5. CASE s.header = 77 /\ s.payload = Gzip(content)
  <2>1. Fits("gzip", "bytes", "std")
    BY <1>5, Headers
  <2> HIDE DEF Fits
  <2> QED  BY <1>2, <1>3, <2>1
<1>6. CASE s.header \in {66, 67} /\ \E a \in {"std", "url"} : s.payload = Base64(a, content)
  <2>1. \E a \in {"std", "url"} : Fits("none", "base64-std", a) \/ Fits("none", "base64-url", a)
    BY <1>6, Headers
  <2> HIDE DEF Fits
  <2> QED  BY <1>2, <1>3, <2>1
<1>7. CASE s.header \in {79, 80} /\ \E a \in {"std", "url"} : s.payload = Base64(a, Gzip(content))
  <2>1. \E a \in {"std", "url"} : Fits("gzip", "base64-std", a) \/ Fits("gzip", "base64-url", a)
    BY <1>7, Headers
  <2> HIDE DEF Fits
  <2> QED  BY <1>2, <1>3, <2>1
<1> QED  BY <1>4, <1>5, <1>6, <1>7

----------------------------------------------------------------------------
(* The outcome of a call                                                   *)

\* A header that is none of the six belongs to no container.
LEMMA RefusedRight ==
  ASSUME NEW s, s.header \notin Known
  PROVE  ReadRight(s, Refused)
BY HoldsByHeader DEF ReadRight, Refused

\* A container that is not compressed.
LEMMA ExtractRight ==
  ASSUME NEW s, Shaped(s), s.header \in Known \ IsGzip
  PROVE  ReadRight(s, Extract(CutOut(s)))
<1> DEFINE p == CutOut(s)
<1>1. s.header \in {64, 66, 67}
  BY DEF Known, IsGzip
<1>2. IsPayload(s.payload)
  BY DEF Shaped
<1>3. \/ s.header = 64 /\ p = s.payload
      \/ s.header \in {66, 67} /\ s.payload.layer = "base64" /\ p = s.payload.of
      \/ s.header \in {66, 67} /\ s.payload.layer # "base64" /\ p = Garbage
  BY <1>1 DEF CutOut, FromBase64, IsText
<1>4. IsLayer(p)
  BY <1>2, <1>3 DEF IsPayload, IsLayer, Wraps
<1>5. s.payload.layer = "base64" =>
        s.payload = Base64(s.payload.alphabet, s.payload.of) /\ s.payload.alphabet \in {"std", "url"}
  BY <1>2 DEF IsPayload, IsLayer, Cbor, Gzip, Garbage
<1> HIDE DEF p
<1>6. ASSUME Extract(p).ok  PROVE Holds(s, Extract(p).tokens)
  <2> DEFINE tokens == p.items
  <2>1. /\ p \in Listings(tokens) /\ Extract(p).tokens = tokens
        /\ \A n \in DOMAIN tokens : tokens[n] # NotBytes
    BY <1>4, <1>6, Accepted
  <2>2. p # Garbage
    BY <2>1 DEF Listings, Cbor, Garbage
  <2>3. \/ s.header = 64 /\ s.payload = p
        \/ s.header \in {66, 67} /\ \E a \in {"std", "url"} : s.payload = Base64(a, p)
    BY <1>3, <1>5, <2>1, <2>2
  <2> HIDE DEF tokens
  <2> QED  BY <2>1, <2>3, HeaderHolds
<1>7. ASSUME ~Extract(p).ok, NEW tokens, Holds(s, tokens)  PROVE FALSE
  <2>1. PICK content \in Listings(tokens) :
        /\ s.header = 64 => s.payload = content
        /\ s.header \in {66, 67} => \E a \in {"std", "url"} : s.payload = Base64(a, content)
        /\ \A n \in DOMAIN tokens : tokens[n] # NotBytes
    BY <1>7, HoldsByHeader
  <2>2. p = content
    BY <1>3, <2>1 DEF Base64
  <2> QED  BY <1>7, <2>1, <2>2, NotAccepted
<1> QED  BY <1>6, <1>7 DEF ReadRight, p

\* A container whose gzip stream is read as it was cut out.
LEMMA GunzipRight ==
  ASSUME NEW s, Shaped(s), s.header \in IsGzip
  PROVE  ReadRight(s, Gunzip(CutOut(s)))
<1> DEFINE p == CutOut(s)
<1>1. s.header \in {77, 79, 80}
  BY DEF IsGzip
<1>2. IsPayload(s.payload)
  BY DEF Shaped
<1>3. \/ s.header = 77 /\ p = s.payload
      \/ s.header \in {79, 80} /\ s.payload.layer = "base64" /\ p = s.payload.of
      \/ s.header \in {79, 80} /\ s.payload.layer # "base64" /\ p = Garbage
  BY <1>1 DEF CutOut, FromBase64, IsText
<1>4. IsLayer(p) /\ (p.layer = "gzip" => p = Gzip(p.of) /\ IsLayer(p.of))
  <2>1. IsLayer(p)
    BY <1>2, <1>3 DEF IsPayload, IsLayer, Wraps
  <2>2. p.layer = "gzip" => IsLayer(p.of)
    BY <1>2, <1>3 DEF IsPayload, Wraps, Garbage
  <2>3. p.layer = "gzip" => p = Gzip(p.of)
    BY <2>1 DEF IsLayer, Cbor, Base64, Garbage
  <2> QED  BY <2>1, <2>2, <2>3
<1>5. s.payload.layer = "base64" =>
        s.payload = Base64(s.payload.alphabet, s.payload.of) /\ s.payload.alphabet \in {"std", "url"}
  BY <1>2 DEF IsPayload, IsLayer, Cbor, Gzip, Garbage
<1> HIDE DEF p
<1>6. ASSUME p.layer = "gzip", Extract(p.of).ok  PROVE Holds(s, Extract(p.of).tokens)
  <2> DEFINE tokens == p.of.items
  <2>1. /\ p.of \in Listings(tokens) /\ Extract(p.of).tokens = tokens
        /\ \A n \in DOMAIN tokens : tokens[n] # NotBytes
    BY <1>4, <1>6, Accepted
  <2>2. p # Garbage
    BY <1>6 DEF Garbage
  <2>3. \/ s.header = 77 /\ s.payload = Gzip(p.of)
        \/ s.header \in {79, 80} /\ \E a \in {"std", "url"} : s.payload = Base64(a, Gzip(p.of))
    BY <1>3, <1>4, <1>5, <1>6, <2>1, <2>2
  <2> HIDE DEF tokens
  <2> QED  BY <2>1, <2>3, HeaderHolds
<1>7. ASSUME p.layer # "gzip" \/ ~Extract(p.of).ok, NEW tokens, Holds(s, tokens)  PROVE FALSE
  <2>1. PICK content \in Listings(tokens) :
        /\ s.header = 77 => s.payload = Gzip(content)
        /\ s.header \in {79, 80} => \E a \in {"std", "url"} : s.payload = Base64(a, Gzip(content))
        /\ \A n \in DOMAIN tokens : tokens[n] # NotBytes
    BY <1>7, HoldsByHeader
  <2>2. p = Gzip(content)
    BY <1>3, <2>1 DEF Base64
  <2>3. p.layer = "gzip" /\ p.of = content
    BY <2>2 DEF Gzip
  <2> QED  BY <1>7, <2>1, <2>3, NotAccepted
<1>8. Gunzip(p) = IF p.layer = "gzip" THEN Extract(p.of) ELSE Refused
  BY DEF Gunzip
<1> QED  BY <1>6, <1>7, <1>8 DEF ReadRight, Refused, p

----------------------------------------------------------------------------
(* The steps                                                               *)

\* What strangers send, or write over a buffer, is a header and a payload.
LEMMA Strangers ==
  ASSUME occasion \in Occasions, NEW s \in occasion.strangers \cup occasion.rewrites
  PROVE  Shaped(s)
BY ContainerAssumption DEF IsContainer, Shaped

\* So is a payload behind a header.
LEMMA Carried ==
  ASSUME NEW header, NEW p, IsPayload(p)
  PROVE  Shaped([header |-> header, payload |-> p])
BY DEF Shaped

\* Sorting neither adds nor drops a token.
LEMMA ArrangementKeeps ==
  ASSUME NEW S, NEW s \in Seq(S), NEW t \in Arrangements(s)
  PROVE  t \in Seq(S) /\ Len(t) = Len(s) /\ \A x : Occurrences(t, x) = Occurrences(s, x)
<1>1. PICK p \in [DOMAIN s -> DOMAIN s] :
        /\ \A m, n \in DOMAIN s : p[m] = p[n] => m = n
        /\ t = [n \in DOMAIN s |-> s[p[n]]]
  BY DEF Arrangements
<1>2. DOMAIN s = 1..Len(s) /\ IsFiniteSet(DOMAIN s)
  BY FS_Interval
<1>3. t \in Seq(S) /\ Len(t) = Len(s) /\ DOMAIN t = DOMAIN s
  BY <1>1, <1>2
<1>4. p \in Surjection(DOMAIN s, DOMAIN s)
  <2>1. p \in Injection(DOMAIN s, DOMAIN s)
    BY <1>1 DEF Injection, IsInjective
  <2> QED  BY <1>2, <2>1, FS_Injection
<1>5. ASSUME NEW x  PROVE Occurrences(t, x) = Occurrences(s, x)
  <2> DEFINE A == {n \in DOMAIN t : t[n] = x}
             B == {n \in DOMAIN s : s[n] = x}
             g == [n \in A |-> p[n]]
  <2>1. g \in [A -> B]
    BY <1>1, <1>3
  <2>2. \A m, n \in A : g[m] = g[n] => m = n
    BY <1>1, <1>3
  <2>3. \A k \in B : \E n \in A : g[n] = k
    <3> SUFFICES ASSUME NEW k \in B  PROVE \E n \in A : g[n] = k
      OBVIOUS
    <3>1. PICK n \in DOMAIN s : p[n] = k
      BY <1>4 DEF Surjection
    <3> QED  BY <1>1, <1>3, <3>1
  <2>4. IsFiniteSet(A)
    BY <1>2, <1>3, FS_Subset
  <2> HIDE DEF A, B, g
  <2>5. g \in Bijection(A, B)
    BY <2>1, <2>2, <2>3 DEF Bijection, Injection, Surjection, IsInjective
  <2>6. Cardinality(B) = Cardinality(A)
    BY <2>4, <2>5, FS_Bijection DEF ExistsBijection
  <2> QED  BY <2>6 DEF A, B, Occurrences
<1> QED  BY <1>3, <1>5

\* What containerToBytes makes of CBOR.
LEMMA PackedIsPayload ==
  ASSUME NEW content, IsCbor(content), NEW encoding \in BaseEncoding
  PROVE  IsPayload(InEncoding(encoding, content)) /\ IsPayload(InEncoding(encoding, Gzip(content)))
<1>1. content.layer = "cbor" /\ IsLayer(content)
  BY DEF IsCbor
<1>2. Gzip(content).layer = "gzip" /\ Gzip(content).of = content /\ IsLayer(Gzip(content))
  BY DEF Gzip, IsLayer
<1>3. IsPayload(content) /\ IsPayload(Gzip(content))
  BY <1>1, <1>2 DEF IsPayload, Wraps
<1>4. ASSUME NEW a \in {"std", "url"}, NEW p \in {content, Gzip(content)}
      PROVE  IsPayload(Base64(a, p))
  <2>1. /\ Base64(a, p).layer = "base64" /\ Base64(a, p).of = p /\ Base64(a, p).alphabet = a
        /\ IsLayer(Base64(a, p))
    BY DEF Base64, IsLayer
  <2>2. IsLayer(p) /\ (Wraps(p) => IsLayer(p.of))
    BY <1>1, <1>2 DEF Wraps
  <2> HIDE DEF IsLayer
  <2> QED  BY <2>1, <2>2 DEF IsPayload
<1> QED  BY <1>3, <1>4 DEF InEncoding, BaseEncoding

\* The tokens of a call, sorted, are a CBOR array.
LEMMA ContentIsCbor ==
  ASSUME NEW tokens \in Seq(Token), NEW sorted \in Arrangements(tokens)
  PROVE  IsCbor(Cbor("map", {"ctn-v1"}, "array", sorted))
<1> DEFINE p == Cbor("map", {"ctn-v1"}, "array", sorted)
<1>1. sorted \in Seq(Token)
  BY ArrangementKeeps
<1>2. Token \subseteq Item
  BY ContainerAssumption DEF Item
<1>3. sorted \in Seq(Item)
  BY <1>1, <1>2, SeqMonotonic, Zenon
<1>4. p.layer = "cbor" /\ p = Cbor(p.top, p.keys, p.below, p.items) /\ p.items = sorted
  BY DEF Cbor
<1> HIDE DEF p
<1>5. IsCbor(p)
  BY <1>3, <1>4 DEF IsCbor, IsLayer
<1> QED  BY <1>5 DEF p

\* The sender touches nothing the receiver has been given.
LEMMA PackStep ==
  ASSUME CInv, Pack \/ Gzipped \/ SenderMutates \/ UNCHANGED containerVars,
         job \in JobType, passed \in JobType
  PROVE  CInv'
<1>0. /\ job.encoding \in BaseEncoding /\ passed.encoding \in BaseEncoding
      /\ job.tokens \in Seq(Token)
  BY DEF JobType
<1>1. UNCHANGED <<occasion, transit, receiver>>
  BY DEF Pack, Gzipped, SenderMutates, containerVars
<1>2. UNCHANGED <<bytes, isBuffer, unpacking, given, payload, unpacked>>
  BY <1>1 DEF transit, receiver
<1>3. UnpackedAsOfTheCall'
  BY <1>2 DEF CInv, UnpackedAsOfTheCall, Exposed
<1>4. /\ occasion' \in Occasions /\ (bytes' # Unset => Shaped(bytes'))
      /\ unpacked'.tokens \in Seq(Item)
      /\ unpacking' # "idle" => bytes' # Unset
      /\ unpacking' = "gunzip" =>
           Shaped(given') /\ given'.header \in IsGzip /\ payload' = CutOut(given')
  BY <1>1, <1>2 DEF CInv
<1>5. /\ packing' = "gzip" => IsCbor(cbor')
      /\ \A m \in made' : Shaped(m.packed)
  <2>1. CASE Pack
    <3>1. PICK sorted \in Arrangements(job.tokens) : cbor' = Cbor("map", {"ctn-v1"}, "array", sorted)
      BY <2>1 DEF Pack
    <3>2. IsCbor(cbor')
      BY <1>0, <3>1, ContentIsCbor
    <3>3. ASSUME NEW m \in made' \ made  PROVE Shaped(m.packed)
      <4>1. m.packed = [header |-> ContainerHeader("none", job.encoding),
                        payload |-> InEncoding(job.encoding, cbor')]
        BY <2>1 DEF Pack, Resolve
      <4>2. IsPayload(InEncoding(job.encoding, cbor'))
        BY <1>0, <3>2, PackedIsPayload
      <4> QED  BY <4>1, <4>2, Carried
    <3> QED  BY <3>2, <3>3 DEF CInv
  <2>2. CASE Gzipped
    <3>1. cbor' = cbor /\ packing' = "idle" /\ packing = "gzip"
      BY <2>2 DEF Gzipped
    <3>2. ASSUME NEW m \in made' \ made  PROVE Shaped(m.packed)
      <4>1. m.packed = [header |-> ContainerHeader("gzip", passed.encoding),
                        payload |-> InEncoding(passed.encoding, Gzip(cbor))]
        BY <2>2 DEF Gzipped, Resolve
      <4>2. IsCbor(cbor)
        BY <3>1 DEF CInv
      <4>3. IsPayload(InEncoding(passed.encoding, Gzip(cbor)))
        BY <1>0, <4>2, PackedIsPayload
      <4> QED  BY <4>1, <4>3, Carried
    <3> QED  BY <3>1, <3>2 DEF CInv
  <2>3. CASE UNCHANGED <<packing, cbor, made>>
    BY <2>3 DEF CInv
  <2> QED  BY <2>1, <2>2, <2>3 DEF SenderMutates, containerVars, sender
<1> QED  BY <1>3, <1>4, <1>5 DEF CInv

\* The way to the receiver, and the receiver's changes, keep the invariant.
LEMMA TransitStep ==
  ASSUME CInv, Deliver \/ ReceiverMutates
  PROVE  CInv'
<1>1. UNCHANGED <<occasion, sender, receiver>>
  BY DEF Deliver, ReceiverMutates
<1>2. UNCHANGED <<packing, cbor, made, unpacking, given, payload, unpacked>>
  BY <1>1 DEF sender, receiver
<1>3. Shaped(bytes')
  <2>1. CASE Deliver
    <3>1. bytes' \in {m.packed : m \in made} \cup occasion.strangers
      BY <2>1 DEF Deliver
    <3> QED  BY <3>1, Strangers DEF CInv
  <2>2. CASE ReceiverMutates
    BY <2>2, Strangers DEF CInv, ReceiverMutates
  <2> QED  BY <2>1, <2>2
<1>4. /\ UNCHANGED isBuffer \/ unpacking = "idle"
      /\ unpacking # "idle" => bytes' # Unset
  BY ContainerAssumption DEF CInv, Deliver, ReceiverMutates, IsContainer
<1>5. UnpackedAsOfTheCall'
  BY <1>2, <1>4 DEF CInv, UnpackedAsOfTheCall, Exposed
<1> QED  BY <1>1, <1>2, <1>3, <1>4, <1>5 DEF CInv

\* What is cut out of a container is layers, and what is read is an array.
LEMMA ReadItems ==
  /\ \A p : IsLayer(p) => Extract(p).tokens \in Seq(Item)
  /\ \A s : Shaped(s) => LET p == CutOut(s) IN IsLayer(p) /\ (p.layer = "gzip" => IsLayer(p.of))
  /\ \A s : Shaped(s) => Extract(CutOut(s)).tokens \in Seq(Item)
<1>1. ASSUME NEW p, IsLayer(p)  PROVE Extract(p).tokens \in Seq(Item)
  <2>1. CASE Extract(p).ok
    <3>1. p.layer = "cbor" /\ Extract(p).tokens = p.items
      BY <2>1, ExtractOk
    <3>2. p.items \in Seq(Item)
      BY <1>1, <3>1 DEF IsLayer, Gzip, Base64, Garbage
    <3> QED  BY <3>1, <3>2
  <2>2. CASE ~Extract(p).ok
    <3>1. Extract(p).tokens = <<>>
      BY <2>2 DEF Extract
    <3> QED  BY <3>1
  <2> QED  BY <2>1, <2>2
<1>2. IsLayer(Garbage) /\ Garbage.layer # "gzip"
  BY DEF IsLayer, Garbage
<1>3. ASSUME NEW s, Shaped(s)
      PROVE  IsLayer(CutOut(s)) /\ (CutOut(s).layer = "gzip" => IsLayer(CutOut(s).of))
  <2> DEFINE p == s.payload
  <2>1. IsLayer(p) /\ (Wraps(p) => IsLayer(p.of) /\ (Wraps(p.of) => IsLayer(p.of.of)))
    BY <1>3 DEF Shaped, IsPayload
  <2>2. CutOut(s) \in {p, Garbage} \/ (p.layer = "base64" /\ CutOut(s) = p.of)
    BY DEF CutOut, FromBase64
  <2> HIDE DEF p
  <2> QED  BY <1>2, <2>1, <2>2 DEF Wraps
<1> QED  BY <1>1, <1>3

\* The call of containerFromBytes keeps it.
LEMMA UnpackStep ==
  ASSUME CInv, Unpack
  PROVE  CInv'
<1>1. /\ bytes # Unset /\ given' = bytes /\ Shaped(bytes)
      /\ UNCHANGED <<occasion, sender, transit>>
  BY DEF Unpack, CInv
<1>2. UNCHANGED <<packing, cbor, made, bytes, isBuffer>>
  BY <1>1 DEF sender, transit
<1>3. /\ unpacking' = "gunzip" => bytes.header \in IsGzip /\ payload' = CutOut(bytes)
      /\ unpacking' = "done" => ReadRight(bytes, unpacked')
      /\ unpacked'.tokens \in Seq(Item)
  <2>1. CASE bytes.header \notin Known /\ unpacking' = "done" /\ unpacked' = Refused
    BY <2>1, RefusedRight DEF Refused
  <2>2. CASE bytes.header \in Known \ IsGzip /\ unpacking' = "done"
             /\ unpacked' = Extract(CutOut(bytes))
    BY <1>1, <2>2, ExtractRight, ReadItems
  <2>3. CASE bytes.header \in IsGzip /\ unpacking' = "gunzip" /\ payload' = CutOut(bytes)
             /\ unpacked' = unpacked
    BY <2>3 DEF CInv
  <2> QED  BY <2>1, <2>2, <2>3 DEF Unpack
<1> QED  BY <1>1, <1>2, <1>3 DEF CInv, UnpackedAsOfTheCall

\* The return of the decompression keeps it.
LEMMA GunzippedStep ==
  ASSUME CInv, Gunzipped
  PROVE  CInv'
<1>1. /\ unpacking = "gunzip" /\ unpacking' = "done"
      /\ UNCHANGED <<occasion, sender, transit, given, payload>>
  BY DEF Gunzipped
<1>2. UNCHANGED <<packing, cbor, made, bytes, isBuffer>>
  BY <1>1 DEF sender, transit
<1>3. Shaped(given) /\ given.header \in IsGzip /\ payload = CutOut(given)
  BY <1>1 DEF CInv
<1>4. ~Exposed => ~IsView
  BY <1>3, Headers DEF Exposed, IsView, IsGzip, IsText
<1>5. ~IsView => unpacked' = Gunzip(payload)
  BY DEF Gunzipped
<1>6. ~Exposed => ReadRight(given, unpacked')
  BY <1>3, <1>4, <1>5, GunzipRight
<1>7. UnpackedAsOfTheCall'
  BY <1>1, <1>2, <1>6 DEF UnpackedAsOfTheCall, Exposed
<1>8. unpacked'.tokens \in Seq(Item)
  <2>1. PICK p \in {payload, bytes.payload, Garbage} : unpacked' = Gunzip(p)
    BY DEF Gunzipped
  <2>2. Shaped(bytes)
    BY <1>1 DEF CInv
  <2>3. IsLayer(payload) /\ (payload.layer = "gzip" => IsLayer(payload.of))
    BY <1>3, ReadItems
  <2>4. IsLayer(bytes.payload) /\ (bytes.payload.layer = "gzip" => IsLayer(bytes.payload.of))
    BY <2>2 DEF Shaped, IsPayload, Wraps
  <2>5. Garbage.layer # "gzip"
    BY DEF Garbage
  <2> QED  BY <2>1, <2>3, <2>4, <2>5, ReadItems DEF Gunzip, Refused
<1> QED  BY <1>1, <1>2, <1>7, <1>8 DEF CInv

\* Both parameters are the caller's.
LEMMA ParametersTyped == Spec => [](occasion \in Occasions /\ job \in JobType /\ passed \in JobType)
<1> DEFINE J == occasion \in Occasions /\ job \in occasion.jobs /\ passed \in occasion.jobs
<1>1. Init => J
  BY DEF Init, J
<1>2. J /\ [ContainerNext]_containerVars => J'
  BY DEF ContainerNext, containerVars, sender, Pack, Gzipped, SenderMutates, Deliver, Unpack,
     Gunzipped, ReceiverMutates
<1>3. J => occasion \in Occasions /\ job \in JobType /\ passed \in JobType
  BY ContainerAssumption
<1> QED  BY <1>1, <1>2, <1>3, PTL DEF Spec

\* The invariant holds of every call.
LEMMA CallsKeep == Spec => []CInv
<1>1. Init => CInv
  BY DEF Init, CInv, UnpackedAsOfTheCall, Refused
<1>2. CInv /\ job \in JobType /\ passed \in JobType /\ [ContainerNext]_containerVars => CInv'
  <2> SUFFICES ASSUME CInv, job \in JobType, passed \in JobType, [ContainerNext]_containerVars
               PROVE  CInv'
    OBVIOUS
  <2>1. CASE Pack \/ Gzipped \/ SenderMutates \/ UNCHANGED containerVars
    BY <2>1, PackStep
  <2>2. CASE Deliver \/ ReceiverMutates
    BY <2>2, TransitStep
  <2> QED  BY <2>1, <2>2, UnpackStep, GunzippedStep DEF ContainerNext
<1> QED  BY <1>1, <1>2, ParametersTyped, PTL DEF Spec

\* Whatever becomes of the bytes during a call, its outcome is right for the
\* bytes it was passed, unless they were a view and it was compressed.
THEOREM UnpacksAsPassed == Spec => []UnpackedAsOfTheCall
<1>1. CInv => UnpackedAsOfTheCall
  BY DEF CInv
<1> QED  BY <1>1, CallsKeep, PTL

----------------------------------------------------------------------------
(* The comparator                                                          *)

\* The least-number principle, for a set rather than for a predicate.
LEMMA LeastNumber ==
  ASSUME NEW T \in SUBSET Nat, T # {}
  PROVE  \E n \in T : \A m \in T : n <= m
<1>1. PICK n \in T : \A m \in T : <<m, n>> \notin OpToRel(<, Nat)
  BY NatLessThanWellFounded, WFMin
<1>2. ASSUME NEW m \in T, m < n  PROVE FALSE
  BY <1>1, <1>2 DEF OpToRel
<1> QED  BY <1>2

\* A token is a sequence of bytes.
IsBytes(t) == t \in Seq(Nat) /\ \A n \in 1..Len(t) : t[n] <= 255
\* Every token of the model is one.
LEMMA TokenIsBytes == \A t \in Token : IsBytes(t)
<1>1. 0..255 \subseteq Nat /\ \A d \in 0..255 : d <= 255
  OBVIOUS
<1>2. ASSUME NEW t \in Seq(0..255)  PROVE IsBytes(t)
  <2>1. t \in Seq(Nat)
    BY <1>1, SeqMonotonic, Zenon
  <2>2. \A n \in 1..Len(t) : t[n] \in 0..255
    BY ElementOfSeq, Zenon
  <2> QED  BY <1>1, <2>1, <2>2, Zenon DEF IsBytes
<1> QED  BY <1>2, ContainerAssumption

\* And induction over the numbers, for a set of them.
LEMMA SetInduction ==
  ASSUME NEW T, 0 \in T, \A n \in Nat : n \in T => n + 1 \in T
  PROVE  Nat \subseteq T
<1> SUFFICES ASSUME Nat \ T # {}  PROVE FALSE
  OBVIOUS
<1>1. PICK n \in Nat \ T : \A m \in Nat \ T : n <= m
  BY LeastNumber
<1>2. n # 0 /\ n - 1 \in Nat /\ n - 1 \in T
  BY <1>1
<1> QED  BY <1>2

\* Two byte strings that differ come one before the other.
LEMMA BeforeTotal ==
  ASSUME NEW a \in Seq(Nat), NEW b \in Seq(Nat), a # b
  PROVE  Before(a, b) \/ Before(b, a)
<1> DEFINE D == {n \in DOMAIN a \cap DOMAIN b : a[n] # b[n]}
<1>1. CASE D # {}
  <2>1. D \in SUBSET Nat
    OBVIOUS
  <2>2. PICK n \in D : \A m \in D : n <= m
    <3> HIDE DEF D
    <3> QED  BY <1>1, <2>1, LeastNumber
  <2>3. n \in DOMAIN a \cap DOMAIN b /\ a[n] \in Nat /\ b[n] \in Nat /\ a[n] # b[n]
    <3>1. n \in DOMAIN a \cap DOMAIN b /\ a[n] # b[n]
      <4>1. n \in D
        BY <2>2
      <4> QED  BY <4>1, Zenon
    <3> HIDE DEF D
    <3>2. a[n] \in Nat
      BY <3>1, ElementOfSeq
    <3>3. b[n] \in Nat
      BY <3>1, ElementOfSeq
    <3> QED  BY <3>1, <3>2, <3>3
  <2>4. ASSUME NEW m \in 1..n-1  PROVE a[m] = b[m]
    <3> HIDE DEF D
    <3>1. /\ DOMAIN a = 1..Len(a) /\ Len(a) \in Nat
          /\ DOMAIN b = 1..Len(b) /\ Len(b) \in Nat
      <4> HIDE <2>2, <2>3
      <4> QED  BY LenProperties
    <3>2. m \in Int /\ n \in Int /\ 1 <= m /\ m < n /\ n <= Len(a) /\ n <= Len(b)
      BY <2>3, <3>1
    <3>3. m \in 1..Len(a) /\ m \in 1..Len(b)
      BY <3>1, <3>2
    <3>4. m \in DOMAIN a \cap DOMAIN b
      BY <3>1, <3>3, Zenon
    <3>5. ~(n <= m)
      BY <3>2
    <3>6. m \notin D
      BY <2>2, <3>5, Zenon
    <3> QED  BY <3>4, <3>6, Zenon DEF D
  <2>5. a[n] < b[n] \/ b[n] < a[n]
    BY <2>3
  <2> QED  BY <2>3, <2>4, <2>5 DEF Before
<1>2. CASE D = {}
  <2>1. \A n \in DOMAIN a \cap DOMAIN b : a[n] = b[n]
    BY <1>2
  <2>2. Len(a) # Len(b)
    BY <2>1
  <2> QED  BY <2>1, <2>2 DEF Before
<1> QED  BY <1>1, <1>2

\* No byte string comes before itself.
LEMMA BeforeIrreflexive ==
  ASSUME NEW a \in Seq(Nat)
  PROVE  ~Before(a, a)
BY DEF Before

\* Where two sorted lists of the same tokens first differ, the smaller token
\* would be missing from the other list.
LEMMA FirstDifference ==
  ASSUME NEW s \in Seq(Token), NEW t \in Seq(Token), IsSorted(t), SameTokens(s, t),
         NEW n \in DOMAIN s, \A m \in 1..n-1 : s[m] = t[m], Before(s[n], t[n])
  PROVE  FALSE
<1> DEFINE x == s[n]
           A == {m \in DOMAIN s : s[m] = x}
           B == {m \in DOMAIN t : t[m] = x}
<1>1. /\ DOMAIN s = 1..Len(s) /\ DOMAIN t = DOMAIN s /\ n \in Nat /\ x \in Token
      /\ Cardinality(A) = Cardinality(B)
  BY DEF SameTokens, Occurrences
<1>2. ~Before(x, x)
  BY <1>1, BeforeIrreflexive, TokenIsBytes DEF IsBytes
<1>3. \A m \in DOMAIN t : m >= n => t[m] # x
  <2>1. t[n] # x
    BY <1>2
  <2>2. ASSUME NEW m \in DOMAIN t, m > n  PROVE t[m] # x
    BY <1>1, <2>2 DEF IsSorted
  <2> QED  BY <1>1, <2>1, <2>2
<1>4. B \subseteq A /\ n \in A /\ n \notin B
  BY <1>1, <1>3
<1>5. IsFiniteSet(A)
  <2>1. IsFiniteSet(1..Len(s)) /\ A \in SUBSET (1..Len(s))
    BY <1>1, FS_Interval
  <2> QED  BY <2>1, FS_Subset
<1> HIDE DEF A, B
<1> QED  BY <1>1, <1>4, <1>5, FS_Subset

\* The same tokens in bytewise order are the same list.
LEMMA SortedOnce ==
  ASSUME NEW s \in Seq(Token), NEW t \in Seq(Token), IsSorted(s), IsSorted(t), SameTokens(s, t)
  PROVE  s = t
<1> SUFFICES ASSUME s # t  PROVE FALSE
  OBVIOUS
<1> DEFINE D == {n \in DOMAIN s : s[n] # t[n]}
<1>1. DOMAIN s = 1..Len(s) /\ DOMAIN t = DOMAIN s
  BY DEF SameTokens
<1>2. D \in SUBSET Nat /\ D # {}
  BY <1>1
<1>3. PICK n \in D : \A m \in D : n <= m
  <2> HIDE DEF D
  <2> QED  BY <1>2, LeastNumber
<1>4. n \in DOMAIN s /\ n \in DOMAIN t /\ s[n] # t[n] /\ \A m \in 1..n-1 : s[m] = t[m]
  BY <1>1, <1>3
<1>5. s[n] \in Seq(Nat) /\ t[n] \in Seq(Nat)
  <2>1. s[n] \in Token /\ t[n] \in Token
    BY <1>4
  <2> QED  BY <2>1, TokenIsBytes DEF IsBytes
<1>6. SameTokens(t, s)
  BY DEF SameTokens
<1>7. CASE Before(s[n], t[n])
  BY <1>4, <1>7, FirstDifference
<1>8. CASE Before(t[n], s[n])
  BY <1>4, <1>6, <1>8, FirstDifference
<1> QED  BY <1>4, <1>5, <1>7, <1>8, BeforeTotal

----------------------------------------------------------------------------
(* Bytewise order, as numbers of one width                                 *)

\* The digit of t at position n, and the numbers of its prefixes.
Digit(t, n) == IF n <= Len(t) THEN t[n] + 1 ELSE 0
IsWeighing(w, t, width) ==
  w = [n \in 0..width |-> IF n = 0 THEN 0 ELSE w[n-1] * 257 + (IF n <= Len(t) THEN t[n] + 1 ELSE 0)]

\* A digit is less than the base.
LEMMA DigitRange ==
  ASSUME NEW t, IsBytes(t), NEW n \in Nat, n > 0
  PROVE  Digit(t, n) \in Nat /\ Digit(t, n) <= 256
<1>1. CASE n <= Len(t)
  <2>1. n \in 1..Len(t) /\ t[n] \in Nat /\ t[n] <= 255
    BY <1>1 DEF IsBytes
  <2> QED  BY <1>1, <2>1 DEF Digit
<1>2. CASE ~(n <= Len(t))
  BY <1>2 DEF Digit
<1> QED  BY <1>1, <1>2

\* There are such numbers, so Weight is one of them.
LEMMA WeighingExists ==
  ASSUME NEW t, NEW width \in Nat
  PROVE  \E w : IsWeighing(w, t, width)
<1> DEFINE T == {n \in Nat : \E w : IsWeighing(w, t, n)}
<1>1. 0 \in T
  <2>1. IsWeighing([n \in 0..0 |-> 0], t, 0)
    BY DEF IsWeighing
  <2> QED  BY <2>1
<1>2. ASSUME NEW n \in Nat, n \in T  PROVE n + 1 \in T
  <2>1. PICK w : IsWeighing(w, t, n)
    BY <1>2
  <2> DEFINE v == [m \in 0..n+1 |-> IF m = 0 THEN 0 ELSE w[m-1] * 257 + (IF m <= Len(t) THEN t[m] + 1 ELSE 0)]
  <2>2. \A m \in 0..n : v[m] = w[m]
    BY <2>1 DEF IsWeighing
  <2>3. \A m \in 0..n+1 : m # 0 => v[m-1] = w[m-1]
    <3>1. \A m \in 0..n+1 : m # 0 => m - 1 \in 0..n
      OBVIOUS
    <3> HIDE DEF v
    <3> QED  BY <2>2, <3>1
  <2>4. v = [m \in 0..n+1 |-> IF m = 0 THEN 0 ELSE v[m-1] * 257 + (IF m <= Len(t) THEN t[m] + 1 ELSE 0)]
    <3> DEFINE next(m, x) == IF m = 0 THEN 0 ELSE x * 257 + (IF m <= Len(t) THEN t[m] + 1 ELSE 0)
    <3>1. v = [m \in 0..n+1 |-> next(m, w[m-1])]
      OBVIOUS
    <3>2. \A m \in 0..n+1 : next(m, w[m-1]) = next(m, v[m-1])
      <4> HIDE DEF v
      <4> QED  BY <2>3
    <3> HIDE DEF v, next
    <3>3. v = [m \in 0..n+1 |-> next(m, v[m-1])]
      BY <3>1, <3>2, Zenon
    <3> QED  BY <3>3 DEF next
  <2> HIDE DEF v
  <2>5. IsWeighing(v, t, n + 1)
    BY <2>4 DEF IsWeighing
  <2> QED  BY <2>5
<1> HIDE DEF T
<1>3. width \in T
  BY <1>1, <1>2, SetInduction
<1> QED  BY <1>3 DEF T

\* w are the weights of the first digits of t.
Weighs(w, t, width) ==
  /\ w \in [0..width -> Nat]
  /\ w[0] = 0 /\ \A n \in 1..width : w[n] = w[n-1] * 257 + Digit(t, n)
  /\ Weight(t, width) = w[width]

\* Weight, digit by digit.
LEMMA WeightByDigits ==
  ASSUME NEW t, IsBytes(t), NEW width \in Nat
  PROVE  \E w : Weighs(w, t, width)
<1> DEFINE w == CHOOSE f : IsWeighing(f, t, width)
<1>1. IsWeighing(w, t, width)
  BY WeighingExists
<1>2. Weight(t, width) = w[width]
  BY DEF Weight, IsWeighing
<1> HIDE DEF w
<1>3. w[0] = 0 /\ \A n \in 1..width : w[n] = w[n-1] * 257 + Digit(t, n)
  BY <1>1 DEF IsWeighing, Digit
<1>4. \A n \in 1..width : Digit(t, n) \in Nat
  BY DigitRange
<1> DEFINE T == {n \in Nat : n \in 0..width => w[n] \in Nat}
<1>5. 0 \in T
  BY <1>3
<1>6. ASSUME NEW n \in Nat, n \in T  PROVE n + 1 \in T
  <2> SUFFICES ASSUME n + 1 \in 0..width  PROVE w[n+1] \in Nat
    OBVIOUS
  <2>1. w[n] \in Nat /\ w[n+1] = w[n] * 257 + Digit(t, n+1) /\ Digit(t, n+1) \in Nat
    BY <1>3, <1>4, <1>6
  <2> QED  BY <2>1
<1>7. Nat \subseteq T
  <2> HIDE DEF T
  <2> QED  BY <1>5, <1>6, SetInduction
<1>8. w \in [0..width -> Nat]
  <2>1. w = [n \in 0..width |-> w[n]]
    BY <1>1 DEF IsWeighing
  <2>2. \A n \in 0..width : w[n] \in Nat
    BY <1>7
  <2> QED  BY <2>1, <2>2
<1>9. Weighs(w, t, width)
  BY <1>2, <1>3, <1>8 DEF Weighs
<1> QED  BY <1>9

\* The first digit that differs decides between two numbers of one width.
LEMMA FirstDigitDecides ==
  ASSUME NEW a, IsBytes(a), NEW b, IsBytes(b), NEW width \in Nat,
         NEW k \in 1..width, Digit(a, k) < Digit(b, k),
         \A n \in 1..k-1 : Digit(a, n) = Digit(b, n)
  PROVE  Weight(a, width) <= Weight(b, width)
<1>8. PICK v : Weighs(v, a, width)
  BY WeightByDigits
<1>9. PICK w : Weighs(w, b, width)
  BY WeightByDigits
<1>1. /\ v \in [0..width -> Nat]
      /\ v[0] = 0 /\ \A n \in 1..width : v[n] = v[n-1] * 257 + Digit(a, n)
      /\ Weight(a, width) = v[width]
  BY <1>8 DEF Weighs
<1>2. /\ w \in [0..width -> Nat]
      /\ w[0] = 0 /\ \A n \in 1..width : w[n] = w[n-1] * 257 + Digit(b, n)
      /\ Weight(b, width) = w[width]
  BY <1>9 DEF Weighs
<1>3. \A n \in 1..width : /\ Digit(a, n) \in Nat /\ Digit(a, n) <= 256
                            /\ Digit(b, n) \in Nat /\ Digit(b, n) <= 256
  BY DigitRange
<1> DEFINE T == {n \in Nat : n \in 0..width => IF n < k THEN v[n] = w[n] ELSE v[n] + 1 <= w[n]}
<1>4. 0 \in T
  BY <1>1, <1>2
<1>5. ASSUME NEW n \in Nat, n \in T  PROVE n + 1 \in T
  <2> SUFFICES ASSUME n + 1 \in 0..width
               PROVE  IF n + 1 < k THEN v[n+1] = w[n+1] ELSE v[n+1] + 1 <= w[n+1]
    OBVIOUS
  <2>1. /\ v[n+1] = v[n] * 257 + Digit(a, n+1) /\ w[n+1] = w[n] * 257 + Digit(b, n+1)
        /\ v[n] \in Nat /\ w[n] \in Nat /\ Digit(a, n+1) \in Nat /\ Digit(b, n+1) \in Nat
        /\ Digit(a, n+1) <= 256 /\ IF n < k THEN v[n] = w[n] ELSE v[n] + 1 <= w[n]
    <3>1. n + 1 \in 1..width /\ n \in 0..width /\ (n + 1) - 1 = n
      OBVIOUS
    <3>2. v[n+1] = v[n] * 257 + Digit(a, n+1) /\ w[n+1] = w[n] * 257 + Digit(b, n+1)
      <4> HIDE DEF T
      <4>1. v[n+1] = v[n] * 257 + Digit(a, n+1)
        BY <1>1, <3>1
      <4>2. w[n+1] = w[n] * 257 + Digit(b, n+1)
        BY <1>2, <3>1
      <4> QED  BY <4>1, <4>2
    <3>3. IF n < k THEN v[n] = w[n] ELSE v[n] + 1 <= w[n]
      BY <1>5, <3>1
    <3>4. v[n] \in Nat /\ w[n] \in Nat
      <4> HIDE DEF T
      <4>1. v[n] \in Nat
        BY <1>1, <3>1
      <4>2. w[n] \in Nat
        BY <1>2, <3>1
      <4> QED  BY <4>1, <4>2
    <3>5. Digit(a, n+1) \in Nat /\ Digit(b, n+1) \in Nat /\ Digit(a, n+1) <= 256
      BY <1>3, <3>1
    <3> HIDE DEF T
    <3> QED  BY <3>2, <3>3, <3>4, <3>5, Zenon
  <2> DEFINE x == v[n]  d == Digit(a, n+1)  xx == v[n+1]
             y == w[n]  e == Digit(b, n+1)  yy == w[n+1]
  <2>2. /\ x \in Nat /\ y \in Nat /\ d \in Nat /\ e \in Nat /\ d <= 256
        /\ xx = x * 257 + d /\ yy = y * 257 + e
    BY <2>1
  <2>3. x + 1 <= y \/ (x = y /\ d < e) => xx + 1 <= yy
    <3> HIDE DEF x, y, d, e, xx, yy
    <3> QED  BY <2>2
  <2>4. CASE n + 1 < k
    BY <2>1, <2>4
  <2>5. CASE n + 1 = k
    <3>1. n < k /\ ~(n + 1 < k)
      BY <2>5
    <3>2. v[n] = w[n] /\ Digit(a, n+1) < Digit(b, n+1)
      BY <2>1, <2>5, <3>1, Zenon
    <3>3. v[n+1] + 1 <= w[n+1]
      BY <2>3, <3>2, Zenon
    <3> QED  BY <3>1, <3>3, Zenon
  <2>6. CASE n + 1 > k
    <3>1. ~(n < k) /\ ~(n + 1 < k)
      BY <2>6
    <3>2. v[n] + 1 <= w[n]
      BY <2>1, <3>1
    <3>3. v[n+1] + 1 <= w[n+1]
      BY <2>3, <3>2, Zenon
    <3> QED  BY <3>1, <3>3, Zenon
  <2> QED  BY <2>4, <2>5, <2>6
<1>6. width \in T
  <2> HIDE DEF T
  <2> QED  BY <1>4, <1>5, SetInduction
<1> QED  BY <1>1, <1>2, <1>6

\* A token that comes before another weighs no more.
LEMMA BeforeWeighsLess ==
  ASSUME NEW a, IsBytes(a), NEW b, IsBytes(b), Before(a, b)
  PROVE  Weight(a, Len(a) + Len(b)) <= Weight(b, Len(a) + Len(b))
<1>1. /\ Len(a) \in Nat /\ Len(b) \in Nat /\ DOMAIN a = 1..Len(a) /\ DOMAIN b = 1..Len(b)
      /\ \A n \in 1..Len(a) : a[n] \in Nat
      /\ \A n \in 1..Len(b) : b[n] \in Nat
  BY DEF IsBytes
<1>2. CASE \E n \in DOMAIN a \cap DOMAIN b : a[n] < b[n] /\ \A m \in 1..n-1 : a[m] = b[m]
  <2>1. PICK n \in DOMAIN a \cap DOMAIN b : a[n] < b[n] /\ \A m \in 1..n-1 : a[m] = b[m]
    BY <1>2
  <2>2. Digit(a, n) < Digit(b, n) /\ \A m \in 1..n-1 : Digit(a, m) = Digit(b, m)
    <3>1. n <= Len(a) /\ n <= Len(b) /\ \A m \in 1..n-1 : m <= Len(a) /\ m <= Len(b)
      BY <1>1, <2>1
    <3>2. a[n] + 1 < b[n] + 1
      BY <1>1, <2>1
    <3> QED  BY <2>1, <3>1, <3>2 DEF Digit
  <2> QED  BY <1>1, <2>1, <2>2, FirstDigitDecides
<1>3. CASE Len(a) < Len(b) /\ \A m \in DOMAIN a : a[m] = b[m]
  <2> DEFINE n == Len(a) + 1
  <2>1. /\ n \in 1..Len(a) + Len(b) /\ Digit(a, n) < Digit(b, n)
        /\ \A m \in 1..n-1 : Digit(a, m) = Digit(b, m)
    <3>1. n \in 1..Len(a) + Len(b) /\ ~(n <= Len(a)) /\ n <= Len(b) /\ 0 < b[n] + 1
      BY <1>1, <1>3
    <3>2. \A m \in 1..n-1 : m <= Len(a) /\ m <= Len(b) /\ a[m] = b[m]
      BY <1>1, <1>3
    <3> HIDE DEF n
    <3> QED  BY <3>1, <3>2 DEF Digit
  <2> HIDE DEF n
  <2> QED  BY <1>1, <2>1, FirstDigitDecides
<1> QED  BY <1>2, <1>3 DEF Before

\* What the comparator sorts is in bytewise order.
LEMMA SortedIsBytewise ==
  ASSUME NEW s \in Seq(Token), IsSorted(s)
  PROVE  Bytewise(s)
<1> SUFFICES ASSUME NEW n \in 1..Len(s) - 1
             PROVE  LET width == Len(s[n]) + Len(s[n+1])
                    IN  Weight(s[n], width) <= Weight(s[n+1], width)
  BY DEF Bytewise
<1> DEFINE a == s[n]  b == s[n+1]  width == Len(a) + Len(b)
<1>1. n \in DOMAIN s /\ n + 1 \in DOMAIN s /\ n < n + 1 /\ a \in Token /\ b \in Token
  OBVIOUS
<1>2. IsBytes(a) /\ IsBytes(b) /\ a \in Seq(Nat) /\ b \in Seq(Nat)
  BY <1>1, TokenIsBytes DEF IsBytes
<1>3. ~Before(b, a)
  BY <1>1 DEF IsSorted
<1> SUFFICES Weight(a, width) <= Weight(b, width)
  OBVIOUS
<1> HIDE DEF a, b
<1>4. CASE a = b
  <2>1. width \in Nat
    BY <1>2, LenProperties
  <2>2. IsBytes(a)
    BY <1>2
  <2> HIDE DEF width
  <2>3. PICK w : Weighs(w, a, width)
    BY <2>1, <2>2, WeightByDigits
  <2>4. Weight(a, width) \in Nat
    BY <2>1, <2>3 DEF Weighs
  <2> QED  BY <1>4, <2>4
<1>5. CASE a # b
  BY <1>2, <1>3, <1>5, BeforeTotal, BeforeWeighsLess
<1> QED  BY <1>4, <1>5

----------------------------------------------------------------------------
(* What the calls of containerToBytes made                                 *)

Content(tokens) == Cbor("map", {"ctn-v1"}, "array", tokens)
Pressed(compression, tokens) ==
  IF compression = "gzip" THEN Gzip(Content(tokens)) ELSE Content(tokens)

\* p is the container of sorted in the format of the parameters j.
IsPackedAs(p, j, sorted) ==
  p = [header |-> ContainerHeader(j.compression, j.encoding),
       payload |-> InEncoding(j.encoding, Pressed(j.compression, sorted))]

\* A sorted list of the tokens that were passed.
Sortings(tokens) == {sorted \in Arrangements(tokens) : IsSorted(sorted)}

\* A call packs what it was passed when it began, sorted; and while gzip runs
\* it holds the CBOR of that.
PInv ==
  /\ packing \in {"idle", "gzip"}
  /\ packing = "gzip" =>
       /\ passed.compression = "gzip"
       /\ \E sorted \in Sortings(passed.tokens) : cbor = Content(sorted)
  /\ \A m \in made :
       /\ m.passed \in JobType
       /\ \E sorted \in Sortings(m.passed.tokens) : IsPackedAs(m.packed, m.passed, sorted)

\* Before it runs gzip, or to the end.
LEMMA PackMakes ==
  ASSUME PInv, Pack, job \in JobType
  PROVE  PInv'
<1>1. /\ packing = "idle" /\ passed' = job
      /\ \/ job.compression = "gzip" /\ packing' = "gzip" /\ made' = made
         \/ /\ job.compression = "none" /\ packing' = "idle"
            /\ made' = made \cup {[passed |-> job,
                 packed |-> [header |-> ContainerHeader("none", job.encoding),
                             payload |-> InEncoding(job.encoding, cbor')]]}
  BY DEF Pack, Resolve
<1>2. PICK sorted \in Sortings(job.tokens) : cbor' = Content(sorted)
  BY DEF Pack, Sortings, Content
<1>3. CASE job.compression = "gzip" /\ packing' = "gzip" /\ made' = made
  BY <1>1, <1>2, <1>3 DEF PInv
<1>4. CASE /\ job.compression = "none" /\ packing' = "idle"
           /\ made' = made \cup {[passed |-> job,
                packed |-> [header |-> ContainerHeader("none", job.encoding),
                            payload |-> InEncoding(job.encoding, cbor')]]}
  <2> DEFINE p == [header |-> ContainerHeader("none", job.encoding),
                   payload |-> InEncoding(job.encoding, cbor')]
  <2>1. IsPackedAs(p, job, sorted)
    BY <1>2, <1>4 DEF IsPackedAs, Pressed
  <2> HIDE DEF p
  <2>2. ASSUME NEW m \in made' \ made
        PROVE  m.passed \in JobType /\ IsPackedAs(m.packed, m.passed, sorted)
                 /\ m.passed.tokens = job.tokens
    BY <1>4, <2>1, <2>2 DEF p
  <2> QED  BY <1>2, <1>4, <2>2 DEF PInv
<1> QED  BY <1>1, <1>3, <1>4

\* What gzip made is put in the format the call was passed.
LEMMA GzippedMakes ==
  ASSUME PInv, Gzipped, passed \in JobType
  PROVE  PInv'
<1> DEFINE p == [header |-> ContainerHeader("gzip", passed.encoding),
                 payload |-> InEncoding(passed.encoding, Gzip(cbor))]
<1>1. /\ packing = "gzip" /\ packing' = "idle" /\ passed' = passed /\ cbor' = cbor
      /\ made' = made \cup {[passed |-> passed, packed |-> p]}
  BY DEF Gzipped, Resolve
<1>2. PICK sorted \in Sortings(passed.tokens) : cbor = Content(sorted)
  BY <1>1 DEF PInv
<1>3. passed.compression = "gzip"
  BY <1>1 DEF PInv
<1>4. IsPackedAs(p, passed, sorted)
  BY <1>2, <1>3 DEF IsPackedAs, Pressed
<1> HIDE DEF p
<1>5. ASSUME NEW m \in made' \ made
      PROVE  /\ m.passed \in JobType /\ IsPackedAs(m.packed, m.passed, sorted)
             /\ m.passed.tokens = passed.tokens
  BY <1>1, <1>4, <1>5
<1> QED  BY <1>1, <1>2, <1>5 DEF PInv

\* No other step touches what a call holds or has made.
LEMMA OthersMakeNothing ==
  ASSUME PInv, SenderMutates \/ Deliver \/ Unpack \/ Gunzipped \/ ReceiverMutates
               \/ UNCHANGED containerVars
  PROVE  PInv'
<1>1. UNCHANGED <<packing, passed, cbor, made>>
  BY DEF SenderMutates, Deliver, Unpack, Gunzipped, ReceiverMutates, containerVars, sender
<1> QED  BY <1>1 DEF PInv

\* Every container made is that of its call's tokens, sorted.
LEMMA MadeAsPassed == Spec => []PInv
<1>1. Init => PInv
  BY DEF Init, PInv
<1>2. PInv /\ job \in JobType /\ passed \in JobType /\ [ContainerNext]_containerVars => PInv'
  BY PackMakes, GzippedMakes, OthersMakeNothing DEF ContainerNext
<1> QED  BY <1>1, <1>2, ParametersTyped, PTL DEF Spec

----------------------------------------------------------------------------
(* One container per parcel                                                *)

\* The header tells the format.
LEMMA HeaderTellsFormat ==
  ASSUME NEW c \in Compression, NEW e \in BaseEncoding, NEW d \in Compression, NEW f \in BaseEncoding,
         ContainerHeader(c, e) = ContainerHeader(d, f)
  PROVE  c = d /\ e = f
<1>1. c \in {"none", "gzip"} /\ d \in {"none", "gzip"}
  BY DEF Compression
<1>2. e \in {"bytes", "base64-std", "base64-url"} /\ f \in {"bytes", "base64-std", "base64-url"}
  BY DEF BaseEncoding
<1> QED  BY <1>1, <1>2, Headers

\* Compression and encoding lose nothing.
LEMMA FormatKeepsTokens ==
  ASSUME NEW c, NEW e \in BaseEncoding, NEW s, NEW t,
         InEncoding(e, Pressed(c, s)) = InEncoding(e, Pressed(c, t))
  PROVE  s = t
<1>1. Content(s).items = s /\ Content(t).items = t
  BY DEF Content, Cbor
<1>2. Pressed(c, s) = Pressed(c, t)
  <2>1. \A a, p : Base64(a, p).of = p
    BY DEF Base64
  <2> QED  BY <2>1 DEF InEncoding, BaseEncoding
<1>3. \A p : Gzip(p).of = p
  BY DEF Gzip
<1>4. Content(s) = Content(t)
  BY <1>2, <1>3 DEF Pressed
<1> QED  BY <1>1, <1>4

\* What sorting keeps, and that it does not depend on the order passed.
LEMMA SortingKeeps ==
  ASSUME NEW s \in Seq(Token), NEW sorted \in Sortings(s)
  PROVE  sorted \in Seq(Token) /\ IsSorted(sorted) /\ SameTokens(sorted, s)
BY ArrangementKeeps DEF Sortings, SameTokens

\* Two arrays have a sorting in common exactly when they hold the same tokens.
LEMMA SortingsAgree ==
  ASSUME NEW s \in Seq(Token), NEW t \in Seq(Token), NEW a \in Sortings(s), NEW b \in Sortings(t)
  PROVE  a = b <=> SameTokens(s, t)
<1>1. /\ a \in Seq(Token) /\ IsSorted(a) /\ SameTokens(a, s)
      /\ b \in Seq(Token) /\ IsSorted(b) /\ SameTokens(b, t)
  BY SortingKeeps
<1>2. SameTokens(s, t) <=> SameTokens(a, b)
  BY <1>1 DEF SameTokens
<1>3. SameTokens(a, a)
  BY DEF SameTokens
<1> QED  BY <1>1, <1>2, <1>3, SortedOnce

\* Two calls make the same container exactly when they were passed the same
\* tokens, in whatever order, and the same format.
THEOREM OneContainer == Spec => []OneContainerPerParcel
<1>1. PInv => OneContainerPerParcel
  <2> SUFFICES ASSUME PInv, NEW m \in made, NEW n \in made
               PROVE  m.packed = n.packed <=>
                        /\ SameTokens(m.passed.tokens, n.passed.tokens)
                        /\ m.passed.compression = n.passed.compression
                        /\ m.passed.encoding = n.passed.encoding
    BY DEF OneContainerPerParcel
  <2> DEFINE j == m.passed  k == n.passed
  <2>1. /\ j.tokens \in Seq(Token) /\ j.compression \in Compression /\ j.encoding \in BaseEncoding
        /\ k.tokens \in Seq(Token) /\ k.compression \in Compression /\ k.encoding \in BaseEncoding
    BY DEF PInv, JobType
  <2>2. PICK a \in Sortings(j.tokens) : IsPackedAs(m.packed, j, a)
    BY DEF PInv
  <2>3. PICK b \in Sortings(k.tokens) : IsPackedAs(n.packed, k, b)
    BY DEF PInv
  <2>4. a = b <=> SameTokens(j.tokens, k.tokens)
    BY <2>1, SortingsAgree
  <2> HIDE DEF j, k
  <2>5. ASSUME m.packed = n.packed
        PROVE  j.compression = k.compression /\ j.encoding = k.encoding /\ a = b
    <3>1. /\ m.packed.header = ContainerHeader(j.compression, j.encoding)
          /\ m.packed.payload = InEncoding(j.encoding, Pressed(j.compression, a))
          /\ n.packed.header = ContainerHeader(k.compression, k.encoding)
          /\ n.packed.payload = InEncoding(k.encoding, Pressed(k.compression, b))
      BY <2>2, <2>3 DEF IsPackedAs
    <3>2. j.compression = k.compression /\ j.encoding = k.encoding
      BY <2>1, <2>5, <3>1, HeaderTellsFormat
    <3> QED  BY <2>1, <2>5, <3>1, <3>2, FormatKeepsTokens
  <2>6. ASSUME j.compression = k.compression, j.encoding = k.encoding, a = b
        PROVE  m.packed = n.packed
    BY <2>2, <2>3, <2>6 DEF IsPackedAs
  <2> QED  BY <2>4, <2>5, <2>6 DEF j, k
<1> QED  BY <1>1, MadeAsPassed, PTL

----------------------------------------------------------------------------
(* What was packed arrives                                                 *)

\* A container made is one that holds its sorted tokens.
LEMMA MadeHolds ==
  ASSUME NEW j \in JobType, NEW sorted \in Seq(Token), NEW p, IsPackedAs(p, j, sorted)
  PROVE  Holds(p, sorted)
<1>1. \A n \in DOMAIN sorted : sorted[n] # NotBytes
  BY ContainerAssumption
<1>2. j.compression \in Compression /\ j.encoding \in BaseEncoding
  BY DEF JobType
<1> DEFINE content == Content(sorted)
<1>3. /\ p.header = ContainerHeader(j.compression, j.encoding)
      /\ p.payload = InEncoding(j.encoding, IF j.compression = "gzip" THEN Gzip(content) ELSE content)
  BY DEF IsPackedAs, Pressed
<1> HIDE DEF content
<1>5. content \in Listings(sorted)
  BY DEF content, Content, Listings
<1>4. \/ p.header = 64 /\ p.payload = content
      \/ p.header = 77 /\ p.payload = Gzip(content)
      \/ p.header \in {66, 67} /\ \E a \in {"std", "url"} : p.payload = Base64(a, content)
      \/ p.header \in {79, 80} /\ \E a \in {"std", "url"} : p.payload = Base64(a, Gzip(content))
  <2>1. CASE j.encoding = "bytes"
    BY <1>2, <1>3, <2>1, Headers DEF InEncoding, Compression
  <2>2. CASE j.encoding = "base64-std"
    BY <1>2, <1>3, <2>2, Headers DEF InEncoding, Compression
  <2>3. CASE j.encoding = "base64-url"
    BY <1>2, <1>3, <2>3, Headers DEF InEncoding, Compression
  <2> QED  BY <1>2, <2>1, <2>2, <2>3 DEF BaseEncoding
<1> QED  BY <1>1, <1>4, <1>5, HeaderHolds

\* In a container that holds tokens they are innermost.
LEMMA InnermostHolds ==
  ASSUME NEW p, NEW tokens, Holds(p, tokens)
  PROVE  /\ Innermost(p.payload).layer = "cbor"
         /\ Innermost(p.payload).items = tokens
<1>2. PICK content \in Listings(tokens) :
      \/ p.payload = content \/ p.payload = Gzip(content)
      \/ \E a : p.payload = Base64(a, content) \/ p.payload = Base64(a, Gzip(content))
  BY HoldsByHeader DEF Known
<1>1. content.layer = "cbor" /\ content.items = tokens
  BY DEF Listings, Cbor
<1>3. \A a, q : Base64(a, q).of = q /\ Base64(a, q).layer = "base64"
  BY DEF Base64
<1>4. \A q : Gzip(q).of = q /\ Gzip(q).layer = "gzip"
  BY DEF Gzip
<1>5. Innermost(p.payload) = content
  BY <1>1, <1>2, <1>3, <1>4 DEF Innermost, Wraps
<1> QED  BY <1>1, <1>5

\* So it holds no others.
LEMMA HoldsOne ==
  ASSUME NEW p, NEW s, NEW t, Holds(p, s), Holds(p, t)
  PROVE  s = t
BY InnermostHolds

\* So what was packed is what is unpacked, sorted.
LEMMA MadeUnpacks ==
  ASSUME PInv, UnpackedAsOfTheCall, unpacking = "done", ~Exposed, NEW m \in made, given = m.packed
  PROVE  /\ unpacked.ok /\ m.passed.tokens \in Seq(Token) /\ unpacked.tokens \in Seq(Token)
         /\ IsSorted(unpacked.tokens) /\ SameTokens(unpacked.tokens, m.passed.tokens)
<1>1. PICK sorted \in Sortings(m.passed.tokens) : IsPackedAs(given, m.passed, sorted)
  BY DEF PInv
<1>2. m.passed \in JobType /\ m.passed.tokens \in Seq(Token)
  BY DEF PInv, JobType
<1>3. sorted \in Seq(Token) /\ IsSorted(sorted) /\ SameTokens(sorted, m.passed.tokens)
  BY <1>2, SortingKeeps
<1>4. Holds(given, sorted)
  BY <1>1, <1>2, <1>3, MadeHolds
<1>5. unpacked.ok
  <2>1. /\ Innermost(given.payload).layer = "cbor"
        /\ Innermost(given.payload).items = sorted
    BY <1>4, InnermostHolds
  <2> QED  BY <1>4, <2>1 DEF UnpackedAsOfTheCall, ReadRight
<1>6. unpacked.tokens = sorted
  BY <1>4, <1>5, HoldsOne DEF UnpackedAsOfTheCall, ReadRight
<1> QED  BY <1>2, <1>3, <1>5, <1>6

\* A container that one call made another unpacks, whatever became of the
\* caller's bytes meanwhile, unless they were a view and compressed: every token
\* as often as it was passed, in bytewise order.
THEOREM PackedArrives == Spec => []ParcelArrives
<1>1. PInv /\ UnpackedAsOfTheCall => ParcelArrives
  BY MadeUnpacks, SortedIsBytewise DEF ParcelArrives
<1> QED  BY <1>1, MadeAsPassed, UnpacksAsPassed, PTL

----------------------------------------------------------------------------
(* Values on their way, as trees: the forms that are folds over them       *)

ToWire   == INSTANCE IpldProofs WITH Node <- WireNode
FromWire == INSTANCE IpldProofs WITH Node <- ValueNode
Holder   == INSTANCE IpldProofs WITH Node <- HeldNode
Plainer  == INSTANCE IpldProofs WITH Node <- IpldNode
Promoter == INSTANCE IpldProofs WITH Node <- PromisedNode
Tagger   == INSTANCE IpldProofs WITH Node <- TaggedNode
Untagger == INSTANCE IpldProofs WITH Node <- UntaggedNode

\* The parts of v and their parts.
Near(v) == Parts(v) \cup PartsOf(Parts(v))

\* v is a tree, and takes fewer than n steps to its end.
Tree(v) == ToWire!IsTree(v)
LowTree(v, n) == ToWire!Low(v, n)

\* The instances agree on trees.
LEMMA SameTrees ==
  /\ \A v : /\ FromWire!IsTree(v) = Tree(v)
           /\ Holder!IsTree(v) = Tree(v)
           /\ Plainer!IsTree(v) = Tree(v)
           /\ Promoter!IsTree(v) = Tree(v)
           /\ Tagger!IsTree(v) = Tree(v)
           /\ Untagger!IsTree(v) = Tree(v)
  /\ \A v : /\ ToWire!Near(v) = Near(v)
           /\ FromWire!Near(v) = Near(v)
           /\ Holder!Near(v) = Near(v)
           /\ Plainer!Near(v) = Near(v)
           /\ Promoter!Near(v) = Near(v)
           /\ Tagger!Near(v) = Near(v)
           /\ Untagger!Near(v) = Near(v)
  /\ \A v : ToWire!Parts(v) = Parts(v) /\ ToWire!Within(v) = Within(v)
<1>1. \A v : FromWire!IsTree(v) = Tree(v)
  <2>1. \A v, n : FromWire!Low(v, n) = ToWire!Low(v, n)
    BY Zenon DEF ToWire!Low, ToWire!Level, ToWire!IsLevels, ToWire!PartsOf, ToWire!Parts,
                 FromWire!Low, FromWire!Level, FromWire!IsLevels, FromWire!PartsOf, FromWire!Parts
  <2> QED  BY <2>1 DEF Tree, ToWire!IsTree, FromWire!IsTree
<1>2. \A v : Holder!IsTree(v) = Tree(v)
  <2>1. \A v, n : Holder!Low(v, n) = ToWire!Low(v, n)
    BY Zenon DEF ToWire!Low, ToWire!Level, ToWire!IsLevels, ToWire!PartsOf, ToWire!Parts,
                 Holder!Low, Holder!Level, Holder!IsLevels, Holder!PartsOf, Holder!Parts
  <2> QED  BY <2>1 DEF Tree, ToWire!IsTree, Holder!IsTree
<1>3. \A v : Plainer!IsTree(v) = Tree(v)
  <2>1. \A v, n : Plainer!Low(v, n) = ToWire!Low(v, n)
    BY Zenon DEF ToWire!Low, ToWire!Level, ToWire!IsLevels, ToWire!PartsOf, ToWire!Parts,
                 Plainer!Low, Plainer!Level, Plainer!IsLevels, Plainer!PartsOf, Plainer!Parts
  <2> QED  BY <2>1 DEF Tree, ToWire!IsTree, Plainer!IsTree
<1>4. \A v : Promoter!IsTree(v) = Tree(v)
  <2>1. \A v, n : Promoter!Low(v, n) = ToWire!Low(v, n)
    BY Zenon DEF ToWire!Low, ToWire!Level, ToWire!IsLevels, ToWire!PartsOf, ToWire!Parts,
                 Promoter!Low, Promoter!Level, Promoter!IsLevels, Promoter!PartsOf, Promoter!Parts
  <2> QED  BY <2>1 DEF Tree, ToWire!IsTree, Promoter!IsTree
<1>5. \A v : Tagger!IsTree(v) = Tree(v)
  <2>1. \A v, n : Tagger!Low(v, n) = ToWire!Low(v, n)
    BY Zenon DEF ToWire!Low, ToWire!Level, ToWire!IsLevels, ToWire!PartsOf, ToWire!Parts,
                 Tagger!Low, Tagger!Level, Tagger!IsLevels, Tagger!PartsOf, Tagger!Parts
  <2> QED  BY <2>1 DEF Tree, ToWire!IsTree, Tagger!IsTree
<1>6. \A v : Untagger!IsTree(v) = Tree(v)
  <2>1. \A v, n : Untagger!Low(v, n) = ToWire!Low(v, n)
    BY Zenon DEF ToWire!Low, ToWire!Level, ToWire!IsLevels, ToWire!PartsOf, ToWire!Parts,
                 Untagger!Low, Untagger!Level, Untagger!IsLevels, Untagger!PartsOf, Untagger!Parts
  <2> QED  BY <2>1 DEF Tree, ToWire!IsTree, Untagger!IsTree
<1>7. \A v : ToWire!Near(v) = Near(v)
  BY Zenon DEF Near, PartsOf, Parts, ToWire!Near, ToWire!PartsOf, ToWire!Parts
<1>8. \A v : FromWire!Near(v) = Near(v)
  BY Zenon DEF Near, PartsOf, Parts, FromWire!Near, FromWire!PartsOf, FromWire!Parts
<1>9. \A v : Holder!Near(v) = Near(v)
  BY Zenon DEF Near, PartsOf, Parts, Holder!Near, Holder!PartsOf, Holder!Parts
<1>10. \A v : Plainer!Near(v) = Near(v)
  BY Zenon DEF Near, PartsOf, Parts, Plainer!Near, Plainer!PartsOf, Plainer!Parts
<1>11. \A v : Promoter!Near(v) = Near(v)
  BY Zenon DEF Near, PartsOf, Parts, Promoter!Near, Promoter!PartsOf, Promoter!Parts
<1>12. \A v : Tagger!Near(v) = Near(v)
  BY Zenon DEF Near, PartsOf, Parts, Tagger!Near, Tagger!PartsOf, Tagger!Parts
<1>13. \A v : Untagger!Near(v) = Near(v)
  BY Zenon DEF Near, PartsOf, Parts, Untagger!Near, Untagger!PartsOf, Untagger!Parts
<1>14. \A v : ToWire!Parts(v) = Parts(v) /\ ToWire!Within(v) = Within(v)
  BY Zenon DEF ToWire!Within, Within, ToWire!PartsOf, PartsOf, ToWire!Parts, Parts
<1> QED  BY <1>1, <1>2, <1>3, <1>4, <1>5, <1>6, <1>7, <1>8, <1>9, <1>10, <1>11, <1>12, <1>13, <1>14

\* A tree takes some number of steps, its parts one less.
LEMMA TreeIs ==
  /\ \A v : Tree(v) <=> \E n \in Nat : LowTree(v, n)
  /\ \A v : ~LowTree(v, 0)
  /\ \A v : \A n \in Nat : LowTree(v, n + 1) <=> \A p \in Parts(v) : LowTree(p, n)
  /\ \A v : \A m \in Nat, n \in Nat : m <= n /\ LowTree(v, m) => LowTree(v, n)
<1>1. \A v : Tree(v) <=> \E n \in Nat : LowTree(v, n)
  BY DEF Tree, LowTree, ToWire!IsTree
<1>2. \A v : ~ToWire!Low(v, 0) /\ \A n \in Nat : ToWire!Low(v, n + 1) <=> \A p \in ToWire!Parts(v) : ToWire!Low(p, n)
  BY ToWire!LowIs, IpldAssumption
<1>3. \A v : \A m \in Nat, n \in Nat : m <= n /\ ToWire!Low(v, m) => ToWire!Low(v, n)
  BY ToWire!LowMore, IpldAssumption
<1> QED  BY <1>1, <1>2, <1>3, SameTrees DEF LowTree

\* The parts of a tree, and theirs, are trees.
LEMMA NearTrees ==
  ASSUME NEW v, Tree(v)
  PROVE  /\ \A p \in Parts(v) : Tree(p)
         /\ \A y \in Near(v) : Tree(y)
<1>1. \A u : Tree(u) => \A p \in Parts(u) : Tree(p)
  <2> TAKE u
  <2> HAVE Tree(u)
  <2> TAKE p \in Parts(u)
  <2>1. PICK n \in Nat : LowTree(u, n)  BY TreeIs
  <2>2. n # 0  BY <2>1, TreeIs
  <2>3. n - 1 \in Nat /\ (n - 1) + 1 = n  BY <2>2
  <2>4. LowTree(p, n - 1)  BY <2>1, <2>3, TreeIs
  <2> QED  BY <2>3, <2>4, TreeIs
<1>2. \A p \in Parts(v) : Tree(p)  BY <1>1
<1>3. \A p \in Parts(v) : \A q \in Parts(p) : Tree(q)  BY <1>1, <1>2
<1> QED  BY <1>2, <1>3 DEF Near, PartsOf

\* The items of a list and the entries of a map are its parts.
LEMMA PartsAre ==
  ASSUME NEW v
  PROVE  /\ v.kind = "list" => Parts(v) = {v.items[n] : n \in DOMAIN v.items}
         /\ v.kind = "map" => Parts(v) = {v.entries[k] : k \in DOMAIN v.entries}
         /\ v.kind \notin {"list", "map"} => Parts(v) = {}
BY DEF Parts

\* The writer looks at the parts of a value only, and so does the reader.
LEMMA WireLocal == \A v : ToWire!Local(v) /\ FromWire!Local(v)
<1>1. ASSUME NEW x, NEW f, NEW g, \A y \in Parts(x) : f[y] = g[y]
      PROVE  WireNode(x, f) = WireNode(x, g) /\ ValueNode(x, f) = ValueNode(x, g)
  <2>1. CASE x.kind = "list"
    <3>1. \A n \in DOMAIN x.items : f[x.items[n]] = g[x.items[n]]
      BY <1>1, <2>1, PartsAre
    <3>2. [n \in DOMAIN x.items |-> f[x.items[n]]] = [n \in DOMAIN x.items |-> g[x.items[n]]]
      BY <3>1, Zenon
    <3> QED  BY <2>1, <3>2, Zenon DEF WireNode, ValueNode
  <2>2. CASE x.kind = "map"
    <3>1. \A k \in DOMAIN x.entries : f[x.entries[k]] = g[x.entries[k]]
      BY <1>1, <2>2, PartsAre
    <3>2. [k \in DOMAIN x.entries |-> f[x.entries[k]]] = [k \in DOMAIN x.entries |-> g[x.entries[k]]]
      BY <3>1, Zenon
    <3> QED  BY <2>2, <3>2, Zenon DEF WireNode, ValueNode
  <2>3. CASE x.kind \notin {"list", "map"}  BY <2>3 DEF WireNode, ValueNode
  <2> QED  BY <2>1, <2>2, <2>3
<1>2. \A x : Parts(x) \subseteq ToWire!Near(x) /\ Parts(x) \subseteq FromWire!Near(x)
  BY SameTrees DEF Near
<1>3. \A x, f, g : (\A y \in ToWire!Near(x) : f[y] = g[y]) => WireNode(x, f) = WireNode(x, g)
  BY <1>1, <1>2
<1>4. \A x, f, g : (\A y \in FromWire!Near(x) : f[y] = g[y]) => ValueNode(x, f) = ValueNode(x, g)
  BY <1>1, <1>2
<1> QED  BY <1>3, <1>4, Zenon DEF ToWire!Local, FromWire!Local

\* How ipldToDagCbor unfolds.
LEMMA WireIs ==
  ASSUME NEW v, Tree(v)
  PROVE  /\ v.kind = "bigint" => ToDagCbor(v) = WireInt(v.halves)
         /\ v.kind = "number" =>
              ToDagCbor(v) = IF Safe(v.halves) THEN WireInt(v.halves) ELSE WireFloat(v.halves)
         /\ v.kind = "list" => ToDagCbor(v) = List([n \in DOMAIN v.items |-> ToDagCbor(v.items[n])])
         /\ v.kind = "map" => ToDagCbor(v) = MapOf([k \in DOMAIN v.entries |-> ToDagCbor(v.entries[k])],
                                                   Sorted(DOMAIN v.entries))
         /\ v.kind \notin {"bigint", "number", "list", "map"} => ToDagCbor(v) = v
<1> DEFINE f == [y \in Near(v) |-> ToDagCbor(y)]
<1>1. \A y : ToWire!Made(y) = ToDagCbor(y)
  BY Zenon DEF ToWire!Made, ToWire!Fold, ToDagCbor, Fold, ToWire!Within, Within, ToWire!PartsOf,
     PartsOf, ToWire!Parts, Parts
<1>2. \A y \in ToWire!Near(v) : f[y] = ToWire!Made(y)  BY <1>1, SameTrees
<1>3. \A p \in Parts(v) : f[p] = ToDagCbor(p)  BY DEF Near
<1> HIDE DEF f
<1>4. ToDagCbor(v) = WireNode(v, f)
  BY <1>1, <1>2, WireLocal, ToWire!FoldUnfolds, IpldAssumption, Zenon DEF Tree
<1>5. v.kind = "list" =>
        [n \in DOMAIN v.items |-> f[v.items[n]]] = [n \in DOMAIN v.items |-> ToDagCbor(v.items[n])]
  <2> HAVE v.kind = "list"
  <2>1. \A n \in DOMAIN v.items : f[v.items[n]] = ToDagCbor(v.items[n])
    BY <1>3, PartsAre
  <2> QED  BY <2>1, Zenon
<1>6. v.kind = "map" =>
        [k \in DOMAIN v.entries |-> f[v.entries[k]]] = [k \in DOMAIN v.entries |-> ToDagCbor(v.entries[k])]
  <2> HAVE v.kind = "map"
  <2>1. \A k \in DOMAIN v.entries : f[v.entries[k]] = ToDagCbor(v.entries[k])
    BY <1>3, PartsAre
  <2> QED  BY <2>1, Zenon
<1> QED  BY <1>4, <1>5, <1>6 DEF WireNode

\* And ipldFromDagCbor.
LEMMA ValueIs ==
  ASSUME NEW v, Tree(v)
  PROVE  /\ v.kind = "float" => FromDagCbor(v) = Number(v.halves)
         /\ v.kind = "int" => FromDagCbor(v) = IF Safe(v.halves) THEN Number(v.halves)
                                               ELSE [kind |-> "bigint", halves |-> v.halves]
         /\ v.kind = "list" => FromDagCbor(v) = List([n \in DOMAIN v.items |-> FromDagCbor(v.items[n])])
         /\ v.kind = "map" =>
              FromDagCbor(v) = MapOf([k \in DOMAIN v.entries |-> FromDagCbor(v.entries[k])], v.order)
         /\ v.kind \notin {"float", "int", "list", "map"} => FromDagCbor(v) = v
<1> DEFINE f == [y \in Near(v) |-> FromDagCbor(y)]
<1>1. \A y : FromWire!Made(y) = FromDagCbor(y)
  BY Zenon DEF FromWire!Made, FromWire!Fold, FromDagCbor, Fold, FromWire!Within, Within,
     FromWire!PartsOf, PartsOf,
               FromWire!Parts, Parts
<1>2. \A y \in FromWire!Near(v) : f[y] = FromWire!Made(y)  BY <1>1, SameTrees
<1>3. \A p \in Parts(v) : f[p] = FromDagCbor(p)  BY DEF Near
<1> HIDE DEF f
<1>4. FromDagCbor(v) = ValueNode(v, f)
  <2>1. FromWire!IsTree(v)  BY SameTrees
  <2> QED  BY <1>1, <1>2, <2>1, WireLocal, FromWire!FoldUnfolds, IpldAssumption, Zenon
<1>5. v.kind = "list" =>
        [n \in DOMAIN v.items |-> f[v.items[n]]] = [n \in DOMAIN v.items |-> FromDagCbor(v.items[n])]
  <2> HAVE v.kind = "list"
  <2>1. \A n \in DOMAIN v.items : f[v.items[n]] = FromDagCbor(v.items[n])
    BY <1>3, PartsAre
  <2> QED  BY <2>1, Zenon
<1>6. v.kind = "map" => [k \in DOMAIN v.entries |-> f[v.entries[k]]] = [k \in DOMAIN v.entries |-> FromDagCbor(v.entries[k])]
  <2> HAVE v.kind = "map"
  <2>1. \A k \in DOMAIN v.entries : f[v.entries[k]] = FromDagCbor(v.entries[k])
    BY <1>3, PartsAre
  <2> QED  BY <2>1, Zenon
<1> QED  BY <1>4, <1>5, <1>6 DEF ValueNode

\* What is written of a tree has what is written of its parts for parts.
LEMMA WireParts ==
  ASSUME NEW v, Tree(v)
  PROVE  Parts(ToDagCbor(v)) \subseteq {ToDagCbor(p) : p \in Parts(v)}
<1>1. CASE v.kind = "list"
  <2>1. ToDagCbor(v) = List([n \in DOMAIN v.items |-> ToDagCbor(v.items[n])])
    BY <1>1, WireIs
  <2>2. Parts(v) = {v.items[n] : n \in DOMAIN v.items}  BY <1>1, PartsAre
  <2> QED  BY <2>1, <2>2 DEF Parts, List
<1>2. CASE v.kind = "map"
  <2>1. ToDagCbor(v) = MapOf([k \in DOMAIN v.entries |-> ToDagCbor(v.entries[k])], Sorted(DOMAIN v.entries))
    BY <1>2, WireIs
  <2>2. Parts(v) = {v.entries[k] : k \in DOMAIN v.entries}  BY <1>2, PartsAre
  <2> DEFINE e == [k \in DOMAIN v.entries |-> ToDagCbor(v.entries[k])]
             o == Sorted(DOMAIN v.entries)
  <2>3. {e[k] : k \in DOMAIN e} \subseteq {ToDagCbor(p) : p \in Parts(v)}
    BY <2>2
  <2> HIDE DEF e, o
  <2>4. Parts(MapOf(e, o)) = {e[k] : k \in DOMAIN e}  BY DEF Parts, MapOf
  <2> QED  BY <2>1, <2>3, <2>4 DEF e, o
<1>3. CASE v.kind \in {"bigint", "number"}
  <2>1. ToDagCbor(v) \in {WireInt(v.halves), WireFloat(v.halves)}
    BY <1>3, WireIs
  <2> QED  BY <2>1 DEF Parts, WireInt, WireFloat
<1>4. CASE v.kind \notin {"list", "map", "bigint", "number"}
  BY <1>4, WireIs, PartsAre
<1> QED  BY <1>1, <1>2, <1>3, <1>4

\* So it is a tree.
LEMMA WireTrees == \A v : Tree(v) => Tree(ToDagCbor(v))
<1> DEFINE T == {n \in Nat : \A v : LowTree(v, n) => LowTree(ToDagCbor(v), n)}
<1>1. 0 \in T  BY TreeIs
<1>2. ASSUME NEW n \in Nat, n \in T  PROVE n + 1 \in T
  <2> SUFFICES ASSUME NEW v, LowTree(v, n + 1)  PROVE LowTree(ToDagCbor(v), n + 1)
    OBVIOUS
  <2>1. Tree(v)  BY TreeIs
  <2>2. \A p \in Parts(v) : LowTree(ToDagCbor(p), n)  BY <1>2, TreeIs
  <2>3. \A p \in Parts(ToDagCbor(v)) : LowTree(p, n)  BY <2>1, <2>2, WireParts
  <2> QED  BY <2>3, TreeIs
<1>3. Nat \subseteq T
  <2> HIDE DEF T
  <2> QED  BY <1>1, <1>2, SetInduction
<1> QED  BY <1>3, TreeIs

\* A value on its way, in either representation of a safe integer.
LEMMA ReceivedIs ==
  ASSUME NEW v, Tree(v)
  PROVE  /\ v.kind = "bigint" => Received(v) = IF Safe(v.halves) THEN Number(v.halves)
                                                ELSE [kind |-> "bigint", halves |-> v.halves]
         /\ v.kind = "number" => Received(v) = Number(v.halves)
         /\ v.kind = "list" => Received(v) = List([n \in DOMAIN v.items |-> Received(v.items[n])])
         /\ v.kind = "map" => Received(v) = MapOf([k \in DOMAIN v.entries |-> Received(v.entries[k])],
                                                  Sorted(DOMAIN v.entries))
         /\ v.kind \notin {"bigint", "number", "list", "map", "int", "float"} => Received(v) = v
<1> DEFINE w == ToDagCbor(v)
<1>1. Tree(w) /\ Received(v) = FromDagCbor(w)  BY WireTrees DEF Received
<1>2. CASE v.kind \in {"bigint", "number"}
  <2>2. w = (IF v.kind = "bigint" \/ Safe(v.halves) THEN WireInt(v.halves) ELSE WireFloat(v.halves))
    BY <1>2, WireIs
  <2>3. /\ WireInt(v.halves).kind = "int" /\ WireInt(v.halves).halves = v.halves
        /\ WireFloat(v.halves).kind = "float" /\ WireFloat(v.halves).halves = v.halves
    BY DEF WireInt, WireFloat
  <2> HIDE DEF w
  <2> QED  BY <1>1, <1>2, <2>2, <2>3, ValueIs
<1>3. CASE v.kind = "list"
  <2> DEFINE s == [n \in DOMAIN v.items |-> ToDagCbor(v.items[n])]
  <2>1. w = List(s)  BY <1>3, WireIs
  <2> HIDE DEF s, w
  <2>2. w.kind = "list" /\ w.items = s  BY <2>1 DEF List
  <2>3. FromDagCbor(w) = List([n \in DOMAIN s |-> FromDagCbor(s[n])])
    BY <1>1, <2>2, ValueIs
  <2>4. [n \in DOMAIN s |-> FromDagCbor(s[n])] = [n \in DOMAIN v.items |-> Received(v.items[n])]
    BY Zenon DEF s, Received
  <2> QED  BY <1>1, <1>3, <2>3, <2>4
<1>4. CASE v.kind = "map"
  <2> DEFINE e == [k \in DOMAIN v.entries |-> ToDagCbor(v.entries[k])]
             o == Sorted(DOMAIN v.entries)
  <2>1. w = MapOf(e, o)  BY <1>4, WireIs
  <2> HIDE DEF e, o, w
  <2>2. w.kind = "map" /\ w.entries = e /\ w.order = o  BY <2>1 DEF MapOf
  <2>3. FromDagCbor(w) = MapOf([k \in DOMAIN e |-> FromDagCbor(e[k])], o)
    BY <1>1, <2>2, ValueIs
  <2>4. [k \in DOMAIN e |-> FromDagCbor(e[k])] = [k \in DOMAIN v.entries |-> Received(v.entries[k])]
    BY Zenon DEF e, Received
  <2> QED  BY <1>1, <1>4, <2>3, <2>4 DEF o
<1>5. CASE v.kind \notin {"bigint", "number", "list", "map"}
  <2>1. w = v  BY <1>5, WireIs
  <2> HIDE DEF w
  <2> QED  BY <1>1, <1>5, <2>1, ValueIs
<1> QED  BY <1>2, <1>3, <1>4, <1>5

\* The values within a tree.
LEMMA InTree ==
  ASSUME NEW v, Tree(v)
  PROVE  /\ Within(v) = {v} \cup UNION {Within(p) : p \in Parts(v)}
         /\ \A y \in Within(v) : Tree(y) /\ Parts(y) \subseteq Within(v)
<1>1. ToWire!Within(v) = {v} \cup UNION {ToWire!Within(p) : p \in ToWire!Parts(v)}
  BY ToWire!WithinSplits, IpldAssumption DEF Tree
<1>2. \A y \in ToWire!Within(v) : ToWire!IsTree(y) /\ ToWire!Parts(y) \subseteq ToWire!Within(v)
  BY ToWire!WithinLow, IpldAssumption DEF Tree, ToWire!IsTree
<1>3. UNION {ToWire!Within(p) : p \in ToWire!Parts(v)} = UNION {Within(p) : p \in Parts(v)}
  BY SameTrees
<1> QED  BY <1>1, <1>2, <1>3, SameTrees DEF Tree

\* One value, whatever is in it.
DataNode(x) == IsCommon(x) \/ IsNumeral(x)
PromisedShape(x) ==
  \/ IsCommon(x)
  \/ x.kind = "integer" /\ x = Integer(x.value) /\ IsNumeral(x.value)
  \/ x.kind = "float" /\ x = Float(x.value) /\ IsFloat(x.value)
  \/ x.kind \in Waits /\ x = Wait(x.kind, x.cid)

\* A tree is of either type if its parts are.
LEMMA TypesSplit ==
  ASSUME NEW v, Tree(v)
  PROVE  /\ IsData(v) <=> DataNode(v) /\ \A p \in Parts(v) : IsData(p)
         /\ IsPromised(v) <=> PromisedShape(v) /\ \A p \in Parts(v) : IsPromised(p)
<1>1. Within(v) = {v} \cup UNION {Within(p) : p \in Parts(v)}
  BY InTree
<1>2. \A y : y \in Within(v) <=> y = v \/ \E p \in Parts(v) : y \in Within(p)
  BY <1>1
<1>3. \A p : IsData(p) <=> \A x \in Within(p) : DataNode(x)
  BY Zenon DEF IsData, DataNode
<1>4. \A p : IsPromised(p) <=> \A x \in Within(p) : PromisedShape(x)
  BY Zenon DEF IsPromised, PromisedShape
<1>5. IsData(v) <=> DataNode(v) /\ \A p \in Parts(v) : IsData(p)
  BY <1>2, <1>3, Zenon
<1>6. IsPromised(v) <=> PromisedShape(v) /\ \A p \in Parts(v) : IsPromised(p)
  BY <1>2, <1>4, Zenon
<1> QED  BY <1>5, <1>6

\* Functions that agree on the parts of a value make the same lists and maps.
LEMMA SameRows ==
  ASSUME NEW x, NEW f, NEW g, \A y \in Parts(x) : f[y] = g[y]
  PROVE  /\ x.kind = "list" =>
              [n \in DOMAIN x.items |-> f[x.items[n]]] = [n \in DOMAIN x.items |-> g[x.items[n]]]
         /\ x.kind = "map" =>
              [k \in DOMAIN x.entries |-> f[x.entries[k]]] = [k \in DOMAIN x.entries |-> g[x.entries[k]]]
<1>1. ASSUME x.kind = "list"
      PROVE  [n \in DOMAIN x.items |-> f[x.items[n]]] = [n \in DOMAIN x.items |-> g[x.items[n]]]
  <2>1. \A n \in DOMAIN x.items : f[x.items[n]] = g[x.items[n]]
    BY <1>1, PartsAre
  <2> QED  BY <2>1, Zenon
<1>2. ASSUME x.kind = "map"
      PROVE  [k \in DOMAIN x.entries |-> f[x.entries[k]]] = [k \in DOMAIN x.entries |-> g[x.entries[k]]]
  <2>1. \A k \in DOMAIN x.entries : f[x.entries[k]] = g[x.entries[k]]
    BY <1>2, PartsAre
  <2> QED  BY <2>1, Zenon
<1> QED  BY <1>1, <1>2

\* The conversions of promises look at the parts of a value only,
LEMMA PromiseLocal == \A v : Holder!Local(v) /\ Plainer!Local(v) /\ Promoter!Local(v) /\ Tagger!Local(v)
<1>1. ASSUME NEW x, NEW f, NEW g, \A y \in Parts(x) : f[y] = g[y]
      PROVE  /\ HeldNode(x, f) = HeldNode(x, g) /\ IpldNode(x, f) = IpldNode(x, g)
             /\ PromisedNode(x, f) = PromisedNode(x, g) /\ TaggedNode(x, f) = TaggedNode(x, g)
  <2>1. CASE x.kind = "list"
    <3>1. [n \in DOMAIN x.items |-> f[x.items[n]]] = [n \in DOMAIN x.items |-> g[x.items[n]]]
      BY <1>1, <2>1, SameRows
    <3> QED  BY <2>1, <3>1, Zenon DEF HeldNode, IpldNode, PromisedNode, Promoted, TaggedNode, Waits
  <2>2. CASE x.kind = "map"
    <3>1. [k \in DOMAIN x.entries |-> f[x.entries[k]]] = [k \in DOMAIN x.entries |-> g[x.entries[k]]]
      BY <1>1, <2>2, SameRows
    <3> QED  BY <2>2, <3>1, Zenon DEF HeldNode, IpldNode, PromisedNode, Promoted, TaggedNode, Waits
  <2>3. CASE x.kind \notin {"list", "map"}
    <3>1. x.kind # "list" /\ x.kind # "map"
      BY <2>3
    <3>2. HeldNode(x, f) = HeldNode(x, g)
      BY <3>1, Zenon DEF HeldNode
    <3>3. IpldNode(x, f) = IpldNode(x, g)
      BY <3>1, SMT DEF IpldNode
    <3>4. PromisedNode(x, f) = PromisedNode(x, g)
      BY <3>1, Zenon DEF PromisedNode, Promoted
    <3>5. TaggedNode(x, f) = TaggedNode(x, g)
      BY <3>1, SMT DEF TaggedNode
    <3> QED  BY <3>2, <3>3, <3>4, <3>5
  <2> QED  BY <2>1, <2>2, <2>3
<1>2. \A x : /\ Parts(x) \subseteq Holder!Near(x) /\ Parts(x) \subseteq Plainer!Near(x)
             /\ Parts(x) \subseteq Promoter!Near(x) /\ Parts(x) \subseteq Tagger!Near(x)
  BY SameTrees DEF Near
<1>3. \A x, f, g : (\A y \in Holder!Near(x) : f[y] = g[y]) => HeldNode(x, f) = HeldNode(x, g)
  BY <1>1, <1>2
<1>4. \A x, f, g : (\A y \in Plainer!Near(x) : f[y] = g[y]) => IpldNode(x, f) = IpldNode(x, g)
  BY <1>1, <1>2
<1>5. \A x, f, g : (\A y \in Promoter!Near(x) : f[y] = g[y]) => PromisedNode(x, f) = PromisedNode(x, g)
  BY <1>1, <1>2
<1>6. \A x, f, g : (\A y \in Tagger!Near(x) : f[y] = g[y]) => TaggedNode(x, f) = TaggedNode(x, g)
  BY <1>1, <1>2
<1> QED  BY <1>3, <1>4, <1>5, <1>6, Zenon DEF Holder!Local, Plainer!Local, Promoter!Local, Tagger!Local

\* AsHeld unfolds.
LEMMA HeldTurn ==
  ASSUME NEW v, Tree(v), NEW f, \A y \in Near(v) : f[y] = AsHeld(y)
  PROVE  AsHeld(v) = HeldNode(v, f)
<1>1. \A y : Holder!Made(y) = AsHeld(y)
  BY Zenon DEF Holder!Made, Holder!Fold, AsHeld, Fold, Holder!Within, Within, Holder!PartsOf,
     PartsOf, Holder!Parts, Parts
<1>2. Holder!IsTree(v) /\ \A y \in Holder!Near(v) : f[y] = Holder!Made(y)
  BY <1>1, SameTrees
<1> QED  BY <1>1, <1>2, PromiseLocal, Holder!FoldUnfolds, IpldAssumption, Zenon

\* PromisedToIpld unfolds.
LEMMA PlainTurn ==
  ASSUME NEW v, Tree(v), NEW f, \A y \in Near(v) : f[y] = PromisedToIpld(y)
  PROVE  PromisedToIpld(v) = IpldNode(v, f)
<1>1. \A y : Plainer!Made(y) = PromisedToIpld(y)
  BY Zenon DEF Plainer!Made, Plainer!Fold, PromisedToIpld, Fold, Plainer!Within, Within,
     Plainer!PartsOf, PartsOf, Plainer!Parts, Parts
<1>2. Plainer!IsTree(v) /\ \A y \in Plainer!Near(v) : f[y] = Plainer!Made(y)
  BY <1>1, SameTrees
<1> QED  BY <1>1, <1>2, PromiseLocal, Plainer!FoldUnfolds, IpldAssumption, Zenon

\* IpldToPromised unfolds.
LEMMA PromoteTurn ==
  ASSUME NEW v, Tree(v), NEW f, \A y \in Near(v) : f[y] = IpldToPromised(y)
  PROVE  IpldToPromised(v) = PromisedNode(v, f)
<1>1. \A y : Promoter!Made(y) = IpldToPromised(y)
  BY Zenon DEF Promoter!Made, Promoter!Fold, IpldToPromised, Fold, Promoter!Within, Within,
     Promoter!PartsOf, PartsOf, Promoter!Parts, Parts
<1>2. Promoter!IsTree(v) /\ \A y \in Promoter!Near(v) : f[y] = Promoter!Made(y)
  BY <1>1, SameTrees
<1> QED  BY <1>1, <1>2, PromiseLocal, Promoter!FoldUnfolds, IpldAssumption, Zenon

\* PromisedToWireIpld unfolds.
LEMMA TagTurn ==
  ASSUME NEW v, Tree(v), NEW f, \A y \in Near(v) : f[y] = PromisedToWireIpld(y)
  PROVE  PromisedToWireIpld(v) = TaggedNode(v, f)
<1>1. \A y : Tagger!Made(y) = PromisedToWireIpld(y)
  BY Zenon DEF Tagger!Made, Tagger!Fold, PromisedToWireIpld, Fold, Tagger!Within, Within,
     Tagger!PartsOf, PartsOf, Tagger!Parts, Parts
<1>2. Tagger!IsTree(v) /\ \A y \in Tagger!Near(v) : f[y] = Tagger!Made(y)
  BY <1>1, SameTrees
<1> QED  BY <1>1, <1>2, PromiseLocal, Tagger!FoldUnfolds, IpldAssumption, Zenon

\* What a promised value is, by its kind,
LEMMA ShapeIs ==
  ASSUME NEW p, PromisedShape(p)
  PROVE  /\ p.kind \in {"null", "bool", "string", "link", "bytes", "list", "map", "integer", "float"} \cup Waits
         /\ p.kind = "null" => p = Null
         /\ p.kind = "bool" => p = Bool(p.value)
         /\ p.kind = "string" => p = Str(p.text)
         /\ p.kind = "link" => p = Link(p.cid)
         /\ p.kind = "bytes" => p = BytesOf(p.items) /\ p.items \in Seq(0..255)
         /\ p.kind = "list" => p = List(p.items) /\ p.items \in Seq(Parts(p))
         /\ p.kind = "map" => /\ p = MapOf(p.entries, p.order) /\ p.entries \in [DOMAIN p.entries -> Parts(p)]
                              /\ Lists(p.order, DOMAIN p.entries)
                              /\ Lists(Sorted(DOMAIN p.entries), DOMAIN p.entries)
         /\ p.kind = "integer" => p = Integer(p.value) /\ IsNumeral(p.value)
         /\ p.kind = "float" => p = Float(p.value) /\ IsFloat(p.value)
         /\ p.kind \in Waits => p = Wait(p.kind, p.cid)
         /\ p.kind \notin {"integer", "float"} \cup Waits => IsCommon(p)
<1>1. p.kind \in {"integer", "float"} \cup Waits \/ IsCommon(p)
  BY DEF PromisedShape
<1>2. IsCommon(p) => p.kind \in {"null", "bool", "string", "link", "bytes", "list", "map"}
  BY DEF IsCommon, Null
<1>3. p.kind = "null" => p = Null
  BY DEF PromisedShape, IsCommon, Waits
<1>4. p.kind = "bool" => p = Bool(p.value)
  BY DEF PromisedShape, IsCommon, Waits, Null
<1>5. p.kind = "string" => p = Str(p.text)
  BY DEF PromisedShape, IsCommon, Waits, Null
<1>6. p.kind = "link" => p = Link(p.cid)
  BY DEF PromisedShape, IsCommon, Waits, Null
<1>7. p.kind = "bytes" => p = BytesOf(p.items) /\ p.items \in Seq(0..255)
  BY DEF PromisedShape, IsCommon, Waits, Null
<1>8. p.kind = "list" => p = List(p.items) /\ p.items \in Seq(Parts(p))
  BY DEF PromisedShape, IsCommon, Waits, Null
<1>9. p.kind = "map" => /\ p = MapOf(p.entries, p.order) /\ p.entries \in [DOMAIN p.entries -> Parts(p)]
                              /\ Lists(p.order, DOMAIN p.entries)
                        /\ Lists(Sorted(DOMAIN p.entries), DOMAIN p.entries)
  BY DEF PromisedShape, IsCommon, Waits, Null
<1>10. p.kind = "integer" => p = Integer(p.value) /\ IsNumeral(p.value)
  BY <1>2 DEF PromisedShape, Waits
<1>11. p.kind = "float" => p = Float(p.value) /\ IsFloat(p.value)
  BY <1>2 DEF PromisedShape, Waits
<1>12. p.kind \in Waits => p = Wait(p.kind, p.cid)
  BY <1>2 DEF PromisedShape, Waits
<1> QED  BY <1>1, <1>2, <1>3, <1>4, <1>5, <1>6, <1>7, <1>8, <1>9, <1>10, <1>11, <1>12

\* and data.
LEMMA DataShapeIs ==
  ASSUME NEW v, DataNode(v)
  PROVE  /\ v.kind \in {"null", "bool", "string", "link", "bytes", "list", "map", "number", "bigint"}
         /\ v.kind = "null" => v = Null
         /\ v.kind = "bool" => v = Bool(v.value)
         /\ v.kind = "string" => v = Str(v.text)
         /\ v.kind = "link" => v = Link(v.cid)
         /\ v.kind = "bytes" => v = BytesOf(v.items) /\ v.items \in Seq(0..255)
         /\ v.kind = "list" => v = List(v.items) /\ v.items \in Seq(Parts(v))
         /\ v.kind = "map" => /\ v = MapOf(v.entries, v.order) /\ v.entries \in [DOMAIN v.entries -> Parts(v)]
                              /\ Lists(v.order, DOMAIN v.entries)
                              /\ Lists(Sorted(DOMAIN v.entries), DOMAIN v.entries)
         /\ v.kind = "number" => IsFloat(v)
         /\ v.kind = "bigint" => v = [kind |-> "bigint", halves |-> v.halves] /\ Whole(v.halves)
         /\ v.kind \in {"number", "bigint"} => IsNumeral(v)
         /\ v.kind \notin {"number", "bigint"} => IsCommon(v)
<1>1. v.kind \in {"number", "bigint"} \/ IsCommon(v)
  BY DEF DataNode, IsNumeral, IsFloat
<1>2. IsCommon(v) => v.kind \in {"null", "bool", "string", "link", "bytes", "list", "map"}
  BY DEF IsCommon, Null
<1>3. v.kind = "null" => v = Null
  BY <1>1 DEF IsCommon
<1>4. v.kind = "bool" => v = Bool(v.value)
  BY <1>1 DEF IsCommon, Null
<1>5. v.kind = "string" => v = Str(v.text)
  BY <1>1 DEF IsCommon, Null
<1>6. v.kind = "link" => v = Link(v.cid)
  BY <1>1 DEF IsCommon, Null
<1>7. v.kind = "bytes" => v = BytesOf(v.items) /\ v.items \in Seq(0..255)
  BY <1>1 DEF IsCommon, Null
<1>8. v.kind = "list" => v = List(v.items) /\ v.items \in Seq(Parts(v))
  BY <1>1 DEF IsCommon, Null
<1>9. v.kind = "map" => /\ v = MapOf(v.entries, v.order) /\ v.entries \in [DOMAIN v.entries -> Parts(v)]
                              /\ Lists(v.order, DOMAIN v.entries)
                        /\ Lists(Sorted(DOMAIN v.entries), DOMAIN v.entries)
  BY <1>1 DEF IsCommon, Null
<1>10. v.kind \in {"number", "bigint"} => IsNumeral(v)
  BY <1>2 DEF DataNode
<1>11. v.kind = "number" => IsFloat(v)
  BY <1>10 DEF IsNumeral
<1>12. v.kind = "bigint" => v = [kind |-> "bigint", halves |-> v.halves] /\ Whole(v.halves)
  BY <1>10 DEF IsNumeral, IsFloat
<1> QED  BY <1>1, <1>2, <1>3, <1>4, <1>5, <1>6, <1>7, <1>8, <1>9, <1>10, <1>11, <1>12

\* A list and a map by their fields.
LEMMA ListIs ==
  ASSUME NEW s
  PROVE  List(s).kind = "list" /\ List(s).items = s /\ Parts(List(s)) = {s[n] : n \in DOMAIN s}
BY DEF List, Parts

\* and a map by its.
LEMMA MapIs ==
  ASSUME NEW e, NEW o
  PROVE  /\ MapOf(e, o).kind = "map" /\ MapOf(e, o).entries = e /\ MapOf(e, o).order = o
         /\ Parts(MapOf(e, o)) = {e[k] : k \in DOMAIN e}
BY DEF MapOf, Parts

\* A map with one key.
LEMMA TaggedIs ==
  ASSUME NEW tag, NEW v
  PROVE  /\ Tagged(tag, v).kind = "map" /\ Tagged(tag, v).order = <<tag>>
         /\ DOMAIN Tagged(tag, v).entries = {tag} /\ Tagged(tag, v).entries[tag] = v
         /\ Tagged(tag, v).entries = [t \in {tag} |-> v]
         /\ Parts(Tagged(tag, v)) = {v} /\ Tagged(tag, v) # Str("Null")
<1> DEFINE e == [t \in {tag} |-> v]
<1>1. DOMAIN e = {tag} /\ e[tag] = v
  OBVIOUS
<1>2. {e[k] : k \in DOMAIN e} = {v}
  BY <1>1
<1> HIDE DEF e
<1>3. Tagged(tag, v) = MapOf(e, <<tag>>)
  BY DEF Tagged, e
<1>4. MapOf(e, <<tag>>) # Str("Null")
  BY DEF MapOf, Str
<1> QED  BY <1>1, <1>2, <1>3, <1>4, MapIs DEF e

\* What has the kind of neither has no parts.
LEMMA LeafIs ==
  ASSUME NEW v, v.kind \notin {"list", "map"}
  PROVE  /\ Parts(v) = {} /\ Tree(v) /\ LowTree(v, 1)
         /\ IsData(v) <=> DataNode(v)
         /\ IsPromised(v) <=> PromisedShape(v)
<1>1. Parts(v) = {}
  BY PartsAre
<1>2. LowTree(v, 0 + 1)
  BY <1>1, TreeIs
<1>3. Tree(v)
  BY <1>2, TreeIs
<1> QED  BY <1>1, <1>2, <1>3, TypesSplit

\* What has the length of a sequence is one.
LEMMA RowIs ==
  ASSUME NEW S, NEW s \in Seq(S), NEW g, g = [n \in DOMAIN s |-> g[n]]
  PROVE  g \in Seq({g[n] : n \in DOMAIN g}) /\ DOMAIN g = DOMAIN s /\ Len(g) = Len(s)
<1>1. DOMAIN s = 1..Len(s) /\ Len(s) \in Nat
  OBVIOUS
<1>2. g \in [1..Len(s) -> {g[n] : n \in DOMAIN g}] /\ DOMAIN g = DOMAIN s
  BY <1>1
<1> QED  BY <1>1, <1>2

\* Lists are common if their rows are, and so are maps.
LEMMA ListCommon ==
  ASSUME NEW S, NEW s \in Seq(S), NEW g, g = [n \in DOMAIN s |-> g[n]]
  PROVE  IsCommon(List(g))
<1>1. g \in Seq(Parts(List(g)))
  BY RowIs, ListIs
<1> QED  BY <1>1, ListIs DEF IsCommon

\* A map of parts that are known, with both its orders.
LEMMA MapCommon ==
  ASSUME NEW e, e = [k \in DOMAIN e |-> e[k]], NEW o, Lists(o, DOMAIN e), Lists(Sorted(DOMAIN e), DOMAIN e)
  PROVE  IsCommon(MapOf(e, o))
<1>1. e \in [DOMAIN e -> {e[k] : k \in DOMAIN e}]
  OBVIOUS
<1> QED  BY <1>1, MapIs DEF IsCommon

\* One key is listed in one way only.
LEMMA OneKey ==
  ASSUME NEW tag
  PROVE  /\ Lists(<<tag>>, {tag})
         /\ \A order : Lists(order, {tag}) => order = <<tag>>
         /\ \A order, keys : Lists(order, keys) /\ Len(order) = 1 =>
              keys = {order[1]} /\ order = <<order[1]>>
<1>1. Lists(<<tag>>, {tag})
  BY DEF Lists
<1>2. ASSUME NEW order, NEW keys, Lists(order, keys), Len(order) = 1  PROVE keys = {order[1]} /\ order = <<order[1]>>
  <2>1. order \in Seq(keys) /\ keys = {order[n] : n \in DOMAIN order}
    BY <1>2 DEF Lists
  <2>2. DOMAIN order = {1}
    BY <1>2, <2>1
  <2> QED  BY <1>2, <2>1, <2>2
<1>3. ASSUME NEW order, Lists(order, {tag})  PROVE order = <<tag>>
  <2>1. order \in Seq({tag}) /\ {tag} = {order[n] : n \in DOMAIN order}
    BY <1>3 DEF Lists
  <2>2. \A m, n \in DOMAIN order : order[m] = order[n] => m = n
    BY <1>3 DEF Lists
  <2>3. \A m, n \in DOMAIN order : m = n
    BY <2>1, <2>2
  <2>4. PICK n \in DOMAIN order : order[n] = tag
    BY <2>1
  <2>5. Len(order) = 1
    <3>1. DOMAIN order = 1..Len(order) /\ Len(order) \in Nat
      BY <2>1
    <3>2. Len(order) >= 1
      BY <2>4, <3>1
    <3>3. 1 \in DOMAIN order /\ Len(order) \in DOMAIN order
      BY <3>1, <3>2
    <3> QED  BY <2>3, <3>3
  <2>6. order = <<order[1]>> /\ {tag} = {order[1]}
    BY <1>2, <1>3, <2>5
  <2> QED  BY <2>6
<1> QED  BY <1>1, <1>2, <1>3

\* Case by case: AsHeld,
LEMMA HeldIs ==
  ASSUME NEW v, Tree(v)
  PROVE  /\ v.kind \in {"integer", "float"} => AsHeld(v) = [v EXCEPT !.value = Received(@)]
         /\ v.kind = "list" => AsHeld(v) = List([n \in DOMAIN v.items |-> AsHeld(v.items[n])])
         /\ v.kind = "map" => AsHeld(v) = MapOf([k \in DOMAIN v.entries |-> AsHeld(v.entries[k])],
                                                Sorted(DOMAIN v.entries))
         /\ v.kind \notin {"integer", "float", "list", "map"} => AsHeld(v) = v
<1> DEFINE f == [y \in Near(v) |-> AsHeld(y)]
<1>1. \A y \in Near(v) : f[y] = AsHeld(y)
  OBVIOUS
<1> HIDE DEF f
<1>2. AsHeld(v) = HeldNode(v, f)
  BY <1>1, HeldTurn
<1>3. \A p \in Parts(v) : f[p] = AsHeld(p)
  BY <1>1 DEF Near
<1>4. ASSUME v.kind = "list"
      PROVE  [n \in DOMAIN v.items |-> f[v.items[n]]] = [n \in DOMAIN v.items |-> AsHeld(v.items[n])]
  <2>1. \A n \in DOMAIN v.items : f[v.items[n]] = AsHeld(v.items[n])
    BY <1>3, <1>4, PartsAre
  <2> QED  BY <2>1, Zenon
<1>5. ASSUME v.kind = "map"
      PROVE  [k \in DOMAIN v.entries |-> f[v.entries[k]]] = [k \in DOMAIN v.entries |-> AsHeld(v.entries[k])]
  <2>1. \A k \in DOMAIN v.entries : f[v.entries[k]] = AsHeld(v.entries[k])
    BY <1>3, <1>5, PartsAre
  <2> QED  BY <2>1, Zenon
<1> QED  BY <1>2, <1>4, <1>5 DEF HeldNode

\* PromisedToIpld,
LEMMA PlainIs ==
  ASSUME NEW v, Tree(v)
  PROVE  /\ v.kind \in {"integer", "float"} => PromisedToIpld(v) = v.value
         /\ v.kind \in Waits => PromisedToIpld(v) = WaitingOn(v)
         /\ v.kind = "list" =>
              PromisedToIpld(v) = Listed([n \in DOMAIN v.items |-> PromisedToIpld(v.items[n])])
         /\ v.kind = "map" =>
              PromisedToIpld(v) = Mapped([k \in DOMAIN v.entries |-> PromisedToIpld(v.entries[k])],
                                                         v.order)
         /\ v.kind \notin {"integer", "float", "list", "map"} \cup Waits => PromisedToIpld(v) = v
<1> DEFINE f == [y \in Near(v) |-> PromisedToIpld(y)]
<1>1. \A y \in Near(v) : f[y] = PromisedToIpld(y)
  OBVIOUS
<1> HIDE DEF f
<1>2. PromisedToIpld(v) = IpldNode(v, f)
  BY <1>1, PlainTurn
<1>3. \A p \in Parts(v) : f[p] = PromisedToIpld(p)
  BY <1>1 DEF Near
<1>4. ASSUME v.kind = "list"
      PROVE  [n \in DOMAIN v.items |-> f[v.items[n]]] = [n \in DOMAIN v.items |-> PromisedToIpld(v.items[n])]
  <2>1. \A n \in DOMAIN v.items : f[v.items[n]] = PromisedToIpld(v.items[n])
    BY <1>3, <1>4, PartsAre
  <2> QED  BY <2>1, Zenon
<1>5. ASSUME v.kind = "map"
      PROVE  [k \in DOMAIN v.entries |-> f[v.entries[k]]] = [k \in DOMAIN v.entries |-> PromisedToIpld(v.entries[k])]
  <2>1. \A k \in DOMAIN v.entries : f[v.entries[k]] = PromisedToIpld(v.entries[k])
    BY <1>3, <1>5, PartsAre
  <2> QED  BY <2>1, Zenon
<1> QED  BY <1>2, <1>4, <1>5 DEF IpldNode, Waits

\* IpldToPromised,
LEMMA PromoteIs ==
  ASSUME NEW v, Tree(v)
  PROVE  /\ v.kind = "list" =>
              IpldToPromised(v) = List([n \in DOMAIN v.items |-> IpldToPromised(v.items[n])])
         /\ v.kind = "map" =>
              IpldToPromised(v) = MapOf([k \in DOMAIN v.entries |-> IpldToPromised(v.entries[k])],
                                                        v.order)
         /\ v.kind = "bigint" => IpldToPromised(v) = Integer(v)
         /\ v.kind = "number" => IpldToPromised(v) = IF Whole(v.halves) THEN Integer(v) ELSE Float(v)
         /\ v.kind \notin {"list", "map", "bigint", "number"} => IpldToPromised(v) = v
<1> DEFINE f == [y \in Near(v) |-> IpldToPromised(y)]
<1>1. \A y \in Near(v) : f[y] = IpldToPromised(y)
  OBVIOUS
<1> HIDE DEF f
<1>2. IpldToPromised(v) = PromisedNode(v, f)
  BY <1>1, PromoteTurn
<1>3. \A p \in Parts(v) : f[p] = IpldToPromised(p)
  BY <1>1 DEF Near
<1>4. ASSUME v.kind = "list"
      PROVE  [n \in DOMAIN v.items |-> f[v.items[n]]] = [n \in DOMAIN v.items |-> IpldToPromised(v.items[n])]
  <2>1. \A n \in DOMAIN v.items : f[v.items[n]] = IpldToPromised(v.items[n])
    BY <1>3, <1>4, PartsAre
  <2> QED  BY <2>1, Zenon
<1>5. ASSUME v.kind = "map"
      PROVE  [k \in DOMAIN v.entries |-> f[v.entries[k]]] = [k \in DOMAIN v.entries |-> IpldToPromised(v.entries[k])]
  <2>1. \A k \in DOMAIN v.entries : f[v.entries[k]] = IpldToPromised(v.entries[k])
    BY <1>3, <1>5, PartsAre
  <2> QED  BY <2>1, Zenon
<1> QED  BY <1>2, <1>4, <1>5 DEF PromisedNode, Promoted

\* PromisedToWireIpld, what it puts under a tag,
Inside(p) ==
  CASE p.kind \in {"integer", "float"} -> p.value
    [] p.kind = "bytes" -> List([n \in DOMAIN p.items |-> Number(2 * p.items[n])])
    [] p.kind \in Waits -> Link(p.cid)
    [] p.kind = "list" -> List([n \in DOMAIN p.items |-> PromisedToWireIpld(p.items[n])])
    [] p.kind = "map" -> MapOf([k \in DOMAIN p.entries |-> PromisedToWireIpld(p.entries[k])], p.order)
    [] OTHER -> p

\* PromisedToWireIpld is Null, or what is inside under the tag of the kind.
LEMMA WriteIs ==
  ASSUME NEW v, Tree(v)
  PROVE  PromisedToWireIpld(v) = IF v = Null THEN Str("Null") ELSE Tagged(PromisedTag(v.kind), Inside(v))
<1> DEFINE f == [y \in Near(v) |-> PromisedToWireIpld(y)]
<1>1. \A y \in Near(v) : f[y] = PromisedToWireIpld(y)
  OBVIOUS
<1> HIDE DEF f
<1>2. PromisedToWireIpld(v) = TaggedNode(v, f)
  BY <1>1, TagTurn
<1>3. \A p \in Parts(v) : f[p] = PromisedToWireIpld(p)
  BY <1>1 DEF Near
<1>4. ASSUME v.kind = "list"
      PROVE  [n \in DOMAIN v.items |-> f[v.items[n]]] = [n \in DOMAIN v.items |-> PromisedToWireIpld(v.items[n])]
  <2>1. \A n \in DOMAIN v.items : f[v.items[n]] = PromisedToWireIpld(v.items[n])
    BY <1>3, <1>4, PartsAre
  <2> QED  BY <2>1, Zenon
<1>5. ASSUME v.kind = "map"
      PROVE  [k \in DOMAIN v.entries |-> f[v.entries[k]]] = [k \in DOMAIN v.entries |-> PromisedToWireIpld(v.entries[k])]
  <2>1. \A k \in DOMAIN v.entries : f[v.entries[k]] = PromisedToWireIpld(v.entries[k])
    BY <1>3, <1>5, PartsAre
  <2> QED  BY <2>1, Zenon
<1> DEFINE inside ==
             CASE v.kind \in {"integer", "float"} -> v.value
               [] v.kind = "bytes" -> List([n \in DOMAIN v.items |-> Number(2 * v.items[n])])
               [] v.kind \in Waits -> Link(v.cid)
               [] v.kind = "list" -> List([n \in DOMAIN v.items |-> f[v.items[n]]])
               [] v.kind = "map" -> MapOf([k \in DOMAIN v.entries |-> f[v.entries[k]]], v.order)
               [] OTHER -> v
<1>6. inside = Inside(v)
  BY <1>4, <1>5, SMT DEF Inside
<1>7. TaggedNode(v, f) = IF v = Null THEN Str("Null") ELSE Tagged(PromisedTag(v.kind), inside)
  BY Zenon DEF TaggedNode
<1> HIDE DEF inside
<1> QED  BY <1>2, <1>6, <1>7

\* WireIpldToPromised, and what it makes of what is under a tag.
ReadUnder(tag, v) == ReadPromised(tag, v, [y \in Parts(v) |-> WireIpldToPromised(y)])

\* What is read under a tag depends on what is made of the parts only,
LEMMA SameRead ==
  ASSUME NEW tag, NEW w, NEW f, NEW g, \A y \in Parts(w) : f[y] = g[y]
  PROVE  ReadPromised(tag, w, f) = ReadPromised(tag, w, g)
<1>1. CASE w.kind = "list"
  <2>1. [n \in DOMAIN w.items |-> f[w.items[n]]] = [n \in DOMAIN w.items |-> g[w.items[n]]]
    BY <1>1, SameRows
  <2> QED  BY <1>1, <2>1, SMT DEF ReadPromised
<1>2. CASE w.kind = "map"
  <2>1. [k \in DOMAIN w.entries |-> f[w.entries[k]]] = [k \in DOMAIN w.entries |-> g[w.entries[k]]]
    BY <1>2, SameRows
  <2> QED  BY <1>2, <2>1, SMT DEF ReadPromised
<1>3. CASE w.kind # "list" /\ w.kind # "map"
  BY <1>3, SMT DEF ReadPromised
<1> QED  BY <1>1, <1>2, <1>3

\* and so the reader looks no further than the parts of the parts.
LEMMA UntagLocal ==
  ASSUME NEW v, IsData(v)
  PROVE  Untagger!Local(v)
<1>1. Untagger!Within(v) = Within(v)
  BY Zenon DEF Untagger!Within, Within, Untagger!PartsOf, PartsOf, Untagger!Parts, Parts
<1>2. ASSUME NEW x \in Within(v), NEW f, NEW g, \A y \in Near(x) : f[y] = g[y]
      PROVE  UntaggedNode(x, f) = UntaggedNode(x, g)
  <2>1. CASE x = Str("Null") \/ x.kind # "map" \/ Len(x.order) # 1
    BY <2>1 DEF UntaggedNode
  <2>2. CASE ~(x = Str("Null") \/ x.kind # "map" \/ Len(x.order) # 1)
    <3> DEFINE tag == x.order[1]
               w == x.entries[tag]
    <3>1. DataNode(x)
      BY DEF IsData, DataNode
    <3>2. Lists(x.order, DOMAIN x.entries)
      BY <2>2, <3>1, DataShapeIs
    <3>3. tag \in DOMAIN x.entries
      <4>1. Len(x.order) = 1
        BY <2>2
      <4>2. DOMAIN x.entries = {x.order[1]}
        BY <3>2, <4>1, OneKey, Zenon
      <4> QED  BY <4>2
    <3>4. w \in Parts(x)
      BY <2>2, <3>3, PartsAre
    <3> HIDE DEF tag, w
    <3>5. \A y \in Parts(w) : f[y] = g[y]
      BY <1>2, <3>4 DEF Near, PartsOf
    <3>6. ReadPromised(tag, w, f) = ReadPromised(tag, w, g)
      BY <3>5, SameRead
    <3> QED  BY <2>2, <3>6 DEF UntaggedNode, tag, w
  <2> QED  BY <2>1, <2>2
<1>3. \A x : Untagger!Near(x) = Near(x)
  BY SameTrees
<1>4. \A x \in Untagger!Within(v) : \A f, g : (\A y \in Untagger!Near(x) : f[y] = g[y]) =>
        UntaggedNode(x, f) = UntaggedNode(x, g)
  BY <1>1, <1>2, <1>3
<1> QED  BY <1>4, Zenon DEF Untagger!Local

\* Null, what is under the only tag, or an error.
LEMMA ReadIs ==
  ASSUME NEW v, Tree(v), IsData(v)
  PROVE  /\ v = Str("Null") => WireIpldToPromised(v) = Null
         /\ v # Str("Null") /\ (v.kind # "map" \/ Len(v.order) # 1) => WireIpldToPromised(v) = Malformed
         /\ v # Str("Null") /\ v.kind = "map" /\ Len(v.order) = 1 =>
              /\ DOMAIN v.entries = {v.order[1]} /\ v = Tagged(v.order[1], v.entries[v.order[1]])
              /\ WireIpldToPromised(v) = ReadUnder(v.order[1], v.entries[v.order[1]])
<1> DEFINE f == [y \in Near(v) |-> WireIpldToPromised(y)]
<1>1. \A y \in Near(v) : f[y] = WireIpldToPromised(y)
  OBVIOUS
<1> HIDE DEF f
<1>2. WireIpldToPromised(v) = UntaggedNode(v, f)
  <2>1. \A y : Untagger!Made(y) = WireIpldToPromised(y)
    BY Zenon DEF Untagger!Made, Untagger!Fold, WireIpldToPromised, Fold, Untagger!Within, Within,
       Untagger!PartsOf,
                 PartsOf, Untagger!Parts, Parts
  <2>2. Untagger!IsTree(v) /\ \A y \in Untagger!Near(v) : f[y] = Untagger!Made(y)
    BY <1>1, <2>1, SameTrees
  <2> QED  BY <2>1, <2>2, UntagLocal, Untagger!FoldUnfolds, IpldAssumption, Zenon
<1>3. ASSUME v # Str("Null"), v.kind = "map", Len(v.order) = 1
      PROVE  /\ DOMAIN v.entries = {v.order[1]} /\ v = Tagged(v.order[1], v.entries[v.order[1]])
             /\ WireIpldToPromised(v) = ReadUnder(v.order[1], v.entries[v.order[1]])
  <2> DEFINE tag == v.order[1]
             w == v.entries[tag]
  <2>1. DataNode(v)
    BY TypesSplit
  <2>2. v = MapOf(v.entries, v.order) /\ Lists(v.order, DOMAIN v.entries)
    BY <1>3, <2>1, DataShapeIs
  <2>3. DOMAIN v.entries = {tag} /\ v.order = <<tag>>
    BY <1>3, <2>2, OneKey
  <2>4. w \in Parts(v)
    BY <1>3, <2>3, PartsAre
  <2>5. v = Tagged(tag, w)
    <3>1. DOMAIN v.entries = {tag}
      BY <2>3
    <3>2. \A t \in {tag} : v.entries[t] = w
      OBVIOUS
    <3>3. v.entries = [t \in DOMAIN v.entries |-> v.entries[t]]
      <4>1. v.entries \in [DOMAIN v.entries -> Parts(v)]
        BY <1>3, <2>1, DataShapeIs
      <4> QED  BY <4>1
    <3>4. v.entries = [t \in {tag} |-> w]
      BY <3>1, <3>2, <3>3, Zenon
    <3> QED  BY <2>2, <2>3, <3>4, Zenon DEF Tagged
  <2>6. \A y \in Parts(w) : f[y] = [y1 \in Parts(w) |-> WireIpldToPromised(y1)][y]
    BY <1>1, <2>4 DEF Near, PartsOf
  <2>7. UntaggedNode(v, f) = ReadPromised(tag, w, f)
    BY <1>3 DEF UntaggedNode
  <2>8. ReadPromised(tag, w, f) = ReadUnder(tag, w)
    <3> DEFINE g == [y \in Parts(w) |-> WireIpldToPromised(y)]
    <3> HIDE DEF g, w, tag
    <3>1. \A y \in Parts(w) : f[y] = g[y]
      BY <2>6 DEF g
    <3>2. ReadPromised(tag, w, f) = ReadPromised(tag, w, g)
      BY <3>1, SameRead
    <3> QED  BY <3>2, Zenon DEF ReadUnder, g
  <2> QED  BY <1>2, <2>3, <2>5, <2>7, <2>8
<1> QED  BY <1>2, <1>3 DEF UntaggedNode

\* A list is a tree, and of a type, if its items are; and so is a map,
LEMMA ListBuilt ==
  ASSUME NEW S, NEW s \in Seq(S), NEW g, g = [n \in DOMAIN s |-> g[n]],
         NEW m \in Nat, \A n \in DOMAIN s : LowTree(g[n], m)
  PROVE  /\ LowTree(List(g), m + 1)
         /\ (\A n \in DOMAIN s : IsData(g[n])) => IsData(List(g))
         /\ (\A n \in DOMAIN s : IsPromised(g[n])) => IsPromised(List(g))
<1>1. Parts(List(g)) = {g[n] : n \in DOMAIN s}
  BY ListIs
<1>2. LowTree(List(g), m + 1)
  BY <1>1, TreeIs
<1>3. Tree(List(g))
  <2>1. m + 1 \in Nat
    OBVIOUS
  <2> QED  BY <1>2, <2>1, TreeIs
<1>4. DataNode(List(g)) /\ PromisedShape(List(g))
  BY ListCommon DEF DataNode, PromisedShape
<1>5. (\A n \in DOMAIN s : IsData(g[n])) => IsData(List(g))
  BY <1>1, <1>3, <1>4, TypesSplit
<1>6. (\A n \in DOMAIN s : IsPromised(g[n])) => IsPromised(List(g))
  BY <1>1, <1>3, <1>4, TypesSplit
<1> QED  BY <1>2, <1>5, <1>6

\* and a map of them.
LEMMA MapBuilt ==
  ASSUME NEW e, e = [k \in DOMAIN e |-> e[k]], NEW o, Lists(o, DOMAIN e), Lists(Sorted(DOMAIN e), DOMAIN e),
         NEW m \in Nat, \A k \in DOMAIN e : LowTree(e[k], m)
  PROVE  /\ LowTree(MapOf(e, o), m + 1)
         /\ (\A k \in DOMAIN e : IsData(e[k])) => IsData(MapOf(e, o))
         /\ (\A k \in DOMAIN e : IsPromised(e[k])) => IsPromised(MapOf(e, o))
<1>1. Parts(MapOf(e, o)) = {e[k] : k \in DOMAIN e}
  BY MapIs
<1>2. LowTree(MapOf(e, o), m + 1)
  BY <1>1, TreeIs
<1>3. Tree(MapOf(e, o))
  <2>1. m + 1 \in Nat
    OBVIOUS
  <2> QED  BY <1>2, <2>1, TreeIs
<1>4. DataNode(MapOf(e, o)) /\ PromisedShape(MapOf(e, o))
  BY MapCommon DEF DataNode, PromisedShape
<1>5. (\A k \in DOMAIN e : IsData(e[k])) => IsData(MapOf(e, o))
  BY <1>1, <1>3, <1>4, TypesSplit
<1>6. (\A k \in DOMAIN e : IsPromised(e[k])) => IsPromised(MapOf(e, o))
  BY <1>1, <1>3, <1>4, TypesSplit
<1> QED  BY <1>2, <1>5, <1>6

\* in particular one with one key, which arrives with that key.
LEMMA TaggedBuilt ==
  ASSUME NEW tag, Sorted({tag}) = <<tag>>, NEW v, NEW m \in Nat, LowTree(v, m), IsData(v)
  PROVE  LowTree(Tagged(tag, v), m + 1) /\ IsData(Tagged(tag, v))
<1> DEFINE e == [t \in {tag} |-> v]
<1>1. DOMAIN e = {tag} /\ e = [k \in DOMAIN e |-> e[k]] /\ e[tag] = v
  OBVIOUS
<1>2. Tagged(tag, v) = MapOf(e, <<tag>>)
  BY DEF Tagged
<1> HIDE DEF e
<1>3. Lists(<<tag>>, DOMAIN e) /\ Lists(Sorted(DOMAIN e), DOMAIN e)
  BY <1>1, OneKey
<1>4. \A k \in DOMAIN e : LowTree(e[k], m) /\ IsData(e[k])
  BY <1>1
<1> QED  BY <1>1, <1>2, <1>3, <1>4, MapBuilt

\* A tag arrives, and what is under it as it arrives by itself.
LEMMA TaggedReceived ==
  ASSUME NEW tag, Sorted({tag}) = <<tag>>, NEW v, Tree(v)
  PROVE  Received(Tagged(tag, v)) = Tagged(tag, Received(v)) /\ Tree(Tagged(tag, v))
<1>1. Tree(Tagged(tag, v))
  <2>1. PICK m \in Nat : LowTree(v, m)
    BY TreeIs
  <2> DEFINE w == Tagged(tag, v)
  <2>2. Parts(w) = {v}
    BY TaggedIs
  <2> HIDE DEF w
  <2>3. \A p \in Parts(w) : LowTree(p, m)
    BY <2>1, <2>2
  <2>4. LowTree(w, m + 1)
    BY <2>3, TreeIs
  <2>5. m + 1 \in Nat
    OBVIOUS
  <2> QED  BY <2>4, <2>5, TreeIs DEF w
<1> DEFINE t == Tagged(tag, v)
           e == [k \in DOMAIN t.entries |-> Received(t.entries[k])]
<1>2. e = [k \in {tag} |-> Received(v)]
  <2>1. DOMAIN t.entries = {tag} /\ t.entries[tag] = v
    BY TaggedIs
  <2>2. \A k \in {tag} : Received(t.entries[k]) = Received(v)
    BY <2>1
  <2> HIDE DEF t
  <2> QED  BY <2>1, <2>2, Zenon
<1>3. Received(t) = MapOf(e, Sorted(DOMAIN t.entries))
  BY <1>1, TaggedIs, ReceivedIs
<1>4. Sorted(DOMAIN t.entries) = <<tag>>
  BY TaggedIs
<1> HIDE DEF e
<1>5. Received(t) = MapOf(e, <<tag>>)
  BY <1>3, <1>4
<1> HIDE DEF t
<1>6. Received(t) = Tagged(tag, Received(v))
  BY <1>2, <1>5, Zenon DEF Tagged
<1> QED  BY <1>1, <1>6 DEF t

\* A number arrives as one, a float unchanged; and so does what is no number
\* and has no parts.
LEMMA NumeralReceived ==
  ASSUME NEW v, IsNumeral(v)
  PROVE  /\ v.kind \in {"number", "bigint"} /\ Received(v).kind \in {"number", "bigint"}
         /\ IsNumeral(Received(v)) /\ Received(Received(v)) = Received(v)
         /\ IsFloat(v) => Received(v) = v
<1>1. v.kind \in {"number", "bigint"}
  BY DEF IsNumeral, IsFloat
<1>2. Tree(v)
  BY <1>1, LeafIs
<1>3. CASE IsFloat(v)
  <2>1. v.kind = "number" /\ v = Number(v.halves)
    BY <1>3 DEF IsFloat
  <2>2. Received(v) = v
    BY <1>2, <2>1, ReceivedIs
  <2> QED  BY <1>1, <2>2
<1>4. CASE ~IsFloat(v)
  <2>1. v.kind = "bigint" /\ v = [kind |-> "bigint", halves |-> v.halves] /\ Whole(v.halves)
    BY <1>4 DEF IsNumeral
  <2>2. CASE Safe(v.halves)
    <3> DEFINE w == Number(v.halves)
    <3>1. Received(v) = w
      BY <1>2, <2>1, <2>2, ReceivedIs
    <3>2. w.kind = "number" /\ w.halves = v.halves /\ v.halves \in Int
      BY <2>1 DEF Number, Whole
    <3>3. IsFloat(w)
      BY <3>2 DEF IsFloat
    <3>4. Tree(w)
      BY <3>2, LeafIs
    <3>5. Received(w) = w
      BY <3>2, <3>4, ReceivedIs
    <3> HIDE DEF w
    <3> QED  BY <1>1, <1>4, <3>1, <3>2, <3>3, <3>5 DEF IsNumeral
  <2>3. CASE ~Safe(v.halves)
    <3>1. Received(v) = v
      BY <1>2, <2>1, <2>3, ReceivedIs
    <3> QED  BY <1>1, <1>4, <3>1
  <2> QED  BY <2>2, <2>3
<1> QED  BY <1>3, <1>4

\* Leaves other than numbers are the same in every form.
LEMMA PlainReceived ==
  ASSUME NEW v, v.kind \in {"null", "bool", "string", "link", "bytes"}
  PROVE  Received(v) = v /\ AsHeld(v) = v /\ PromisedToIpld(v) = v /\ IpldToPromised(v) = v
<1>1. Tree(v)
  BY LeafIs
<1>2. Received(v) = v
  BY <1>1, ReceivedIs
<1>3. AsHeld(v) = v
  BY <1>1, HeldIs
<1>4. PromisedToIpld(v) = v
  BY <1>1, PlainIs DEF Waits
<1>5. IpldToPromised(v) = v
  BY <1>1, PromoteIs
<1> QED  BY <1>2, <1>3, <1>4, <1>5

\* The items of a list of a type, and the entries of a map.
LEMMA ItemsAre ==
  ASSUME NEW v, NEW n \in Nat, LowTree(v, n + 1)
  PROVE  /\ v.kind = "list" => \A i \in DOMAIN v.items :
              /\ LowTree(v.items[i], n) /\ Tree(v.items[i])
              /\ (IsData(v) => IsData(v.items[i])) /\ (IsPromised(v) => IsPromised(v.items[i]))
         /\ v.kind = "map" => \A k \in DOMAIN v.entries :
              /\ LowTree(v.entries[k], n) /\ Tree(v.entries[k])
              /\ (IsData(v) => IsData(v.entries[k])) /\ (IsPromised(v) => IsPromised(v.entries[k]))
<1>1. Tree(v)
  <2>1. n + 1 \in Nat
    OBVIOUS
  <2> QED  BY <2>1, TreeIs
<1>2. \A p \in Parts(v) : /\ LowTree(p, n) /\ Tree(p)
                          /\ IsData(v) => IsData(p)
                          /\ IsPromised(v) => IsPromised(p)
  BY <1>1, TreeIs, TypesSplit
<1> QED  BY <1>2, PartsAre

\* Data arrives as data, however high.
LEMMA DataReceived ==
  \A n \in Nat : \A v : LowTree(v, n) /\ IsData(v) => LowTree(Received(v), n) /\ IsData(Received(v))
<1> DEFINE T == {n \in Nat : \A v : LowTree(v, n) /\ IsData(v) =>
                   LowTree(Received(v), n) /\ IsData(Received(v))}
<1>1. 0 \in T
  BY TreeIs
<1>2. ASSUME NEW n \in Nat, n \in T  PROVE n + 1 \in T
  <2> SUFFICES ASSUME NEW v, LowTree(v, n + 1), IsData(v)
               PROVE  LowTree(Received(v), n + 1) /\ IsData(Received(v))
    OBVIOUS
  <2>1. Tree(v)
    <3>1. n + 1 \in Nat
      OBVIOUS
    <3> QED  BY <3>1, TreeIs
  <2>2. DataNode(v)
    BY <2>1, TypesSplit
  <2>3. CASE v.kind = "list"
    <3> DEFINE g == [i \in DOMAIN v.items |-> Received(v.items[i])]
    <3>1. Received(v) = List(g) /\ v.items \in Seq(Parts(v)) /\ g = [i \in DOMAIN v.items |-> g[i]]
      BY <2>1, <2>2, <2>3, ReceivedIs, DataShapeIs
    <3>2. \A i \in DOMAIN v.items : LowTree(g[i], n) /\ IsData(g[i])
      BY <1>2, <2>3, ItemsAre
    <3> HIDE DEF g
    <3> QED  BY <3>1, <3>2, ListBuilt
  <2>4. CASE v.kind = "map"
    <3> DEFINE e == [k \in DOMAIN v.entries |-> Received(v.entries[k])]
               o == Sorted(DOMAIN v.entries)
    <3>1. Received(v) = MapOf(e, o) /\ e = [k \in DOMAIN e |-> e[k]] /\ DOMAIN e = DOMAIN v.entries
      BY <2>1, <2>4, ReceivedIs
    <3>2. Lists(o, DOMAIN v.entries)
      BY <2>2, <2>4, DataShapeIs
    <3>3. \A k \in DOMAIN v.entries : LowTree(e[k], n) /\ IsData(e[k])
      BY <1>2, <2>4, ItemsAre
    <3>4. Lists(o, DOMAIN e) /\ Lists(Sorted(DOMAIN e), DOMAIN e)
      BY <3>1, <3>2
    <3> HIDE DEF e, o
    <3> QED  BY <3>1, <3>3, <3>4, MapBuilt
  <2>5. CASE v.kind \in {"number", "bigint"}
    <3>1. IsNumeral(v)
      BY <2>2, <2>5, DataShapeIs
    <3>2. IsNumeral(Received(v)) /\ Received(v).kind \in {"number", "bigint"}
      BY <3>1, NumeralReceived
    <3>3. LowTree(Received(v), 1) /\ IsData(Received(v))
      BY <3>2, LeafIs DEF DataNode
    <3>4. 1 <= n + 1 /\ 1 \in Nat /\ n + 1 \in Nat
      OBVIOUS
    <3> QED  BY <3>3, <3>4, TreeIs
  <2>6. CASE v.kind \notin {"list", "map", "number", "bigint"}
    <3>1. Received(v) = v
      BY <2>2, <2>6, DataShapeIs, PlainReceived
    <3> QED  BY <3>1
  <2> QED  BY <2>3, <2>4, <2>5, <2>6
<1> HIDE DEF T
<1>3. Nat \subseteq T
  BY <1>1, <1>2, SetInduction
<1> QED  BY <1>3 DEF T

\* And a second time as the first.
LEMMA ReceivedAgain ==
  \A n \in Nat : \A v : LowTree(v, n) /\ IsData(v) => Received(Received(v)) = Received(v)
<1> DEFINE T == {n \in Nat : \A v : LowTree(v, n) /\ IsData(v) => Received(Received(v)) = Received(v)}
<1>1. 0 \in T
  BY TreeIs
<1>2. ASSUME NEW n \in Nat, n \in T  PROVE n + 1 \in T
  <2> SUFFICES ASSUME NEW v, LowTree(v, n + 1), IsData(v)
               PROVE  Received(Received(v)) = Received(v)
    OBVIOUS
  <2>1. Tree(v) /\ Tree(Received(v))
    <3>1. n + 1 \in Nat
      OBVIOUS
    <3>2. LowTree(Received(v), n + 1)
      BY <3>1, DataReceived
    <3> QED  BY <3>1, <3>2, TreeIs
  <2>2. DataNode(v)
    BY <2>1, TypesSplit
  <2>3. CASE v.kind = "list"
    <3> DEFINE g == [i \in DOMAIN v.items |-> Received(v.items[i])]
    <3>1. Received(v) = List(g)
      BY <2>1, <2>3, ReceivedIs
    <3>2. \A i \in DOMAIN v.items : Received(g[i]) = g[i]
      BY <1>2, <2>3, ItemsAre
    <3>3. [i \in DOMAIN g |-> Received(g[i])] = g
      BY <3>2
    <3> HIDE DEF g
    <3>4. Received(List(g)) = List([i \in DOMAIN g |-> Received(g[i])])
      <4> DEFINE w == List(g)
      <4>1. w.kind = "list" /\ w.items = g /\ Tree(w)
        BY <2>1, <3>1, ListIs
      <4> HIDE DEF w
      <4>2. Received(w) = List([i \in DOMAIN g |-> Received(g[i])])
        BY <4>1, ReceivedIs
      <4> QED  BY <4>2 DEF w
    <3> QED  BY <3>1, <3>3, <3>4
  <2>4. CASE v.kind = "map"
    <3> DEFINE e == [k \in DOMAIN v.entries |-> Received(v.entries[k])]
               o == Sorted(DOMAIN v.entries)
    <3>1. Received(v) = MapOf(e, o) /\ DOMAIN e = DOMAIN v.entries
      BY <2>1, <2>4, ReceivedIs
    <3>2. \A k \in DOMAIN v.entries : Received(e[k]) = e[k]
      BY <1>2, <2>4, ItemsAre
    <3>3. [k \in DOMAIN e |-> Received(e[k])] = e
      BY <3>2
    <3> HIDE DEF e
    <3>4. Received(MapOf(e, o)) = MapOf([k \in DOMAIN e |-> Received(e[k])], Sorted(DOMAIN e))
      <4> DEFINE w == MapOf(e, o)
      <4>1. w.kind = "map" /\ w.entries = e /\ Tree(w)
        BY <2>1, <3>1, MapIs
      <4> HIDE DEF w
      <4>2. Received(w) = MapOf([k \in DOMAIN e |-> Received(e[k])], Sorted(DOMAIN e))
        BY <4>1, ReceivedIs
      <4> QED  BY <4>2 DEF w
    <3> QED  BY <3>1, <3>3, <3>4
  <2>5. CASE v.kind \in {"number", "bigint"}
    BY <2>2, <2>5, DataShapeIs, NumeralReceived
  <2>6. CASE v.kind \notin {"list", "map", "number", "bigint"}
    BY <2>2, <2>6, DataShapeIs, PlainReceived
  <2> QED  BY <2>3, <2>4, <2>5, <2>6
<1> HIDE DEF T
<1>3. Nat \subseteq T
  BY <1>1, <1>2, SetInduction
<1> QED  BY <1>3 DEF T

\* A wrapped number is held with the number as it arrives.
LEMMA NumberHeld ==
  ASSUME NEW p, p.kind \in {"integer", "float"}, PromisedShape(p)
  PROVE  /\ Tree(p) /\ IsNumeral(p.value) /\ PromisedToIpld(p) = p.value
         /\ p.kind = "integer" => p = Integer(p.value) /\ AsHeld(p) = Integer(Received(p.value))
         /\ p.kind = "float" => p = Float(p.value) /\ AsHeld(p) = Float(p.value) /\ IsFloat(p.value)
<1>1. Tree(p)
  BY LeafIs
<1>2. IsNumeral(p.value) /\ (p.kind = "float" => IsFloat(p.value) /\ Received(p.value) = p.value)
  BY ShapeIs, NumeralReceived DEF IsNumeral
<1>3. AsHeld(p) = [p EXCEPT !.value = Received(@)]
  BY <1>1, HeldIs
<1>4. p.kind = "integer" => p = Integer(p.value)
  BY ShapeIs
<1>5. p.kind = "float" => p = Float(p.value)
  BY ShapeIs
<1>6. p.kind = "integer" => AsHeld(p) = Integer(Received(p.value))
  BY <1>3, <1>4 DEF Integer
<1>7. p.kind = "float" => AsHeld(p) = Float(Received(p.value))
  BY <1>3, <1>5 DEF Float
<1> QED  BY <1>1, <1>2, <1>4, <1>5, <1>6, <1>7, PlainIs

\* A wait is held and written as it is.
LEMMA WaitHeld ==
  ASSUME NEW p, p.kind \in Waits
  PROVE  Tree(p) /\ AsHeld(p) = p /\ PromisedToIpld(p) = WaitingOn(p)
<1>1. Tree(p)
  BY LeafIs DEF Waits
<1> QED  BY <1>1, HeldIs, PlainIs DEF Waits

\* What is held of a promised value is one.
LEMMA HeldPromised ==
  \A n \in Nat : \A p : LowTree(p, n) /\ IsPromised(p) => LowTree(AsHeld(p), n) /\ IsPromised(AsHeld(p))
<1> DEFINE T == {n \in Nat : \A p : LowTree(p, n) /\ IsPromised(p) =>
                   LowTree(AsHeld(p), n) /\ IsPromised(AsHeld(p))}
<1>1. 0 \in T
  BY TreeIs
<1>2. ASSUME NEW n \in Nat, n \in T  PROVE n + 1 \in T
  <2> SUFFICES ASSUME NEW p, LowTree(p, n + 1), IsPromised(p)
               PROVE  LowTree(AsHeld(p), n + 1) /\ IsPromised(AsHeld(p))
    OBVIOUS
  <2>1. Tree(p)
    <3>1. n + 1 \in Nat
      OBVIOUS
    <3> QED  BY <3>1, TreeIs
  <2>2. PromisedShape(p)
    BY <2>1, TypesSplit
  <2>3. CASE p.kind = "list"
    <3> DEFINE g == [i \in DOMAIN p.items |-> AsHeld(p.items[i])]
    <3>1. AsHeld(p) = List(g) /\ p.items \in Seq(Parts(p)) /\ g = [i \in DOMAIN p.items |-> g[i]]
      BY <2>1, <2>2, <2>3, HeldIs, ShapeIs
    <3>2. \A i \in DOMAIN p.items : LowTree(g[i], n) /\ IsPromised(g[i])
      BY <1>2, <2>3, ItemsAre
    <3> HIDE DEF g
    <3> QED  BY <3>1, <3>2, ListBuilt
  <2>4. CASE p.kind = "map"
    <3> DEFINE e == [k \in DOMAIN p.entries |-> AsHeld(p.entries[k])]
               o == Sorted(DOMAIN p.entries)
    <3>1. AsHeld(p) = MapOf(e, o) /\ e = [k \in DOMAIN e |-> e[k]] /\ DOMAIN e = DOMAIN p.entries
      BY <2>1, <2>4, HeldIs
    <3>2. Lists(o, DOMAIN p.entries)
      BY <2>2, <2>4, ShapeIs
    <3>3. \A k \in DOMAIN p.entries : LowTree(e[k], n) /\ IsPromised(e[k])
      BY <1>2, <2>4, ItemsAre
    <3>4. Lists(o, DOMAIN e) /\ Lists(Sorted(DOMAIN e), DOMAIN e)
      BY <3>1, <3>2
    <3> HIDE DEF e, o
    <3> QED  BY <3>1, <3>3, <3>4, MapBuilt
  <2>5. CASE p.kind \in {"integer", "float"}
    <3> DEFINE h == AsHeld(p)
    <3>1. IsNumeral(p.value) /\ (p.kind = "integer" => h = Integer(Received(p.value)))
          /\ (p.kind = "float" => h = Float(p.value) /\ IsFloat(p.value))
      BY <2>2, <2>5, NumberHeld
    <3>2. IsNumeral(Received(p.value))
      BY <3>1, NumeralReceived
    <3> HIDE DEF h
    <3>3. h.kind \in {"integer", "float"} /\ PromisedShape(h)
      BY <2>5, <3>1, <3>2 DEF PromisedShape, Integer, Float
    <3>4. LowTree(h, 1) /\ IsPromised(h)
      BY <3>3, LeafIs
    <3>5. 1 <= n + 1 /\ 1 \in Nat /\ n + 1 \in Nat
      OBVIOUS
    <3>6. LowTree(h, n + 1)
      BY <3>4, <3>5, TreeIs
    <3> QED  BY <3>4, <3>6 DEF h
  <2>6. CASE p.kind \notin {"list", "map", "integer", "float"}
    <3>1. AsHeld(p) = p
      BY <2>1, <2>6, HeldIs
    <3> QED  BY <3>1
  <2> QED  BY <2>3, <2>4, <2>5, <2>6
<1> HIDE DEF T
<1>3. Nat \subseteq T
  BY <1>1, <1>2, SetInduction
<1> QED  BY <1>3 DEF T

\* The tags.
LEMMA TagsAre ==
  /\ PromisedTag("bool") = "Bool" /\ PromisedTag("integer") = "Integer" /\ PromisedTag("float") = "Float"
  /\ PromisedTag("string") = "String" /\ PromisedTag("bytes") = "Bytes" /\ PromisedTag("link") = "Link"
  /\ PromisedTag("list") = "List" /\ PromisedTag("map") = "Map"
  /\ PromisedTag("waitOk") = "WaitOk" /\ PromisedTag("waitErr") = "WaitErr" /\ PromisedTag("waitAny") = "WaitAny"
  /\ WaitTags = {"WaitOk", "WaitErr", "WaitAny"}
  /\ \A kind \in Waits : WaitFor(PromisedTag(kind)) = kind /\ PromisedTag(kind) \in WaitTags
  /\ \A tag \in WaitTags : WaitFor(tag) \in Waits /\ PromisedTag(WaitFor(tag)) = tag
<1>1. /\ PromisedTag("bool") = "Bool" /\ PromisedTag("integer") = "Integer" /\ PromisedTag("float") = "Float"
      /\ PromisedTag("string") = "String" /\ PromisedTag("bytes") = "Bytes" /\ PromisedTag("link") = "Link"
      /\ PromisedTag("list") = "List" /\ PromisedTag("map") = "Map"
  BY DEF PromisedTag
<1>2. PromisedTag("waitOk") = "WaitOk" /\ PromisedTag("waitErr") = "WaitErr" /\ PromisedTag("waitAny") = "WaitAny"
  BY DEF PromisedTag
<1>3. WaitTags = {"WaitOk", "WaitErr", "WaitAny"}
  BY <1>2 DEF WaitTags, Waits
<1>4. ASSUME NEW kind \in Waits  PROVE WaitFor(PromisedTag(kind)) = kind
  <2>1. \A other \in Waits : PromisedTag(other) = PromisedTag(kind) <=> other = kind
    BY <1>2 DEF Waits
  <2> QED  BY <2>1 DEF WaitFor
<1>5. \A kind \in Waits : PromisedTag(kind) \in WaitTags
  BY DEF WaitTags
<1>6. ASSUME NEW tag \in WaitTags  PROVE WaitFor(tag) \in Waits /\ PromisedTag(WaitFor(tag)) = tag
  <2>1. \E kind \in Waits : PromisedTag(kind) = tag
    BY DEF WaitTags
  <2> QED  BY <2>1 DEF WaitFor
<1> QED  BY <1>1, <1>2, <1>3, <1>4, <1>5, <1>6

\* What is read under a tag, case by case.
LEMMA UnderIs ==
  ASSUME NEW tag, NEW v
  PROVE  /\ tag = "Bool" /\ v.kind = "bool" => ReadUnder(tag, v) = v
         /\ tag = "Integer" /\ v.kind \in {"number", "bigint"} => ReadUnder(tag, v) = Integer(v)
         /\ tag = "Float" /\ v.kind = "number" => ReadUnder(tag, v) = Float(v)
         /\ tag = "String" /\ v.kind = "string" => ReadUnder(tag, v) = v
         /\ tag = "Bytes" /\ v.kind = "list" /\ (\A n \in DOMAIN v.items : IsByte(v.items[n])) =>
              ReadUnder(tag, v) = BytesOf([n \in DOMAIN v.items |-> v.items[n].halves \div 2])
         /\ tag = "Link" /\ v.kind = "link" => ReadUnder(tag, v) = v
         /\ tag \in WaitTags /\ v.kind = "link" => ReadUnder(tag, v) = Wait(WaitFor(tag), v.cid)
         /\ tag = "List" /\ v.kind = "list" =>
              ReadUnder(tag, v) = Listed([n \in DOMAIN v.items |-> WireIpldToPromised(v.items[n])])
         /\ tag = "Map" /\ v.kind = "map" =>
              ReadUnder(tag, v) = Mapped([k \in DOMAIN v.entries |-> WireIpldToPromised(v.entries[k])], v.order)
         /\ \/ tag = "Bool" /\ v.kind = "bool"
            \/ tag = "Integer" /\ v.kind \in {"number", "bigint"}
            \/ tag = "Float" /\ v.kind = "number"
            \/ tag = "String" /\ v.kind = "string"
            \/ tag = "Bytes" /\ v.kind = "list" /\ (\A n \in DOMAIN v.items : IsByte(v.items[n]))
            \/ tag = "Link" /\ v.kind = "link"
            \/ tag \in WaitTags /\ v.kind = "link"
            \/ tag = "List" /\ v.kind = "list"
            \/ tag = "Map" /\ v.kind = "map"
            \/ ReadUnder(tag, v) = Malformed
<1> DEFINE f == [y \in Parts(v) |-> WireIpldToPromised(y)]
<1>1. \A y \in Parts(v) : f[y] = WireIpldToPromised(y)
  OBVIOUS
<1>2. ReadUnder(tag, v) = ReadPromised(tag, v, f)
  BY Zenon DEF ReadUnder
<1> HIDE DEF f
<1>3. v.kind = "list" => [n \in DOMAIN v.items |-> f[v.items[n]]] = [n \in DOMAIN v.items |-> WireIpldToPromised(v.items[n])]
  <2> HAVE v.kind = "list"
  <2>1. \A n \in DOMAIN v.items : f[v.items[n]] = WireIpldToPromised(v.items[n])
    BY <1>1, PartsAre
  <2> QED  BY <2>1, Zenon
<1>4. v.kind = "map" =>
        [k \in DOMAIN v.entries |-> f[v.entries[k]]] = [k \in DOMAIN v.entries |-> WireIpldToPromised(v.entries[k])]
  <2> HAVE v.kind = "map"
  <2>1. \A k \in DOMAIN v.entries : f[v.entries[k]] = WireIpldToPromised(v.entries[k])
    BY <1>1, PartsAre
  <2> QED  BY <2>1, Zenon
<1>5. WaitTags = {"WaitOk", "WaitErr", "WaitAny"}
  BY TagsAre
<1>6. tag = "Bool" /\ v.kind = "bool" => ReadUnder(tag, v) = v
  BY <1>2 DEF ReadPromised
<1>7. tag = "Integer" /\ v.kind \in {"number", "bigint"} => ReadUnder(tag, v) = Integer(v)
  BY <1>2 DEF ReadPromised, ReadNumber, IsNumber
<1>8. tag = "Float" /\ v.kind = "number" => ReadUnder(tag, v) = Float(v)
  BY <1>2 DEF ReadPromised, ReadNumber, IsNumber
<1>9. tag = "String" /\ v.kind = "string" => ReadUnder(tag, v) = v
  BY <1>2 DEF ReadPromised
<1>10. tag = "Bytes" /\ v.kind = "list" /\ (\A n \in DOMAIN v.items : IsByte(v.items[n])) =>
         ReadUnder(tag, v) = BytesOf([n \in DOMAIN v.items |-> v.items[n].halves \div 2])
  BY <1>2 DEF ReadPromised
<1>11. tag = "Link" /\ v.kind = "link" => ReadUnder(tag, v) = v
  BY <1>2, <1>5 DEF ReadPromised
<1>12. tag \in WaitTags /\ v.kind = "link" => ReadUnder(tag, v) = Wait(WaitFor(tag), v.cid)
  BY <1>2, <1>5 DEF ReadPromised
<1>13. tag = "List" /\ v.kind = "list" =>
         ReadUnder(tag, v) = Listed([n \in DOMAIN v.items |-> WireIpldToPromised(v.items[n])])
  BY <1>2, <1>3, <1>5 DEF ReadPromised
<1>14. tag = "Map" /\ v.kind = "map" =>
         ReadUnder(tag, v) = Mapped([k \in DOMAIN v.entries |-> WireIpldToPromised(v.entries[k])], v.order)
  BY <1>2, <1>4, <1>5 DEF ReadPromised
<1>15. \/ tag = "Bool" /\ v.kind = "bool"
       \/ tag = "Integer" /\ v.kind \in {"number", "bigint"}
       \/ tag = "Float" /\ v.kind = "number"
       \/ tag = "String" /\ v.kind = "string"
       \/ tag = "Bytes" /\ v.kind = "list" /\ (\A n \in DOMAIN v.items : IsByte(v.items[n]))
       \/ tag = "Link" /\ v.kind = "link"
       \/ tag \in WaitTags /\ v.kind = "link"
       \/ tag = "List" /\ v.kind = "list"
       \/ tag = "Map" /\ v.kind = "map"
       \/ ReadUnder(tag, v) = Malformed
  BY <1>2 DEF ReadPromised, ReadNumber, IsNumber
<1> QED  BY <1>6, <1>7, <1>8, <1>9, <1>10, <1>11, <1>12, <1>13, <1>14, <1>15

\* DAG-CBOR lists one tag in one way.
LEMMA TagSorted == \A kind \in PromisedKinds : Sorted({PromisedTag(kind)}) = <<PromisedTag(kind)>>
BY ArgumentsAssumption

\* What is written under a tag, case by case.
LEMMA InsideIs ==
  ASSUME NEW p
  PROVE  /\ p.kind \in {"integer", "float"} => Inside(p) = p.value
         /\ p.kind = "bytes" => Inside(p) = List([n \in DOMAIN p.items |-> Number(2 * p.items[n])])
         /\ p.kind \in Waits => Inside(p) = Link(p.cid)
         /\ p.kind = "list" => Inside(p) = List([n \in DOMAIN p.items |-> PromisedToWireIpld(p.items[n])])
         /\ p.kind = "map" =>
              Inside(p) = MapOf([k \in DOMAIN p.entries |-> PromisedToWireIpld(p.entries[k])], p.order)
         /\ p.kind \in {"bool", "string", "link"} => Inside(p) = p
BY SMT DEF Inside, Waits

\* Bytes are written as a list of numbers, which arrives as it is.
LEMMA BytesInside ==
  ASSUME NEW p, p.kind = "bytes", PromisedShape(p)
  PROVE  /\ LowTree(Inside(p), 2) /\ IsData(Inside(p)) /\ Received(Inside(p)) = Inside(p)
         /\ Inside(p).kind = "list" /\ \A n \in DOMAIN Inside(p).items : IsByte(Inside(p).items[n])
         /\ BytesOf([n \in DOMAIN Inside(p).items |-> Inside(p).items[n].halves \div 2]) = p
<1> DEFINE g == [n \in DOMAIN p.items |-> Number(2 * p.items[n])]
<1>1. p = BytesOf(p.items) /\ p.items \in Seq(0..255)
  BY ShapeIs
<1>2. Inside(p) = List(g)
  BY InsideIs
<1>3. \A n \in DOMAIN p.items : p.items[n] \in 0..255 /\ g[n] = Number(2 * p.items[n])
  <2>1. ASSUME NEW n \in DOMAIN p.items  PROVE p.items[n] \in 0..255
    <3> DEFINE s == p.items
    <3>1. s \in Seq(0..255) /\ n \in DOMAIN s
      BY <1>1
    <3> HIDE DEF s
    <3>2. s[n] \in 0..255
      <4> DEFINE S == 0..255
      <4>1. s \in Seq(S) /\ n \in 1..Len(s)
        BY <3>1
      <4> HIDE DEF S
      <4>2. s[n] \in S
        BY <4>1, ElementOfSeq
      <4> QED  BY <4>2 DEF S
    <3> QED  BY <3>2 DEF s
  <2>2. \A n \in DOMAIN p.items : g[n] = Number(2 * p.items[n])
    BY Zenon
  <2> QED  BY <2>1, <2>2, Zenon
<1>4. g = [n \in DOMAIN p.items |-> g[n]] /\ DOMAIN g = DOMAIN p.items
  OBVIOUS
<1> HIDE DEF g
<1>5. ASSUME NEW n \in DOMAIN p.items
      PROVE  /\ g[n].kind = "number" /\ g[n].halves = 2 * p.items[n] /\ IsFloat(g[n]) /\ IsByte(g[n])
             /\ g[n].halves \div 2 = p.items[n]
  <2> DEFINE b == p.items[n]
  <2>1. b \in 0..255 /\ g[n] = Number(2 * b)
    BY <1>3
  <2> HIDE DEF b
  <2>2. 2 * b \in Int /\ (2 * b) % 2 = 0 /\ (2 * b) \div 2 = b /\ 2 * b \in 0..2 * 255
    BY <2>1
  <2>3. Number(2 * b).kind = "number" /\ Number(2 * b).halves = 2 * b
    BY DEF Number
  <2>4. IsFloat(g[n])
    BY <2>1, <2>2, <2>3 DEF IsFloat
  <2>5. IsByte(g[n])
    BY <2>1, <2>2, <2>3 DEF IsByte, Whole
  <2> QED  BY <2>1, <2>2, <2>3, <2>4, <2>5 DEF b
<1>6. \A n \in DOMAIN p.items : LowTree(g[n], 1) /\ Tree(g[n]) /\ IsData(g[n]) /\ Received(g[n]) = g[n]
  <2> TAKE n \in DOMAIN p.items
  <2>1. g[n].kind = "number" /\ IsNumeral(g[n]) /\ IsFloat(g[n])
    BY <1>5 DEF IsNumeral
  <2> QED  BY <2>1, LeafIs, NumeralReceived DEF DataNode
<1>7. LowTree(List(g), 1 + 1) /\ IsData(List(g))
  BY <1>1, <1>4, <1>6, ListBuilt
<1>8. Received(List(g)) = List(g)
  <2> DEFINE w == List(g)
  <2>1. w.kind = "list" /\ w.items = g /\ Tree(w)
    <3>1. 1 + 1 \in Nat
      OBVIOUS
    <3> QED  BY <1>7, <3>1, ListIs, TreeIs
  <2>2. [n \in DOMAIN g |-> Received(g[n])] = g
    BY <1>4, <1>6
  <2> HIDE DEF w
  <2>3. Received(w) = List([n \in DOMAIN g |-> Received(g[n])])
    BY <2>1, ReceivedIs
  <2> QED  BY <2>2, <2>3 DEF w
<1>9. BytesOf([n \in DOMAIN g |-> g[n].halves \div 2]) = p
  <2>1. p.items = [n \in DOMAIN p.items |-> p.items[n]]
    BY <1>1
  <2>2. [n \in DOMAIN g |-> g[n].halves \div 2] = p.items
    BY <1>4, <1>5, <2>1
  <2> QED  BY <1>1, <2>2
<1>10. 1 + 1 = 2
  OBVIOUS
<1>11. List(g).kind = "list" /\ List(g).items = g
  BY ListIs
<1>12. \A n \in DOMAIN g : IsByte(g[n])
  BY <1>4, <1>5
<1> QED  BY <1>2, <1>7, <1>8, <1>9, <1>10, <1>11, <1>12

\* A promised value is written as data.
LEMMA Written ==
  \A n \in Nat : \A p : LowTree(p, n) /\ IsPromised(p) =>
    LowTree(PromisedToWireIpld(p), 2 * n + 1) /\ IsData(PromisedToWireIpld(p))
<1> DEFINE T == {n \in Nat : \A p : LowTree(p, n) /\ IsPromised(p) =>
                   LowTree(PromisedToWireIpld(p), 2 * n + 1) /\ IsData(PromisedToWireIpld(p))}
<1>1. 0 \in T
  BY TreeIs
<1>2. ASSUME NEW n \in Nat, n \in T  PROVE n + 1 \in T
  <2> SUFFICES ASSUME NEW p, LowTree(p, n + 1), IsPromised(p)
               PROVE  LowTree(PromisedToWireIpld(p), 2 * (n + 1) + 1) /\ IsData(PromisedToWireIpld(p))
    OBVIOUS
  <2>1. Tree(p)
    <3>1. n + 1 \in Nat
      OBVIOUS
    <3> QED  BY <3>1, TreeIs
  <2>2. PromisedShape(p)
    BY <2>1, TypesSplit
  <2> DEFINE m == 2 * n + 1
             w == PromisedToWireIpld(p)
             i == Inside(p)
             tag == PromisedTag(p.kind)
  <2>3. m \in Nat /\ m + 1 \in Nat /\ (m + 1) + 1 = 2 * (n + 1) + 1 /\ 1 <= m + 1 /\ 2 <= m + 1 /\ 1 <= (m + 1) + 1
    OBVIOUS
  <2>4. w = IF p = Null THEN Str("Null") ELSE Tagged(tag, i)
    BY <2>1, WriteIs
  <2>5. \A q : LowTree(q, n) /\ IsPromised(q) =>
          LowTree(PromisedToWireIpld(q), m) /\ IsData(PromisedToWireIpld(q))
    BY <1>2
  <2> HIDE DEF m, w, i, tag
  <2>6. CASE p = Null
    <3>1. w = Str("Null") /\ w.kind = "string"
      BY <2>4, <2>6 DEF Str
    <3>2. DataNode(w)
      BY <3>1 DEF DataNode, IsCommon, Str
    <3>3. LowTree(w, 1) /\ IsData(w)
      BY <3>1, <3>2, LeafIs
    <3>4. LowTree(w, (m + 1) + 1)
      BY <2>3, <3>3, TreeIs
    <3> QED  BY <2>3, <3>3, <3>4 DEF w
  <2>7. CASE p # Null
    <3>1. LowTree(i, m + 1) /\ IsData(i)
      <4>1. CASE p.kind = "list"
        <5> DEFINE g == [j \in DOMAIN p.items |-> PromisedToWireIpld(p.items[j])]
        <5>1. i = List(g) /\ p.items \in Seq(Parts(p)) /\ g = [j \in DOMAIN p.items |-> g[j]]
          BY <2>2, <4>1, InsideIs, ShapeIs DEF i
        <5>2. \A j \in DOMAIN p.items : LowTree(g[j], m) /\ IsData(g[j])
          BY <2>5, <4>1, ItemsAre
        <5> HIDE DEF g
        <5> QED  BY <2>3, <5>1, <5>2, ListBuilt
      <4>2. CASE p.kind = "map"
        <5> DEFINE e == [k \in DOMAIN p.entries |-> PromisedToWireIpld(p.entries[k])]
        <5>1. i = MapOf(e, p.order) /\ e = [k \in DOMAIN e |-> e[k]] /\ DOMAIN e = DOMAIN p.entries
          BY <4>2, InsideIs DEF i
        <5>2. Lists(p.order, DOMAIN e) /\ Lists(Sorted(DOMAIN e), DOMAIN e)
          BY <2>2, <4>2, <5>1, ShapeIs
        <5>3. \A k \in DOMAIN p.entries : LowTree(e[k], m) /\ IsData(e[k])
          BY <2>5, <4>2, ItemsAre
        <5> HIDE DEF e
        <5> QED  BY <2>3, <5>1, <5>2, <5>3, MapBuilt
      <4>3. CASE p.kind = "bytes"
        <5>1. LowTree(i, 2) /\ IsData(i)
          BY <2>2, <4>3, BytesInside DEF i
        <5> QED  BY <2>3, <5>1, TreeIs
      <4>4. CASE p.kind \in {"integer", "float", "bool", "string", "link"} \cup Waits
        <5>1. i.kind \notin {"list", "map"} /\ DataNode(i)
          <6>1. CASE p.kind \in {"integer", "float"}
            <7>1. i = p.value
              BY <6>1, InsideIs, Zenon DEF i
            <7>2. IsNumeral(p.value)
              BY <2>2, <6>1, NumberHeld
            <7>3. IsNumeral(i)
              BY <7>1, <7>2
            <7> QED  BY <7>3, NumeralReceived DEF DataNode
          <6>2. CASE p.kind \in {"bool", "string", "link"}
            <7>1. i = p /\ IsCommon(p)
              BY <2>2, <6>2, InsideIs, ShapeIs DEF i, Waits
            <7> QED  BY <6>2, <7>1 DEF DataNode
          <6>3. CASE p.kind \in Waits
            <7>1. i = Link(p.cid)
              BY <6>3, InsideIs DEF i
            <7> QED  BY <7>1 DEF DataNode, IsCommon, Link
          <6> QED  BY <4>4, <6>1, <6>2, <6>3
        <5>2. LowTree(i, 1) /\ IsData(i)
          BY <5>1, LeafIs
        <5> QED  BY <2>3, <5>2, TreeIs
      <4> QED  BY <2>2, <2>7, <4>1, <4>2, <4>3, <4>4, ShapeIs
    <3>2. Sorted({tag}) = <<tag>>
      <4>1. p.kind \in PromisedKinds
        BY <2>2, <2>7, ShapeIs DEF PromisedKinds
      <4> QED  BY <4>1, TagSorted DEF tag
    <3>3. LowTree(Tagged(tag, i), (m + 1) + 1) /\ IsData(Tagged(tag, i))
      BY <2>3, <3>1, <3>2, TaggedBuilt
    <3> QED  BY <2>3, <2>4, <2>7, <3>3 DEF w
  <2> QED  BY <2>6, <2>7
<1> HIDE DEF T
<1>3. Nat \subseteq T
  BY <1>1, <1>2, SetInduction
<1> QED  BY <1>3 DEF T

\* Neither a promised value nor data is thrown.
LEMMA NotThrown == \A v : PromisedShape(v) \/ DataNode(v) => ~Threw(v)
<1> TAKE v
<1>1. PromisedShape(v) => ~Threw(v)
  BY ShapeIs DEF Threw, Waits
<1>2. DataNode(v) => ~Threw(v)
  BY DataShapeIs DEF Threw
<1> QED  BY <1>1, <1>2

\* If none throws there is a whole, and if one does, one of them is thrown.
LEMMA WholeIs ==
  ASSUME NEW S, NEW vs \in Seq(S), NEW whole
  PROVE  /\ (\A n \in DOMAIN vs : ~Threw(vs[n])) => AllOf(vs, whole) = whole
         /\ ~(\A n \in DOMAIN vs : ~Threw(vs[n])) =>
              \E n \in DOMAIN vs : AllOf(vs, whole) = vs[n] /\ Threw(vs[n])
<1> DEFINE bad == {n \in DOMAIN vs : Threw(vs[n])}
<1>1. AllOf(vs, whole) = IF bad = {} THEN whole ELSE vs[Min(bad)]
  BY Zenon DEF AllOf
<1>2. ASSUME bad # {}  PROVE Min(bad) \in bad
  <2>1. bad \in SUBSET Nat
    OBVIOUS
  <2> HIDE DEF bad
  <2>2. \E n \in bad : \A m \in bad : n <= m
    BY <1>2, <2>1, LeastNumber
  <2> QED  BY <2>2 DEF Min
<1>3. (\A n \in DOMAIN vs : ~Threw(vs[n])) <=> bad = {}
  OBVIOUS
<1>4. \A n : n \in bad => n \in DOMAIN vs /\ Threw(vs[n])
  OBVIOUS
<1> HIDE DEF bad
<1> QED  BY <1>1, <1>2, <1>3, <1>4

\* So it is for a list, and for a map by its keys.
LEMMA ListedIs ==
  ASSUME NEW S, NEW s \in Seq(S), NEW vs, vs = [n \in DOMAIN s |-> vs[n]]
  PROVE  /\ (\A n \in DOMAIN vs : ~Threw(vs[n])) => Listed(vs) = List(vs)
         /\ ~(\A n \in DOMAIN vs : ~Threw(vs[n])) => \E n \in DOMAIN vs : Listed(vs) = vs[n] /\ Threw(vs[n])
<1>1. vs \in Seq({vs[n] : n \in DOMAIN vs})
  BY RowIs
<1> DEFINE whole == List(vs)
<1>2. Listed(vs) = AllOf(vs, whole)
  BY DEF Listed
<1> HIDE DEF whole
<1>3. /\ (\A n \in DOMAIN vs : ~Threw(vs[n])) => AllOf(vs, whole) = whole
      /\ ~(\A n \in DOMAIN vs : ~Threw(vs[n])) =>
           \E n \in DOMAIN vs : AllOf(vs, whole) = vs[n] /\ Threw(vs[n])
  BY <1>1, WholeIs
<1> QED  BY <1>2, <1>3 DEF whole

\* and so is a map.
LEMMA MappedIs ==
  ASSUME NEW f, NEW order, Lists(order, DOMAIN f)
  PROVE  /\ (\A k \in DOMAIN f : ~Threw(f[k])) => Mapped(f, order) = MapOf(f, order)
         /\ ~(\A k \in DOMAIN f : ~Threw(f[k])) =>
              \E k \in DOMAIN f : Mapped(f, order) = f[k] /\ Threw(f[k])
<1> DEFINE vs == [n \in DOMAIN order |-> f[order[n]]]
<1>1. order \in Seq(DOMAIN f) /\ DOMAIN f = {order[n] : n \in DOMAIN order}
  BY DEF Lists
<1>2. vs = [n \in DOMAIN order |-> vs[n]]
  OBVIOUS
<1>3. \A n \in DOMAIN order : vs[n] = f[order[n]]
  OBVIOUS
<1>4. Mapped(f, order) = AllOf(vs, MapOf(f, order))
  BY Zenon DEF Mapped
<1> HIDE DEF vs
<1>5. vs \in Seq({vs[n] : n \in DOMAIN vs}) /\ DOMAIN vs = DOMAIN order
  BY <1>1, <1>2, RowIs
<1>6. (\A k \in DOMAIN f : ~Threw(f[k])) <=> \A n \in DOMAIN vs : ~Threw(vs[n])
  BY <1>1, <1>3, <1>5
<1>7. CASE \A n \in DOMAIN vs : ~Threw(vs[n])
  <2>1. AllOf(vs, MapOf(f, order)) = MapOf(f, order)
    BY <1>5, <1>7, WholeIs
  <2> QED  BY <1>4, <1>6, <1>7, <2>1
<1>8. CASE ~\A n \in DOMAIN vs : ~Threw(vs[n])
  <2>1. PICK n \in DOMAIN vs : AllOf(vs, MapOf(f, order)) = vs[n] /\ Threw(vs[n])
    BY <1>5, <1>8, WholeIs
  <2>2. order[n] \in DOMAIN f /\ vs[n] = f[order[n]]
    BY <1>1, <1>3, <1>5
  <2> QED  BY <1>4, <1>6, <1>8, <2>1, <2>2
<1> QED  BY <1>7, <1>8

\* What is read of one tag.
LEMMA ReadTagged ==
  ASSUME NEW tag, NEW v, Tree(Tagged(tag, v)), IsData(Tagged(tag, v))
  PROVE  WireIpldToPromised(Tagged(tag, v)) = ReadUnder(tag, v)
<1> DEFINE t == Tagged(tag, v)
<1>1. t # Str("Null") /\ t.kind = "map" /\ t.order = <<tag>> /\ t.entries[tag] = v
  <2>1. t # Str("Null")
    BY TaggedIs
  <2>2. t.kind = "map"
    BY SMT DEF Tagged, MapOf
  <2>3. t.order = <<tag>>
    BY TaggedIs
  <2>4. t.entries[tag] = v
    BY TaggedIs
  <2> QED  BY <2>1, <2>2, <2>3, <2>4
<1> HIDE DEF t
<1>2. Len(t.order) = 1 /\ t.order[1] = tag
  BY <1>1
<1>3. Tree(t) /\ IsData(t)
  BY DEF t
<1>4. WireIpldToPromised(t) = ReadUnder(t.order[1], t.entries[t.order[1]])
  BY <1>1, <1>2, <1>3, ReadIs, Zenon
<1> QED  BY <1>1, <1>2, <1>4 DEF t

\* What was written is read as what was written, as its receiver holds it.
LEMMA ReadBack ==
  \A n \in Nat : \A p : LowTree(p, n) /\ IsPromised(p) =>
    WireIpldToPromised(Received(PromisedToWireIpld(p))) = AsHeld(p)
<1> DEFINE T == {n \in Nat : \A p : LowTree(p, n) /\ IsPromised(p) =>
                   WireIpldToPromised(Received(PromisedToWireIpld(p))) = AsHeld(p)}
<1>1. 0 \in T
  BY TreeIs
<1>2. ASSUME NEW n \in Nat, n \in T  PROVE n + 1 \in T
  <2> SUFFICES ASSUME NEW p, LowTree(p, n + 1), IsPromised(p)
               PROVE  WireIpldToPromised(Received(PromisedToWireIpld(p))) = AsHeld(p)
    OBVIOUS
  <2>1. Tree(p) /\ n + 1 \in Nat
    <3>1. n + 1 \in Nat
      OBVIOUS
    <3> QED  BY <3>1, TreeIs
  <2>2. PromisedShape(p)
    BY <2>1, TypesSplit
  <2> DEFINE w == PromisedToWireIpld(p)
             i == Inside(p)
             u == Received(i)
             tag == PromisedTag(p.kind)
  <2>3. w = IF p = Null THEN Str("Null") ELSE Tagged(tag, i)
    BY <2>1, WriteIs
  <2>4. Tree(w) /\ IsData(w) /\ Tree(Received(w)) /\ IsData(Received(w))
    <3>1. 2 * (n + 1) + 1 \in Nat
      OBVIOUS
    <3>2. LowTree(w, 2 * (n + 1) + 1) /\ IsData(w)
      BY <2>1, Written
    <3> HIDE DEF w
    <3>3. LowTree(Received(w), 2 * (n + 1) + 1) /\ IsData(Received(w))
      BY <3>1, <3>2, DataReceived
    <3> QED  BY <3>1, <3>2, <3>3, TreeIs
  <2>5. \A q : LowTree(q, n) /\ IsPromised(q) =>
          WireIpldToPromised(Received(PromisedToWireIpld(q))) = AsHeld(q) /\ ~Threw(AsHeld(q))
    <3>1. \A q : LowTree(q, n) /\ IsPromised(q) => ~Threw(AsHeld(q))
      <4> TAKE q
      <4> HAVE LowTree(q, n) /\ IsPromised(q)
      <4>1. Tree(AsHeld(q)) /\ IsPromised(AsHeld(q))
        BY HeldPromised, TreeIs
      <4> QED  BY <4>1, TypesSplit, NotThrown
    <3> QED  BY <1>2, <3>1
  <2> HIDE DEF w
  <2>6. CASE p = Null
    <3>1. w = Str("Null") /\ w.kind = "string" /\ p.kind = "null"
      BY <2>3, <2>6 DEF Str, Null
    <3>2. Received(w) = w /\ AsHeld(p) = p
      BY <3>1, PlainReceived
    <3>3. WireIpldToPromised(w) = Null
      BY <2>4, <3>1, ReadIs
    <3> QED  BY <2>6, <3>2, <3>3 DEF w
  <2>7. CASE p # Null
    <3>1. p.kind \in PromisedKinds
      BY <2>2, <2>7, ShapeIs DEF PromisedKinds
    <3>2. Sorted({tag}) = <<tag>>
      BY <3>1, TagSorted
    <3> HIDE DEF tag, u, i
    <3>3. w = Tagged(tag, i) /\ Parts(w) = {i}
      BY <2>3, <2>7, TaggedIs
    <3>4. Tree(i) /\ IsData(i)
      BY <2>4, <3>3, NearTrees, TypesSplit
    <3>5. Received(w) = Tagged(tag, u)
      BY <3>2, <3>3, <3>4, TaggedReceived DEF u
    <3>6. WireIpldToPromised(Received(w)) = ReadUnder(tag, u)
      BY <2>4, <3>5, ReadTagged
    <3>7. ReadUnder(tag, u) = AsHeld(p)
      <4>1. CASE p.kind = "list"
        <5> DEFINE g == [j \in DOMAIN p.items |-> PromisedToWireIpld(p.items[j])]
                   r == [j \in DOMAIN g |-> Received(g[j])]
                   h == [j \in DOMAIN r |-> WireIpldToPromised(r[j])]
        <5>1. i = List(g) /\ tag = "List" /\ p.items \in Seq(Parts(p))
          <6>1. i = List(g)
            BY <4>1, InsideIs DEF i
          <6>2. tag = "List"
            BY <4>1, TagsAre DEF tag
          <6>3. p.items \in Seq(Parts(p))
            BY <2>2, <4>1, ShapeIs
          <6> QED  BY <6>1, <6>2, <6>3
        <5>2. \A j \in DOMAIN p.items : h[j] = AsHeld(p.items[j]) /\ ~Threw(h[j])
          <6>1. ASSUME NEW j \in DOMAIN p.items
                PROVE  h[j] = WireIpldToPromised(Received(PromisedToWireIpld(p.items[j])))
            OBVIOUS
          <6> HIDE DEF h
          <6>2. ASSUME NEW j \in DOMAIN p.items
                PROVE  LowTree(p.items[j], n) /\ IsPromised(p.items[j])
            BY <4>1, ItemsAre
          <6> QED  BY <2>5, <6>1, <6>2
        <5>3. h = [j \in DOMAIN p.items |-> h[j]] /\ DOMAIN h = DOMAIN p.items
          OBVIOUS
        <5>4. h = [j \in DOMAIN p.items |-> AsHeld(p.items[j])]
          BY <5>2
        <5> HIDE DEF g
        <5>5. u = List(r)
          <6>1. i.kind = "list" /\ i.items = g
            BY <5>1, ListIs
          <6> QED  BY <3>4, <6>1, ReceivedIs DEF u
        <5> HIDE DEF r
        <5>6. u.kind = "list" /\ u.items = r
          BY <5>5, ListIs
        <5>7. ReadUnder(tag, u) = Listed(h)
          <6>1. ReadUnder(tag, u) = Listed([j \in DOMAIN u.items |-> WireIpldToPromised(u.items[j])])
            BY <5>1, <5>6, UnderIs, Zenon
          <6> QED  BY <5>6, <6>1, Zenon
        <5> HIDE DEF h
        <5>8. Listed(h) = List(h)
          BY <5>1, <5>2, <5>3, ListedIs
        <5>9. AsHeld(p) = List(h)
          BY <2>1, <4>1, <5>4, HeldIs
        <5> QED  BY <5>7, <5>8, <5>9
      <4>2. CASE p.kind = "map"
        <5> DEFINE e == [k \in DOMAIN p.entries |-> PromisedToWireIpld(p.entries[k])]
                   o == Sorted(DOMAIN p.entries)
                   r == [k \in DOMAIN e |-> Received(e[k])]
                   h == [k \in DOMAIN r |-> WireIpldToPromised(r[k])]
        <5>1. i = MapOf(e, p.order) /\ tag = "Map" /\ Lists(o, DOMAIN p.entries)
          <6>1. i = MapOf(e, p.order)
            BY <4>2, InsideIs DEF i
          <6>2. tag = "Map"
            BY <4>2, TagsAre DEF tag
          <6>3. Lists(o, DOMAIN p.entries)
            BY <2>2, <4>2, ShapeIs
          <6> QED  BY <6>1, <6>2, <6>3
        <5>2. \A k \in DOMAIN p.entries : h[k] = AsHeld(p.entries[k]) /\ ~Threw(h[k])
          BY <2>5, <4>2, ItemsAre
        <5>3. DOMAIN h = DOMAIN p.entries /\ DOMAIN e = DOMAIN p.entries
          OBVIOUS
        <5>4. h = [k \in DOMAIN p.entries |-> AsHeld(p.entries[k])]
          BY <5>2
        <5> HIDE DEF e
        <5>5. u = MapOf(r, o)
          <6>1. i.kind = "map" /\ i.entries = e
            BY <5>1, MapIs
          <6> QED  BY <3>4, <5>3, <6>1, ReceivedIs DEF u
        <5> HIDE DEF r, o
        <5>6. u.kind = "map" /\ u.entries = r /\ u.order = o
          BY <5>5, MapIs
        <5>7. ReadUnder(tag, u) = Mapped(h, o)
          BY <5>1, <5>6, UnderIs
        <5> HIDE DEF h
        <5>8. Mapped(h, o) = MapOf(h, o)
          BY <5>1, <5>2, <5>3, MappedIs
        <5>9. AsHeld(p) = MapOf(h, o)
          BY <2>1, <4>2, <5>4, HeldIs DEF o
        <5> QED  BY <5>7, <5>8, <5>9
      <4>3. CASE p.kind = "bytes"
        <5>1. tag = "Bytes" /\ AsHeld(p) = p
          BY <4>3, TagsAre, PlainReceived DEF tag
        <5>2. u = i
          BY <2>2, <4>3, BytesInside DEF i, u
        <5>3. /\ i.kind = "list" /\ \A j \in DOMAIN i.items : IsByte(i.items[j])
              /\ BytesOf([j \in DOMAIN i.items |-> i.items[j].halves \div 2]) = p
          BY <2>2, <4>3, BytesInside DEF i
        <5> QED  BY <5>1, <5>2, <5>3, UnderIs
      <4>4. CASE p.kind \in {"integer", "float"}
        <5>1. /\ IsNumeral(p.value) /\ (p.kind = "integer" => AsHeld(p) = Integer(Received(p.value)))
              /\ (p.kind = "float" => AsHeld(p) = Float(p.value) /\ IsFloat(p.value))
          BY <2>2, <4>4, NumberHeld
        <5>2. i = p.value
          BY <4>4, InsideIs, Zenon DEF i
        <5>3. u = Received(p.value) /\ u.kind \in {"number", "bigint"}
          BY <5>1, <5>2, NumeralReceived DEF u
        <5>4. p.kind = "float" => u = p.value /\ u.kind = "number"
          BY <5>1, <5>3, NumeralReceived DEF IsFloat
        <5>5. CASE p.kind = "integer"
          <6>1. tag = "Integer"
            BY <5>5, TagsAre DEF tag
          <6> QED  BY <5>1, <5>3, <5>5, <6>1, UnderIs
        <5>6. CASE p.kind = "float"
          <6>1. tag = "Float"
            BY <5>6, TagsAre DEF tag
          <6>2. ReadUnder(tag, u) = Float(u)
            BY <5>4, <5>6, <6>1, UnderIs, Zenon
          <6> QED  BY <5>1, <5>4, <5>6, <6>2
        <5> QED  BY <4>4, <5>5, <5>6
      <4>5. CASE p.kind \in {"bool", "string", "link"}
        <5>1. i = p /\ AsHeld(p) = p /\ Received(p) = p
          <6>1. AsHeld(p) = p /\ Received(p) = p
            BY <4>5, PlainReceived
          <6>2. i = p
            BY <4>5, InsideIs, Zenon DEF i
          <6> QED  BY <6>1, <6>2
        <5>2. u = p
          BY <5>1 DEF u
        <5>3. ReadUnder(tag, p) = p
          <6>1. \/ p.kind = "bool" /\ tag = "Bool"
                \/ p.kind = "string" /\ tag = "String"
                \/ p.kind = "link" /\ tag = "Link"
            BY <4>5, TagsAre DEF tag
          <6> QED  BY <6>1, UnderIs, Zenon
        <5> QED  BY <5>1, <5>2, <5>3
      <4>6. CASE p.kind \in Waits
        <5>1. i = Link(p.cid) /\ AsHeld(p) = p /\ p = Wait(p.kind, p.cid)
          BY <2>2, <4>6, InsideIs, WaitHeld, ShapeIs DEF i
        <5>2. u = Link(p.cid) /\ u.kind = "link" /\ u.cid = p.cid
          <6>1. Link(p.cid).kind = "link" /\ Link(p.cid).cid = p.cid
            BY DEF Link
          <6>2. Received(Link(p.cid)) = Link(p.cid)
            BY <6>1, PlainReceived
          <6> QED  BY <5>1, <6>1, <6>2 DEF u
        <5>3. tag \in WaitTags /\ WaitFor(tag) = p.kind
          BY <4>6, TagsAre DEF tag
        <5>4. ReadUnder(tag, u) = Wait(WaitFor(tag), u.cid)
          BY <5>2, <5>3, UnderIs
        <5> QED  BY <5>1, <5>2, <5>3, <5>4
      <4> QED  BY <2>2, <2>7, <4>1, <4>2, <4>3, <4>4, <4>5, <4>6, ShapeIs
    <3> QED  BY <3>6, <3>7 DEF w
  <2> QED  BY <2>6, <2>7
<1> HIDE DEF T
<1>3. Nat \subseteq T
  BY <1>1, <1>2, SetInduction
<1> QED  BY <1>3 DEF T

\* What arrives as it is has parts that do.
LEMMA SettledParts ==
  ASSUME NEW v, Tree(v), IsData(v), Received(v) = v
  PROVE  /\ v.kind = "list" => \A n \in DOMAIN v.items : Received(v.items[n]) = v.items[n]
         /\ v.kind = "map" => /\ v.order = Sorted(DOMAIN v.entries)
                              /\ \A k \in DOMAIN v.entries : Received(v.entries[k]) = v.entries[k]
<1>1. ASSUME v.kind = "list", NEW n \in DOMAIN v.items  PROVE Received(v.items[n]) = v.items[n]
  <2> DEFINE g == [j \in DOMAIN v.items |-> Received(v.items[j])]
  <2>1. v = List(g)
    BY <1>1, ReceivedIs
  <2>2. g[n] = Received(v.items[n])
    BY <1>1
  <2> HIDE DEF g
  <2>3. v.items = g
    BY <2>1, ListIs
  <2> QED  BY <2>2, <2>3
<1>2. ASSUME v.kind = "map"
      PROVE  v.order = Sorted(DOMAIN v.entries) /\ \A k \in DOMAIN v.entries : Received(v.entries[k]) = v.entries[k]
  <2> DEFINE e == [k \in DOMAIN v.entries |-> Received(v.entries[k])]
             o == Sorted(DOMAIN v.entries)
  <2>1. v = MapOf(e, o)
    BY <1>2, ReceivedIs
  <2>2. \A k \in DOMAIN v.entries : e[k] = Received(v.entries[k])
    OBVIOUS
  <2> HIDE DEF e, o
  <2>3. v.entries = e /\ v.order = o
    BY <2>1, MapIs
  <2> QED  BY <2>2, <2>3 DEF o
<1> QED  BY <1>1, <1>2

\* A list of numbers that are bytes, read and written.
LEMMA BytesRead ==
  ASSUME NEW w, Tree(w), IsData(w), w.kind = "list", \A n \in DOMAIN w.items : IsByte(w.items[n]),
         NEW r, r = BytesOf([n \in DOMAIN w.items |-> w.items[n].halves \div 2])
  PROVE  PromisedShape(r) /\ r.kind = "bytes" /\ Inside(r) = w
<1> DEFINE b == [n \in DOMAIN w.items |-> w.items[n].halves \div 2]
<1>1. DataNode(w)
  BY TypesSplit
<1>2. w = List(w.items) /\ w.items \in Seq(Parts(w))
  BY <1>1, DataShapeIs
<1>3. \A n \in DOMAIN w.items : DataNode(w.items[n])
  <2>1. \A p \in Parts(w) : IsData(p) /\ Tree(p)
    BY NearTrees, TypesSplit
  <2> QED  BY <2>1, PartsAre, TypesSplit
<1>4. ASSUME NEW n \in DOMAIN w.items
      PROVE  w.items[n].halves \div 2 \in 0..255 /\ Number(2 * (w.items[n].halves \div 2)) = w.items[n]
  <2> DEFINE x == w.items[n]
             h == x.halves
  <2>1. DataNode(x) /\ IsByte(x)
    BY <1>3
  <2>2. x.kind = "number" /\ Whole(h) /\ h \in 0..2 * 255
    BY <2>1 DEF IsByte
  <2>3. x = Number(h)
    BY <2>1, <2>2, DataShapeIs DEF IsFloat
  <2> HIDE DEF h, x
  <2>4. h \in 0..2 * 255 /\ h % 2 = 0
    BY <2>2 DEF Whole
  <2>5. h \div 2 \in 0..255 /\ 2 * (h \div 2) = h
    BY <2>4
  <2> QED  BY <2>3, <2>5 DEF h, x
<1>5. b = [n \in DOMAIN w.items |-> b[n]] /\ DOMAIN b = DOMAIN w.items
  OBVIOUS
<1>6. \A n \in DOMAIN w.items : b[n] \in 0..255 /\ Number(2 * b[n]) = w.items[n]
  BY <1>4
<1>7. r = BytesOf(b)
  OBVIOUS
<1> HIDE DEF b
<1>8. r.kind = "bytes" /\ r.items = b
  BY <1>7 DEF BytesOf
<1>9. b \in Seq(0..255)
  <2>1. b \in Seq({b[n] : n \in DOMAIN b})
    BY <1>2, <1>5, RowIs
  <2>2. \A n \in DOMAIN b : b[n] \in 0..255
    BY <1>5, <1>6
  <2>3. DOMAIN b = 1..Len(b) /\ Len(b) \in Nat
    BY <2>1
  <2> DEFINE S == 0..255
  <2>4. \A n \in DOMAIN b : b[n] \in S
    BY <2>2
  <2>5. b = [n \in DOMAIN b |-> b[n]]
    BY <1>5
  <2> HIDE DEF S
  <2>6. b \in Seq(S)
    BY <2>3, <2>4, <2>5
  <2> QED  BY <2>6 DEF S
<1>10. PromisedShape(r)
  BY <1>7, <1>8, <1>9 DEF PromisedShape, IsCommon
<1>11. Inside(r) = w
  <2>1. Inside(r) = List([n \in DOMAIN b |-> Number(2 * b[n])])
    BY <1>8, InsideIs, Zenon
  <2>2. w.items = [n \in DOMAIN w.items |-> w.items[n]]
    BY <1>2
  <2>3. [n \in DOMAIN b |-> Number(2 * b[n])] = w.items
    BY <1>5, <1>6, <2>2
  <2> QED  BY <1>2, <2>1, <2>3
<1> QED  BY <1>8, <1>10, <1>11

\* A leaf that is read is written as it was.
LEMMA LeafRead ==
  ASSUME NEW tag, NEW w, Tree(w), IsData(w), Received(w) = w,
         ~Threw(ReadUnder(tag, w)), tag \notin {"List", "Map"}
  PROVE  /\ PromisedShape(ReadUnder(tag, w)) /\ ReadUnder(tag, w).kind \notin {"null", "list", "map"}
         /\ PromisedTag(ReadUnder(tag, w).kind) = tag /\ Inside(ReadUnder(tag, w)) = w
<1> DEFINE r == ReadUnder(tag, w)
<1>1. DataNode(w)
  BY TypesSplit
<1>2. r # Malformed
  BY DEF Threw, Malformed
<1>3. /\ tag = "Bool" /\ w.kind = "bool" => r = w
      /\ tag = "Integer" /\ w.kind \in {"number", "bigint"} => r = Integer(w)
      /\ tag = "Float" /\ w.kind = "number" => r = Float(w)
      /\ tag = "String" /\ w.kind = "string" => r = w
      /\ tag = "Bytes" /\ w.kind = "list" /\ (\A n \in DOMAIN w.items : IsByte(w.items[n])) =>
           r = BytesOf([n \in DOMAIN w.items |-> w.items[n].halves \div 2])
      /\ tag = "Link" /\ w.kind = "link" => r = w
      /\ tag \in WaitTags /\ w.kind = "link" => r = Wait(WaitFor(tag), w.cid)
  BY UnderIs, Zenon
<1>4. \/ tag = "Bool" /\ w.kind = "bool"
      \/ tag = "Integer" /\ w.kind \in {"number", "bigint"}
      \/ tag = "Float" /\ w.kind = "number"
      \/ tag = "String" /\ w.kind = "string"
      \/ tag = "Bytes" /\ w.kind = "list" /\ (\A n \in DOMAIN w.items : IsByte(w.items[n]))
      \/ tag = "Link" /\ w.kind = "link"
      \/ tag \in WaitTags /\ w.kind = "link"
  <2>1. tag # "List" /\ tag # "Map"
    OBVIOUS
  <2> QED  BY <1>2, <2>1, UnderIs, Zenon
<1> HIDE DEF r
<1>5. CASE \/ tag = "Bool" /\ w.kind = "bool"
           \/ tag = "String" /\ w.kind = "string"
           \/ tag = "Link" /\ w.kind = "link"
  <2>1. r = w /\ w.kind \in {"bool", "string", "link"}
    BY <1>3, <1>5
  <2>2. IsCommon(w)
    BY <1>1, <2>1, DataShapeIs
  <2>3. PromisedTag(w.kind) = tag
    BY <1>5, TagsAre
  <2>4. Inside(w) = w
    BY <2>1, InsideIs, Zenon
  <2> QED  BY <2>1, <2>2, <2>3, <2>4 DEF r, PromisedShape
<1>6. CASE tag = "Integer" /\ w.kind \in {"number", "bigint"}
  <2>1. r = Integer(w) /\ r.kind = "integer" /\ r.value = w
    BY <1>3, <1>6 DEF Integer
  <2>2. IsNumeral(w)
    BY <1>1, <1>6, DataShapeIs
  <2>3. PromisedTag(r.kind) = tag
    BY <1>6, <2>1, TagsAre
  <2>4. Inside(r) = w
    BY <2>1, InsideIs, Zenon
  <2>5. PromisedShape(r)
    BY <2>1, <2>2 DEF PromisedShape
  <2> QED  BY <2>1, <2>3, <2>4, <2>5 DEF r
<1>7. CASE tag = "Float" /\ w.kind = "number"
  <2>1. r = Float(w) /\ r.kind = "float" /\ r.value = w
    BY <1>3, <1>7 DEF Float
  <2>2. IsFloat(w)
    BY <1>1, <1>7, DataShapeIs
  <2>3. PromisedTag(r.kind) = tag
    BY <1>7, <2>1, TagsAre
  <2>4. Inside(r) = w
    BY <2>1, InsideIs, Zenon
  <2>5. PromisedShape(r)
    BY <2>1, <2>2 DEF PromisedShape
  <2> QED  BY <2>1, <2>3, <2>4, <2>5 DEF r
<1>8. CASE tag = "Bytes" /\ w.kind = "list" /\ (\A n \in DOMAIN w.items : IsByte(w.items[n]))
  <2>1. r = BytesOf([n \in DOMAIN w.items |-> w.items[n].halves \div 2])
    BY <1>3, <1>8, Zenon
  <2>2. PromisedShape(r) /\ r.kind = "bytes" /\ Inside(r) = w
    BY <1>8, <2>1, BytesRead
  <2>3. PromisedTag(r.kind) = tag
    BY <1>8, <2>2, TagsAre
  <2> QED  BY <2>2, <2>3 DEF r
<1>9. CASE tag \in WaitTags /\ w.kind = "link"
  <2> DEFINE kind == WaitFor(tag)
  <2>1. kind \in Waits /\ PromisedTag(kind) = tag
    BY <1>9, TagsAre
  <2>2. r = Wait(kind, w.cid)
    BY <1>3, <1>9, Zenon
  <2> HIDE DEF kind
  <2>3. r.kind = kind /\ r.cid = w.cid
    BY <2>2 DEF Wait
  <2>4. Inside(r) = Link(w.cid)
    BY <2>1, <2>3, InsideIs, Zenon
  <2>5. w = Link(w.cid)
    BY <1>1, <1>9, DataShapeIs
  <2>6. PromisedShape(r)
    BY <2>1, <2>2, <2>3 DEF PromisedShape
  <2>7. r.kind \notin {"null", "list", "map"}
    BY <2>1, <2>3 DEF Waits
  <2> QED  BY <2>1, <2>3, <2>4, <2>5, <2>6, <2>7 DEF r
<1> QED  BY <1>4, <1>5, <1>6, <1>7, <1>8, <1>9

\* What is read is a promised value, written as what was read.
ReadRightOf(v, n) ==
  LET r == WireIpldToPromised(v) IN
  ~Threw(r) => LowTree(r, n) /\ IsPromised(r) /\ Received(PromisedToWireIpld(r)) = v

\* By the depth of what was written.
LEMMA WrittenBack ==
  \A n \in Nat : \A v : LowTree(v, n) /\ IsData(v) /\ Received(v) = v => ReadRightOf(v, n)
<1> DEFINE T == {n \in Nat : \A v : LowTree(v, n) /\ IsData(v) /\ Received(v) = v => ReadRightOf(v, n)}
<1>1. 0 \in T
  BY TreeIs
<1>2. ASSUME NEW n \in Nat, n \in T  PROVE n + 1 \in T
  <2> SUFFICES ASSUME NEW v, LowTree(v, n + 1), IsData(v), Received(v) = v, ~Threw(WireIpldToPromised(v))
               PROVE  LET r == WireIpldToPromised(v) IN
                      LowTree(r, n + 1) /\ IsPromised(r) /\ Received(PromisedToWireIpld(r)) = v
    BY DEF ReadRightOf
  <2>1. Tree(v) /\ n + 1 \in Nat /\ 1 \in Nat /\ 1 <= n + 1
    <3>1. n + 1 \in Nat /\ 1 <= n + 1
      OBVIOUS
    <3> QED  BY <3>1, TreeIs
  <2>2. DataNode(v)
    BY <2>1, TypesSplit
  <2> DEFINE r == WireIpldToPromised(v)
             tag == v.order[1]
             w == v.entries[tag]
  <2>3. r # Malformed
    BY DEF Threw, Malformed
  <2>4. CASE v = Str("Null")
    <3>1. r = Null
      BY <2>1, <2>4, ReadIs
    <3> HIDE DEF r
    <3>2. r.kind = "null" /\ PromisedShape(r) /\ v.kind = "string"
      BY <2>4, <3>1 DEF Null, PromisedShape, IsCommon, Str
    <3>3. LowTree(r, 1) /\ IsPromised(r) /\ Tree(r)
      BY <3>2, LeafIs
    <3>4. LowTree(r, n + 1)
      BY <2>1, <3>3, TreeIs
    <3>5. PromisedToWireIpld(r) = v
      BY <2>4, <3>1, <3>3, WriteIs
    <3> QED  BY <3>3, <3>4, <3>5 DEF r
  <2>5. CASE v # Str("Null")
    <3>1. /\ v.kind = "map" /\ v = Tagged(tag, w) /\ r = ReadUnder(tag, w) /\ DOMAIN v.entries = {tag}
      <4>1. v.kind = "map" /\ Len(v.order) = 1
        BY <2>1, <2>3, <2>5, ReadIs
      <4> QED  BY <2>1, <2>5, <4>1, ReadIs
    <3>2. tag \in DOMAIN v.entries
      BY <3>1
    <3>3. LowTree(w, n) /\ Tree(w) /\ IsData(w) /\ Received(w) = w
      <4>1. Received(w) = w
        BY <2>1, <3>1, <3>2, SettledParts
      <4> QED  BY <3>1, <3>2, <4>1, ItemsAre
    <3>4. Sorted({tag}) = <<tag>>
      <4>1. Lists(Sorted({tag}), {tag})
        BY <2>2, <3>1, DataShapeIs
      <4> QED  BY <4>1, OneKey
    <3>5. DataNode(w)
      BY <3>3, TypesSplit
    <3>6. n # 0 /\ n - 1 \in Nat /\ (n - 1) + 1 = n /\ n - 1 <= n
      <4>1. n # 0
        BY <3>3, TreeIs
      <4> QED  BY <4>1
    \* What is under the tag is enough.
    <3>7. ASSUME LowTree(r, n + 1), IsPromised(r), r.kind # "null", PromisedTag(r.kind) = tag,
                 Tree(Inside(r)), Received(Inside(r)) = w
          PROVE  Received(PromisedToWireIpld(r)) = v
      <4> HIDE DEF r, tag, w
      <4>1. Tree(r)
        BY <2>1, <3>7, TreeIs
      <4>2. r # Null
        BY <3>7 DEF Null
      <4>3. PromisedToWireIpld(r) = Tagged(tag, Inside(r))
        BY <3>7, <4>1, <4>2, WriteIs
      <4>4. Received(Tagged(tag, Inside(r))) = Tagged(tag, Received(Inside(r)))
        BY <3>4, <3>7, TaggedReceived
      <4> QED  BY <3>1, <3>7, <4>3, <4>4
    <3>8. CASE tag \notin {"List", "Map"}
      <4>1. ~Threw(ReadUnder(tag, w))
        BY <3>1
      <4> HIDE DEF w, tag, r
      <4>2. /\ PromisedShape(r) /\ r.kind \notin {"null", "list", "map"}
            /\ PromisedTag(r.kind) = tag /\ Inside(r) = w
        BY <3>1, <3>3, <3>8, <4>1, LeafRead
      <4>3. LowTree(r, 1) /\ IsPromised(r)
        BY <4>2, LeafIs
      <4>4. LowTree(r, n + 1)
        BY <2>1, <4>3, TreeIs
      <4> QED  BY <3>3, <3>7, <4>2, <4>3, <4>4 DEF r
    <3>9. CASE tag = "List"
      <4> HIDE DEF w, tag
      <4>1. w.kind = "list"
        <5>1. ReadUnder(tag, w) # Malformed
          BY <2>3, <3>1
        <5>2. tag # "Bool" /\ tag # "Integer" /\ tag # "Float" /\ tag # "String" /\ tag # "Bytes" /\ tag # "Link"
              /\ tag \notin WaitTags /\ tag # "Map"
          BY <3>9, TagsAre
        <5> QED  BY <5>1, <5>2, UnderIs, Zenon
      <4> DEFINE g == [j \in DOMAIN w.items |-> WireIpldToPromised(w.items[j])]
                 s == [j \in DOMAIN g |-> PromisedToWireIpld(g[j])]
      <4>2. r = Listed(g)
        <5>1. ReadUnder(tag, w) = Listed(g)
          BY <3>9, <4>1, UnderIs, Zenon
        <5> QED  BY <3>1, <5>1
      <4>3. w = List(w.items) /\ w.items \in Seq(Parts(w))
        BY <3>5, <4>1, DataShapeIs
      <4>4. g = [j \in DOMAIN w.items |-> g[j]] /\ DOMAIN g = DOMAIN w.items
        OBVIOUS
      <4>5. \A j \in DOMAIN w.items : g[j] = WireIpldToPromised(w.items[j])
        OBVIOUS
      <4> HIDE DEF g, r
      <4>6. \A j \in DOMAIN w.items : ~Threw(g[j])
        <5>1. ~Threw(r)
          BY DEF r
        <5> QED  BY <4>2, <4>3, <4>4, <5>1, ListedIs
      <4>7. r = List(g)
        BY <4>2, <4>3, <4>4, <4>6, ListedIs
      <4>8. \A j \in DOMAIN w.items : LowTree(g[j], n) /\ IsPromised(g[j]) /\ Received(PromisedToWireIpld(g[j])) = w.items[j]
        <5>1. ASSUME NEW j \in DOMAIN w.items
              PROVE  LowTree(w.items[j], n) /\ IsData(w.items[j]) /\ Received(w.items[j]) = w.items[j]
          <6>1. LowTree(w.items[j], n - 1) /\ IsData(w.items[j])
            BY <3>3, <3>6, <4>1, ItemsAre
          <6>2. LowTree(w.items[j], n)
            BY <3>6, <6>1, TreeIs
          <6> QED  BY <3>3, <4>1, <6>1, <6>2, SettledParts
        <5>2. \A j \in DOMAIN w.items : ReadRightOf(w.items[j], n)
          BY <1>2, <5>1
        <5> QED  BY <4>5, <4>6, <5>2 DEF ReadRightOf
      <4>9. LowTree(r, n + 1) /\ IsPromised(r)
        BY <4>3, <4>4, <4>7, <4>8, ListBuilt
      <4>10. r.kind = "list" /\ r.items = g
        BY <4>7, ListIs
      <4>11. Inside(r) = List(s)
        BY <4>10, InsideIs, Zenon
      <4>12. \A j \in DOMAIN w.items : s[j] = PromisedToWireIpld(g[j])
        BY <4>4
      <4>13. s = [j \in DOMAIN w.items |-> s[j]] /\ DOMAIN s = DOMAIN w.items
        BY <4>4
      <4> HIDE DEF s
      <4>14. \A j \in DOMAIN w.items : LowTree(s[j], 2 * n + 1)
        BY <4>8, <4>12, Written
      <4>15. Tree(List(s))
        <5>1. 2 * n + 1 \in Nat /\ (2 * n + 1) + 1 \in Nat
          OBVIOUS
        <5>2. LowTree(List(s), (2 * n + 1) + 1)
          BY <4>3, <4>13, <4>14, <5>1, ListBuilt
        <5> QED  BY <5>1, <5>2, TreeIs
      <4>16. Received(List(s)) = w
        <5> DEFINE q == List(s)
        <5>1. q.kind = "list" /\ q.items = s /\ Tree(q)
          BY <4>15, ListIs
        <5> HIDE DEF q
        <5>2. Received(q) = List([j \in DOMAIN s |-> Received(s[j])])
          BY <5>1, ReceivedIs
        <5>3. \A j \in DOMAIN w.items : Received(s[j]) = w.items[j]
          BY <4>8, <4>12
        <5>4. w.items = [j \in DOMAIN w.items |-> w.items[j]]
          BY <4>3
        <5>5. [j \in DOMAIN s |-> Received(s[j])] = w.items
          BY <4>13, <5>3, <5>4
        <5> QED  BY <4>3, <5>2, <5>5 DEF q
      <4>17. PromisedTag(r.kind) = tag /\ r.kind # "null"
        BY <3>9, <4>10, TagsAre
      <4> QED  BY <3>7, <4>9, <4>11, <4>15, <4>16, <4>17 DEF r
    <3>10. CASE tag = "Map"
      <4> HIDE DEF w, tag
      <4>1. w.kind = "map"
        <5>1. ReadUnder(tag, w) # Malformed
          BY <2>3, <3>1
        <5>2. tag # "Bool" /\ tag # "Integer" /\ tag # "Float" /\ tag # "String" /\ tag # "Bytes" /\ tag # "Link"
              /\ tag \notin WaitTags /\ tag # "List"
          BY <3>10, TagsAre
        <5> QED  BY <5>1, <5>2, UnderIs, Zenon
      <4> DEFINE g == [k \in DOMAIN w.entries |-> WireIpldToPromised(w.entries[k])]
                 s == [k \in DOMAIN g |-> PromisedToWireIpld(g[k])]
                 o == w.order
      <4>2. r = Mapped(g, o)
        <5>1. ReadUnder(tag, w) = Mapped(g, o)
          BY <3>10, <4>1, UnderIs, Zenon
        <5> QED  BY <3>1, <5>1
      <4>3. /\ w = MapOf(w.entries, o) /\ w.entries \in [DOMAIN w.entries -> Parts(w)]
            /\ Lists(o, DOMAIN w.entries) /\ Lists(Sorted(DOMAIN w.entries), DOMAIN w.entries)
            /\ o = Sorted(DOMAIN w.entries)
        BY <3>3, <3>5, <4>1, DataShapeIs, SettledParts
      <4>4. g = [k \in DOMAIN g |-> g[k]] /\ DOMAIN g = DOMAIN w.entries
        OBVIOUS
      <4>5. \A k \in DOMAIN w.entries : g[k] = WireIpldToPromised(w.entries[k])
        OBVIOUS
      <4> HIDE DEF g, r, o
      <4>18. Lists(o, DOMAIN g) /\ Lists(Sorted(DOMAIN g), DOMAIN g)
        BY <4>3, <4>4
      <4>6. \A k \in DOMAIN w.entries : ~Threw(g[k])
        <5>1. ~Threw(r)
          BY DEF r
        <5> QED  BY <4>2, <4>4, <4>18, <5>1, MappedIs
      <4>7. r = MapOf(g, o)
        BY <4>2, <4>4, <4>6, <4>18, MappedIs
      <4>8. \A k \in DOMAIN w.entries : LowTree(g[k], n) /\ IsPromised(g[k]) /\ Received(PromisedToWireIpld(g[k])) = w.entries[k]
        <5>1. ASSUME NEW k \in DOMAIN w.entries
              PROVE  LowTree(w.entries[k], n) /\ IsData(w.entries[k]) /\ Received(w.entries[k]) = w.entries[k]
          <6>1. LowTree(w.entries[k], n - 1) /\ IsData(w.entries[k])
            BY <3>3, <3>6, <4>1, ItemsAre
          <6>2. LowTree(w.entries[k], n)
            BY <3>6, <6>1, TreeIs
          <6> QED  BY <3>3, <4>1, <6>1, <6>2, SettledParts
        <5>2. \A k \in DOMAIN w.entries : ReadRightOf(w.entries[k], n)
          BY <1>2, <5>1
        <5> QED  BY <4>5, <4>6, <5>2 DEF ReadRightOf
      <4>9. LowTree(r, n + 1) /\ IsPromised(r)
        BY <4>4, <4>7, <4>8, <4>18, MapBuilt
      <4>10. r.kind = "map" /\ r.entries = g /\ r.order = o
        BY <4>7, MapIs
      <4>11. Inside(r) = MapOf(s, o)
        BY <4>10, InsideIs, Zenon
      <4>12. \A k \in DOMAIN w.entries : s[k] = PromisedToWireIpld(g[k])
        BY <4>4
      <4>13. s = [k \in DOMAIN s |-> s[k]] /\ DOMAIN s = DOMAIN w.entries
        BY <4>4
      <4> HIDE DEF s
      <4>14. \A k \in DOMAIN w.entries : LowTree(s[k], 2 * n + 1)
        BY <4>8, <4>12, Written
      <4>15. Tree(MapOf(s, o))
        <5>1. 2 * n + 1 \in Nat /\ (2 * n + 1) + 1 \in Nat
          OBVIOUS
        <5>2. Lists(o, DOMAIN s) /\ Lists(Sorted(DOMAIN s), DOMAIN s)
          BY <4>3, <4>13
        <5>3. LowTree(MapOf(s, o), (2 * n + 1) + 1)
          BY <4>13, <4>14, <5>1, <5>2, MapBuilt
        <5> QED  BY <5>1, <5>3, TreeIs
      <4>16. Received(MapOf(s, o)) = w
        <5> DEFINE q == MapOf(s, o)
        <5>1. q.kind = "map" /\ q.entries = s /\ Tree(q)
          BY <4>15, MapIs
        <5> HIDE DEF q
        <5>2. Received(q) = MapOf([k \in DOMAIN s |-> Received(s[k])], Sorted(DOMAIN s))
          BY <5>1, ReceivedIs
        <5>3. \A k \in DOMAIN w.entries : Received(s[k]) = w.entries[k]
          BY <4>8, <4>12
        <5>4. w.entries = [k \in DOMAIN w.entries |-> w.entries[k]]
          BY <4>3
        <5>5. [k \in DOMAIN s |-> Received(s[k])] = w.entries
          BY <4>13, <5>3, <5>4
        <5>6. Sorted(DOMAIN s) = o
          BY <4>3, <4>13
        <5> QED  BY <4>3, <5>2, <5>5, <5>6 DEF q
      <4>17. PromisedTag(r.kind) = tag /\ r.kind # "null"
        BY <3>10, <4>10, TagsAre
      <4> QED  BY <3>7, <4>9, <4>11, <4>15, <4>16, <4>17 DEF r
    <3> QED  BY <3>8, <3>9, <3>10
  <2> QED  BY <2>4, <2>5
<1> HIDE DEF T
<1>3. Nat \subseteq T
  BY <1>1, <1>2, SetInduction
<1> QED  BY <1>3 DEF T

\* What waits in a value is itself or waits in a part of it.
LEMMA WaitsSplit ==
  ASSUME NEW p, Tree(p)
  PROVE  \A x : x \in WaitsIn(p) <=> (x = p /\ x.kind \in Waits) \/ \E q \in Parts(p) : x \in WaitsIn(q)
<1>1. Within(p) = {p} \cup UNION {Within(q) : q \in Parts(p)}
  BY InTree
<1>2. \A x : x \in Within(p) <=> x = p \/ \E q \in Parts(p) : x \in Within(q)
  BY <1>1
<1>3. \A x, y : x \in WaitsIn(y) <=> x \in Within(y) /\ x.kind \in Waits
  BY DEF WaitsIn
<1> QED  BY <1>2, <1>3, Zenon

\* A promised value throws when something in it waits, and it is the plain form
\* of what waits that is thrown.
Resolves(p) ==
  /\ Threw(PromisedToIpld(p)) <=> WaitsIn(p) # {}
  /\ Threw(PromisedToIpld(p)) => \E x \in WaitsIn(p) : PromisedToIpld(p) = WaitingOn(x)

\* By the depth of the value.
LEMMA ResolvesOrWaits == \A n \in Nat : \A p : LowTree(p, n) /\ IsPromised(p) => Resolves(p)
<1> DEFINE T == {n \in Nat : \A p : LowTree(p, n) /\ IsPromised(p) => Resolves(p)}
<1>1. 0 \in T
  BY TreeIs
<1>2. ASSUME NEW n \in Nat, n \in T  PROVE n + 1 \in T
  <2> SUFFICES ASSUME NEW p, LowTree(p, n + 1), IsPromised(p)
               PROVE  Resolves(p)
    OBVIOUS
  <2>1. Tree(p)
    <3>1. n + 1 \in Nat
      OBVIOUS
    <3> QED  BY <3>1, TreeIs
  <2>2. PromisedShape(p)
    BY <2>1, TypesSplit
  <2>3. \A q \in Parts(p) : Resolves(q)
    BY <1>2, <2>1, TreeIs, TypesSplit
  <2> DEFINE out == PromisedToIpld(p)
  <2>4. CASE p.kind = "list"
    <3> DEFINE g == [j \in DOMAIN p.items |-> PromisedToIpld(p.items[j])]
    <3>1. out = Listed(g)
      BY <2>1, <2>4, PlainIs
    <3>2. p.items \in Seq(Parts(p)) /\ Parts(p) = {p.items[j] : j \in DOMAIN p.items}
      BY <2>2, <2>4, ShapeIs, PartsAre
    <3>3. g = [j \in DOMAIN p.items |-> g[j]] /\ DOMAIN g = DOMAIN p.items
      OBVIOUS
    <3>4. \A j \in DOMAIN p.items : g[j] = PromisedToIpld(p.items[j]) /\ p.items[j] \in Parts(p)
      BY <3>2
    <3> HIDE DEF g, out
    <3>5. p.kind \notin Waits
      BY <2>4 DEF Waits
    <3>6. CASE \A j \in DOMAIN g : ~Threw(g[j])
      <4>1. out = List(g) /\ ~Threw(List(g))
        BY <3>1, <3>2, <3>3, <3>6, ListedIs, ListIs DEF Threw
      <4>2. \A q \in Parts(p) : WaitsIn(q) = {}
        BY <2>3, <3>2, <3>3, <3>4, <3>6 DEF Resolves
      <4>3. \A x : x \notin WaitsIn(p)
        BY <2>1, <3>5, <4>2, WaitsSplit
      <4>4. WaitsIn(p) = {}
        BY <4>3
      <4> QED  BY <4>1, <4>4 DEF Resolves, out
    <3>7. CASE ~\A j \in DOMAIN g : ~Threw(g[j])
      <4>1. PICK j \in DOMAIN g : out = g[j] /\ Threw(g[j])
        BY <3>1, <3>2, <3>3, <3>7, ListedIs
      <4> DEFINE q == p.items[j]
      <4>2. q \in Parts(p) /\ g[j] = PromisedToIpld(q)
        BY <3>3, <3>4
      <4> HIDE DEF q
      <4>3. PICK x \in WaitsIn(q) : PromisedToIpld(q) = WaitingOn(x)
        BY <2>3, <4>1, <4>2 DEF Resolves
      <4>4. x \in WaitsIn(p)
        BY <2>1, <4>2, <4>3, WaitsSplit
      <4> QED  BY <4>1, <4>2, <4>3, <4>4 DEF Resolves, out
    <3> QED  BY <3>6, <3>7
  <2>5. CASE p.kind = "map"
    <3> DEFINE g == [k \in DOMAIN p.entries |-> PromisedToIpld(p.entries[k])]
    <3>1. out = Mapped(g, p.order)
      BY <2>1, <2>5, PlainIs
    <3>2. Lists(p.order, DOMAIN p.entries) /\ Parts(p) = {p.entries[k] : k \in DOMAIN p.entries}
      BY <2>2, <2>5, ShapeIs, PartsAre
    <3>3. DOMAIN g = DOMAIN p.entries
      OBVIOUS
    <3>4. \A k \in DOMAIN p.entries : g[k] = PromisedToIpld(p.entries[k]) /\ p.entries[k] \in Parts(p)
      BY <3>2
    <3> HIDE DEF g, out
    <3>5. p.kind \notin Waits
      BY <2>5 DEF Waits
    <3>6. CASE \A k \in DOMAIN g : ~Threw(g[k])
      <4>1. out = MapOf(g, p.order) /\ ~Threw(MapOf(g, p.order))
        BY <3>1, <3>2, <3>3, <3>6, MappedIs, MapIs DEF Threw
      <4>2. \A q \in Parts(p) : WaitsIn(q) = {}
        BY <2>3, <3>2, <3>3, <3>4, <3>6 DEF Resolves
      <4>3. \A x : x \notin WaitsIn(p)
        BY <2>1, <3>5, <4>2, WaitsSplit
      <4>4. WaitsIn(p) = {}
        BY <4>3
      <4> QED  BY <4>1, <4>4 DEF Resolves, out
    <3>7. CASE ~\A k \in DOMAIN g : ~Threw(g[k])
      <4>1. PICK k \in DOMAIN g : out = g[k] /\ Threw(g[k])
        BY <3>1, <3>2, <3>3, <3>7, MappedIs
      <4> DEFINE q == p.entries[k]
      <4>2. q \in Parts(p) /\ g[k] = PromisedToIpld(q)
        BY <3>3, <3>4
      <4> HIDE DEF q
      <4>3. PICK x \in WaitsIn(q) : PromisedToIpld(q) = WaitingOn(x)
        BY <2>3, <4>1, <4>2 DEF Resolves
      <4>4. x \in WaitsIn(p)
        BY <2>1, <4>2, <4>3, WaitsSplit
      <4> QED  BY <4>1, <4>2, <4>3, <4>4 DEF Resolves, out
    <3> QED  BY <3>6, <3>7
  <2>6. CASE p.kind \in Waits
    <3>1. out = WaitingOn(p) /\ Threw(WaitingOn(p))
      BY <2>6, WaitHeld DEF WaitingOn, Threw
    <3>2. p \in WaitsIn(p)
      BY <2>1, <2>6, WaitsSplit
    <3> QED  BY <3>1, <3>2 DEF Resolves
  <2>7. CASE p.kind \notin {"list", "map"} \cup Waits
    <3>1. Parts(p) = {}
      BY <2>7, LeafIs
    <3>2. WaitsIn(p) = {}
      <4>1. \A x : x \notin WaitsIn(p)
        BY <2>1, <2>7, <3>1, WaitsSplit
      <4> QED  BY <4>1
    <3>3. ~Threw(out)
      <4>1. CASE p.kind \in {"integer", "float"}
        <5>1. out = p.value /\ IsNumeral(p.value)
          BY <2>2, <4>1, NumberHeld
        <5> QED  BY <5>1, NotThrown DEF DataNode
      <4>2. CASE p.kind \notin {"integer", "float"}
        <5>1. out = p
          BY <2>1, <2>7, <4>2, PlainIs
        <5> QED  BY <2>2, <5>1, NotThrown
      <4> QED  BY <4>1, <4>2
    <3> QED  BY <3>2, <3>3 DEF Resolves
  <2> QED  BY <2>4, <2>5, <2>6, <2>7
<1> HIDE DEF T
<1>3. Nat \subseteq T
  BY <1>1, <1>2, SetInduction
<1> QED  BY <1>3 DEF T

\* Data as a promised value; held and made plain again it is as it arrives.
LEMMA DataPromised ==
  \A n \in Nat : \A v : LowTree(v, n) /\ IsData(v) =>
    /\ LowTree(IpldToPromised(v), n) /\ IsPromised(IpldToPromised(v))
    /\ PromisedToIpld(AsHeld(IpldToPromised(v))) = Received(v)
<1> DEFINE Right(v, n) == /\ LowTree(IpldToPromised(v), n) /\ IsPromised(IpldToPromised(v))
                          /\ PromisedToIpld(AsHeld(IpldToPromised(v))) = Received(v)
           T == {n \in Nat : \A v : LowTree(v, n) /\ IsData(v) => Right(v, n)}
<1>1. 0 \in T
  BY TreeIs
<1>2. ASSUME NEW n \in Nat, n \in T  PROVE n + 1 \in T
  <2> SUFFICES ASSUME NEW v, LowTree(v, n + 1), IsData(v)
               PROVE  Right(v, n + 1)
    OBVIOUS
  <2>1. Tree(v) /\ n + 1 \in Nat /\ 1 \in Nat /\ 1 <= n + 1
    <3>1. n + 1 \in Nat /\ 1 <= n + 1
      OBVIOUS
    <3> QED  BY <3>1, TreeIs
  <2>2. DataNode(v)
    BY <2>1, TypesSplit
  <2>3. \A x : LowTree(x, n) /\ IsData(x) =>
          /\ LowTree(IpldToPromised(x), n) /\ IsPromised(IpldToPromised(x))
          /\ PromisedToIpld(AsHeld(IpldToPromised(x))) = Received(x) /\ ~Threw(Received(x))
    <3>1. \A x : LowTree(x, n) /\ IsData(x) => ~Threw(Received(x))
      <4> TAKE x
      <4> HAVE LowTree(x, n) /\ IsData(x)
      <4>1. Tree(Received(x)) /\ IsData(Received(x))
        BY DataReceived, TreeIs
      <4> QED  BY <4>1, TypesSplit, NotThrown
    <3> QED  BY <1>2, <3>1
  <2> DEFINE p == IpldToPromised(v)
  <2>4. CASE v.kind = "list"
    <3> DEFINE g == [j \in DOMAIN v.items |-> IpldToPromised(v.items[j])]
               h == [j \in DOMAIN g |-> AsHeld(g[j])]
               o == [j \in DOMAIN h |-> PromisedToIpld(h[j])]
    <3>1. p = List(g)
      BY <2>1, <2>4, PromoteIs
    <3>2. v.items \in Seq(Parts(v))
      BY <2>2, <2>4, DataShapeIs
    <3>3. \A j \in DOMAIN v.items : LowTree(v.items[j], n) /\ IsData(v.items[j])
      BY <2>4, ItemsAre
    <3>4. \A j \in DOMAIN v.items : /\ LowTree(g[j], n) /\ IsPromised(g[j])
                                    /\ o[j] = Received(v.items[j]) /\ ~Threw(o[j])
      BY <2>3, <3>3
    <3>5. /\ g = [j \in DOMAIN v.items |-> g[j]]
          /\ o = [j \in DOMAIN v.items |-> o[j]] /\ DOMAIN o = DOMAIN v.items
      OBVIOUS
    <3>6. o = [j \in DOMAIN v.items |-> Received(v.items[j])]
      BY <3>4
    <3> HIDE DEF g, p
    <3>7. LowTree(p, n + 1) /\ IsPromised(p)
      BY <3>1, <3>2, <3>4, <3>5, ListBuilt
    <3>8. Tree(p) /\ Tree(AsHeld(p))
      <4>1. LowTree(AsHeld(p), n + 1)
        BY <2>1, <3>7, HeldPromised
      <4> QED  BY <2>1, <3>7, <4>1, TreeIs
    <3>9. AsHeld(p) = List(h)
      <4>1. p.kind = "list" /\ p.items = g
        BY <3>1, ListIs
      <4> QED  BY <3>8, <4>1, HeldIs
    <3> HIDE DEF h
    <3>10. PromisedToIpld(List(h)) = Listed(o)
      <4> DEFINE q == List(h)
      <4>1. q.kind = "list" /\ q.items = h /\ Tree(q)
        BY <3>8, <3>9, ListIs
      <4> HIDE DEF q
      <4>2. PromisedToIpld(q) = Listed([j \in DOMAIN q.items |-> PromisedToIpld(q.items[j])])
        BY <4>1, PlainIs, Zenon
      <4> QED  BY <4>1, <4>2 DEF q
    <3> HIDE DEF o
    <3>11. Listed(o) = List(o)
      BY <3>2, <3>4, <3>5, ListedIs
    <3>12. Received(v) = List(o)
      BY <2>1, <2>4, <3>6, ReceivedIs
    <3> QED  BY <3>7, <3>9, <3>10, <3>11, <3>12 DEF p
  <2>5. CASE v.kind = "map"
    <3> DEFINE g == [k \in DOMAIN v.entries |-> IpldToPromised(v.entries[k])]
               h == [k \in DOMAIN g |-> AsHeld(g[k])]
               o == [k \in DOMAIN h |-> PromisedToIpld(h[k])]
               s == Sorted(DOMAIN v.entries)
    <3>1. p = MapOf(g, v.order)
      BY <2>1, <2>5, PromoteIs
    <3>2. Lists(v.order, DOMAIN v.entries) /\ Lists(s, DOMAIN v.entries)
      BY <2>2, <2>5, DataShapeIs
    <3>3. \A k \in DOMAIN v.entries : LowTree(v.entries[k], n) /\ IsData(v.entries[k])
      BY <2>5, ItemsAre
    <3>4. \A k \in DOMAIN v.entries : /\ LowTree(g[k], n) /\ IsPromised(g[k])
                                      /\ o[k] = Received(v.entries[k]) /\ ~Threw(o[k])
      BY <2>3, <3>3
    <3>5. /\ g = [k \in DOMAIN g |-> g[k]] /\ DOMAIN g = DOMAIN v.entries
          /\ DOMAIN o = DOMAIN v.entries /\ DOMAIN h = DOMAIN v.entries
      OBVIOUS
    <3>6. o = [k \in DOMAIN v.entries |-> Received(v.entries[k])]
      BY <3>4
    <3> HIDE DEF g, p
    <3>7. LowTree(p, n + 1) /\ IsPromised(p)
      <4>1. Lists(v.order, DOMAIN g) /\ Lists(Sorted(DOMAIN g), DOMAIN g)
        BY <3>2, <3>5
      <4> QED  BY <3>1, <3>4, <3>5, <4>1, MapBuilt
    <3>8. Tree(p) /\ Tree(AsHeld(p))
      <4>1. LowTree(AsHeld(p), n + 1)
        BY <2>1, <3>7, HeldPromised
      <4> QED  BY <2>1, <3>7, <4>1, TreeIs
    <3>9. AsHeld(p) = MapOf(h, s)
      <4>1. p.kind = "map" /\ p.entries = g /\ Sorted(DOMAIN g) = s
        BY <3>1, <3>5, MapIs
      <4>2. AsHeld(p) = MapOf([k \in DOMAIN p.entries |-> AsHeld(p.entries[k])], Sorted(DOMAIN p.entries))
        BY <3>8, <4>1, HeldIs, Zenon
      <4> QED  BY <4>1, <4>2
    <3> HIDE DEF h, s
    <3>10. PromisedToIpld(MapOf(h, s)) = Mapped(o, s)
      <4> DEFINE q == MapOf(h, s)
      <4>1. q.kind = "map" /\ q.entries = h /\ q.order = s /\ Tree(q)
        BY <3>8, <3>9, MapIs
      <4> HIDE DEF q
      <4>2. PromisedToIpld(q) = Mapped([k \in DOMAIN q.entries |-> PromisedToIpld(q.entries[k])], q.order)
        BY <4>1, PlainIs, Zenon
      <4> QED  BY <4>1, <4>2 DEF q
    <3> HIDE DEF o
    <3>11. Mapped(o, s) = MapOf(o, s)
      <4>1. Lists(s, DOMAIN o) /\ \A k \in DOMAIN o : ~Threw(o[k])
        BY <3>2, <3>4, <3>5
      <4> QED  BY <4>1, MappedIs
    <3>12. Received(v) = MapOf(o, s)
      BY <2>1, <2>5, <3>6, ReceivedIs DEF s
    <3> QED  BY <3>7, <3>9, <3>10, <3>11, <3>12 DEF p
  <2>6. CASE v.kind \in {"number", "bigint"}
    <3>1. IsNumeral(v) /\ (v.kind = "number" => IsFloat(v))
      BY <2>2, <2>6, DataShapeIs
    <3>2. p = Integer(v) \/ (p = Float(v) /\ IsFloat(v))
      BY <2>1, <2>6, <3>1, PromoteIs
    <3> HIDE DEF p
    <3>3. p.kind \in {"integer", "float"} /\ p.value = v /\ PromisedShape(p)
      BY <3>1, <3>2 DEF Integer, Float, PromisedShape
    <3>4. LowTree(p, 1) /\ IsPromised(p)
      BY <3>3, LeafIs
    <3>5. LowTree(p, n + 1)
      BY <2>1, <3>4, TreeIs
    <3> DEFINE h == AsHeld(p)
    <3>6. h = Integer(Received(v)) \/ (h = Float(v) /\ IsFloat(v))
      BY <3>2, <3>3, NumberHeld DEF Integer, Float
    <3>7. Received(v) = v \/ ~IsFloat(v)
      BY <3>1, NumeralReceived
    <3> HIDE DEF h
    <3>8. h.kind \in {"integer", "float"} /\ h.value = Received(v)
      BY <3>6, <3>7 DEF Integer, Float
    <3>9. PromisedToIpld(h) = Received(v)
      <4>1. Tree(h)
        BY <3>8, LeafIs
      <4> QED  BY <3>8, <4>1, PlainIs, Zenon
    <3> QED  BY <3>4, <3>5, <3>9 DEF h, p
  <2>7. CASE v.kind \notin {"list", "map", "number", "bigint"}
    <3>1. v.kind \in {"null", "bool", "string", "link", "bytes"} /\ IsCommon(v)
      BY <2>2, <2>7, DataShapeIs
    <3>2. Received(v) = v /\ AsHeld(v) = v /\ PromisedToIpld(v) = v /\ p = v
      BY <3>1, PlainReceived
    <3>3. IsPromised(v)
      BY <3>1, LeafIs DEF PromisedShape
    <3> QED  BY <3>2, <3>3
  <2> QED  BY <2>4, <2>5, <2>6, <2>7
<1> HIDE DEF T
<1>3. Nat \subseteq T
  BY <1>1, <1>2, SetInduction
<1> QED  BY <1>3 DEF T

\* An outcome that is a tree.
Fit(a) == IsOutcome(a) /\ (a.kind \in Pending \/ Tree(a.value))

\* The tags of outcomes.
LEMMA OutcomeTagsAre ==
  /\ OutcomeTag("ok") = "Ok" /\ OutcomeTag("err") = "Err"
  /\ \A kind \in Pending : /\ OutcomeTag(kind) \in PendingTags
                           /\ (CHOOSE k \in Pending : OutcomeTag(k) = OutcomeTag(kind)) = kind
  /\ \A tag \in PendingTags : \E kind \in Pending : OutcomeTag(kind) = tag
  /\ "Ok" \notin PendingTags /\ "Err" \notin PendingTags
  /\ "ok" \notin Pending /\ "err" \notin Pending
<1>1. OutcomeTag("ok") = "Ok" /\ OutcomeTag("err") = "Err"
  BY DEF OutcomeTag
<1>2. /\ OutcomeTag("pendingOk") = "PendingOk" /\ OutcomeTag("pendingErr") = "PendingErr"
      /\ OutcomeTag("pendingAny") = "PendingAny" /\ OutcomeTag("pendingTagged") = "PendingTagged"
  BY DEF OutcomeTag
<1>3. ASSUME NEW kind \in Pending
      PROVE  OutcomeTag(kind) \in PendingTags /\ (CHOOSE k \in Pending : OutcomeTag(k) = OutcomeTag(kind)) = kind
  <2>1. \A k \in Pending : OutcomeTag(k) = OutcomeTag(kind) <=> k = kind
    BY <1>2 DEF Pending
  <2> QED  BY <2>1 DEF PendingTags
<1>4. PendingTags = {"PendingOk", "PendingErr", "PendingAny", "PendingTagged"}
  BY <1>2 DEF PendingTags, Pending
<1>5. \A tag \in PendingTags : \E kind \in Pending : OutcomeTag(kind) = tag
  BY DEF PendingTags
<1>6. "ok" \notin Pending /\ "err" \notin Pending
  BY DEF Pending
<1> QED  BY <1>1, <1>3, <1>4, <1>5, <1>6

\* DAG-CBOR lists the one tag of an outcome in one way.
LEMMA OutcomeSorted == \A kind \in {"ok", "err"} \cup Pending : Sorted({OutcomeTag(kind)}) = <<OutcomeTag(kind)>>
BY ArgumentsAssumption

\* What an outcome holds.
LEMMA OutcomeIs ==
  ASSUME NEW a, Fit(a)
  PROVE  /\ a.kind \in {"ok", "err"} \cup Pending
         /\ a.kind \notin Pending => /\ a.kind \in {"ok", "err"} /\ a = [kind |-> a.kind, value |-> a.value]
                                     /\ IsPromised(a.value) /\ Tree(a.value)
         /\ a.kind \in Pending => a = [kind |-> a.kind, cid |-> a.cid]
<1>1. "ok" \notin Pending /\ "err" \notin Pending
  BY OutcomeTagsAre
<1> QED  BY <1>1, SMT DEF Fit, IsOutcome

\* What is under the tag of an outcome.
Under(a) == IF a.kind \in Pending THEN Link(a.cid) ELSE PromisedToWireIpld(a.value)

\* It is data, and the form of the outcome is that under its tag.
LEMMA UnderFits ==
  ASSUME NEW a, Fit(a)
  PROVE  Tree(Under(a)) /\ IsData(Under(a)) /\ PromiseToWireIpld(a) = Tagged(OutcomeTag(a.kind), Under(a))
<1>1. PromiseToWireIpld(a) = Tagged(OutcomeTag(a.kind), Under(a))
  BY Zenon DEF PromiseToWireIpld, Under
<1>2. CASE a.kind \in Pending
  <2> DEFINE l == Link(a.cid)
  <2>1. Under(a) = l
    BY <1>2 DEF Under
  <2>2. l.kind = "link" /\ DataNode(l)
    BY DEF Link, DataNode, IsCommon
  <2> HIDE DEF l
  <2>3. Tree(l) /\ IsData(l)
    BY <2>2, LeafIs
  <2> QED  BY <1>1, <2>1, <2>3
<1>3. CASE a.kind \notin Pending
  <2>1. Under(a) = PromisedToWireIpld(a.value)
    BY <1>3 DEF Under
  <2>2. IsPromised(a.value) /\ Tree(a.value)
    BY <1>3, OutcomeIs
  <2>3. PICK n \in Nat : LowTree(a.value, n)
    BY <2>2, TreeIs
  <2>4. 2 * n + 1 \in Nat
    OBVIOUS
  <2>5. LowTree(PromisedToWireIpld(a.value), 2 * n + 1) /\ IsData(PromisedToWireIpld(a.value))
    BY <2>2, <2>3, Written
  <2>6. Tree(PromisedToWireIpld(a.value))
    BY <2>4, <2>5, TreeIs
  <2> QED  BY <1>1, <2>1, <2>5, <2>6
<1> QED  BY <1>2, <1>3

\* An outcome is written as data.
LEMMA OutcomeWritten ==
  ASSUME NEW a, Fit(a)
  PROVE  Tree(PromiseToWireIpld(a)) /\ IsData(PromiseToWireIpld(a))
<1> DEFINE tag == OutcomeTag(a.kind)
<1>1. Sorted({tag}) = <<tag>>
  BY OutcomeIs, OutcomeSorted
<1>2. Tree(Under(a)) /\ IsData(Under(a)) /\ PromiseToWireIpld(a) = Tagged(tag, Under(a))
  BY UnderFits
<1>3. PICK m \in Nat : LowTree(Under(a), m)
  BY <1>2, TreeIs
<1> HIDE DEF tag
<1>4. LowTree(Tagged(tag, Under(a)), m + 1) /\ IsData(Tagged(tag, Under(a)))
  BY <1>1, <1>2, <1>3, TaggedBuilt
<1>5. m + 1 \in Nat
  OBVIOUS
<1> QED  BY <1>2, <1>4, <1>5, TreeIs

\* How an outcome is read.
LEMMA OutcomeReads ==
  ASSUME NEW v
  PROVE  /\ (v.kind # "map" \/ Len(v.order) # 1) => WireIpldToPromise(v) = Malformed
         /\ v.kind = "map" /\ Len(v.order) = 1 =>
              LET tag == v.order[1]
                  w == v.entries[tag]
              IN  /\ tag = "Ok" => WireIpldToPromise(v) = Holding("ok", WireIpldToPromised(w))
                  /\ tag = "Err" => WireIpldToPromise(v) = Holding("err", WireIpldToPromised(w))
                  /\ tag \in PendingTags /\ w.kind = "link" =>
                       WireIpldToPromise(v) = [kind |-> CHOOSE kind \in Pending : OutcomeTag(kind) = tag, cid |-> w.cid]
                  /\ tag \notin {"Ok", "Err"} /\ ~(tag \in PendingTags /\ w.kind = "link") =>
                       WireIpldToPromise(v) = Malformed
<1>1. "Ok" \notin PendingTags /\ "Err" \notin PendingTags
  BY OutcomeTagsAre
<1>2. ASSUME v.kind # "map" \/ Len(v.order) # 1  PROVE WireIpldToPromise(v) = Malformed
  BY <1>2 DEF WireIpldToPromise
<1>3. ASSUME v.kind = "map", Len(v.order) = 1
      PROVE  LET tag == v.order[1]
                 w == v.entries[tag]
             IN  /\ tag = "Ok" => WireIpldToPromise(v) = Holding("ok", WireIpldToPromised(w))
                 /\ tag = "Err" => WireIpldToPromise(v) = Holding("err", WireIpldToPromised(w))
                 /\ tag \in PendingTags /\ w.kind = "link" =>
                      WireIpldToPromise(v) = [kind |-> CHOOSE kind \in Pending : OutcomeTag(kind) = tag, cid |-> w.cid]
                 /\ tag \notin {"Ok", "Err"} /\ ~(tag \in PendingTags /\ w.kind = "link") =>
                      WireIpldToPromise(v) = Malformed
  <2> DEFINE tag == v.order[1]
             w == v.entries[tag]
             kind(t) == CHOOSE kind \in Pending : OutcomeTag(kind) = t
  <2>1. WireIpldToPromise(v) =
          CASE tag = "Ok" -> Holding("ok", WireIpldToPromised(w))
            [] tag = "Err" -> Holding("err", WireIpldToPromised(w))
            [] tag \in PendingTags /\ w.kind = "link" -> [kind |-> kind(tag), cid |-> w.cid]
            [] OTHER -> Malformed
    BY <1>3, SMT DEF WireIpldToPromise
  <2> HIDE DEF tag, w, kind
  <2>2. /\ tag = "Ok" => WireIpldToPromise(v) = Holding("ok", WireIpldToPromised(w))
        /\ tag = "Err" => WireIpldToPromise(v) = Holding("err", WireIpldToPromised(w))
        /\ tag \in PendingTags /\ w.kind = "link" =>
             WireIpldToPromise(v) = [kind |-> kind(tag), cid |-> w.cid]
        /\ tag \notin {"Ok", "Err"} /\ ~(tag \in PendingTags /\ w.kind = "link") =>
             WireIpldToPromise(v) = Malformed
    BY <1>1, <2>1
  <2> QED  BY <2>2, Zenon DEF tag, w, kind
<1> QED  BY <1>2, <1>3, Zenon

\* What was enclosed is read as what was enclosed, as its receiver holds it.
AsRead(a) == IF a.kind \in Pending THEN a ELSE [a EXCEPT !.value = AsHeld(@)]

\* Integers, floats and waits are told apart on the way.
LEMMA OutcomeReadBack ==
  ASSUME NEW a, Fit(a)
  PROVE  WireIpldToPromise(Received(PromiseToWireIpld(a))) = AsRead(a)
<1> DEFINE tag == OutcomeTag(a.kind)
           u == Received(Under(a))
           t == Tagged(tag, u)
<1>1. Sorted({tag}) = <<tag>>
  BY OutcomeIs, OutcomeSorted
<1>2. Tree(Under(a)) /\ IsData(Under(a)) /\ PromiseToWireIpld(a) = Tagged(tag, Under(a))
  BY UnderFits
<1>3. Received(Tagged(tag, Under(a))) = t
  <2> HIDE DEF tag
  <2> QED  BY <1>1, <1>2, TaggedReceived
<1>4. t.kind = "map" /\ t.order = <<tag>> /\ t.entries[tag] = u
  <2> HIDE DEF tag, u
  <2> QED  BY TaggedIs
<1> HIDE DEF t
<1>5. t.kind = "map" /\ Len(t.order) = 1 /\ t.order[1] = tag /\ t.entries[t.order[1]] = u
  BY <1>4
<1>6. CASE a.kind \in Pending
  <2>1. Under(a) = Link(a.cid) /\ a = [kind |-> a.kind, cid |-> a.cid]
    BY <1>6, OutcomeIs DEF Under
  <2>2. u = Link(a.cid)
    <3>1. Link(a.cid).kind = "link"
      BY DEF Link
    <3>2. Received(Link(a.cid)) = Link(a.cid)
      BY <3>1, PlainReceived
    <3> QED  BY <2>1, <3>2
  <2>3. u.kind = "link" /\ u.cid = a.cid
    BY <2>2 DEF Link
  <2>4. tag \in PendingTags /\ (CHOOSE k \in Pending : OutcomeTag(k) = tag) = a.kind
    BY <1>6, OutcomeTagsAre
  <2> HIDE DEF u, tag
  <2>5. WireIpldToPromise(t) = [kind |-> CHOOSE k \in Pending : OutcomeTag(k) = tag, cid |-> u.cid]
    BY <1>5, <2>3, <2>4, OutcomeReads, Zenon
  <2> QED  BY <1>2, <1>3, <1>6, <2>1, <2>3, <2>4, <2>5 DEF AsRead
<1>7. CASE a.kind \notin Pending
  <2> DEFINE p == a.value
  <2>1. a.kind \in {"ok", "err"} /\ a = [kind |-> a.kind, value |-> p] /\ IsPromised(p) /\ Tree(p)
    BY <1>7, OutcomeIs
  <2> HIDE DEF p
  <2>2. PICK n \in Nat : LowTree(p, n)
    BY <2>1, TreeIs
  <2>3. Under(a) = PromisedToWireIpld(p)
    BY <1>7 DEF Under, p
  <2>4. WireIpldToPromised(u) = AsHeld(p)
    BY <2>1, <2>2, <2>3, ReadBack
  <2>5. ~Threw(AsHeld(p))
    <3>1. Tree(AsHeld(p)) /\ IsPromised(AsHeld(p))
      BY <2>1, <2>2, HeldPromised, TreeIs
    <3> QED  BY <3>1, TypesSplit, NotThrown
  <2>6. AsRead(a) = [kind |-> a.kind, value |-> AsHeld(p)]
    <3>1. [a EXCEPT !.value = AsHeld(@)] = [a EXCEPT !.value = AsHeld(p)]
      BY DEF p
    <3>2. [a EXCEPT !.value = AsHeld(p)] = [kind |-> a.kind, value |-> AsHeld(p)]
      BY <2>1
    <3> QED  BY <1>7, <3>1, <3>2 DEF AsRead
  <2>7. WireIpldToPromise(t) = Holding(a.kind, WireIpldToPromised(u))
    <3>1. (a.kind = "ok" /\ tag = "Ok") \/ (a.kind = "err" /\ tag = "Err")
      BY <2>1, OutcomeTagsAre
    <3> HIDE DEF u, tag
    <3> QED  BY <1>5, <3>1, OutcomeReads, Zenon
  <2> QED  BY <1>2, <1>3, <2>4, <2>5, <2>6, <2>7 DEF Holding
<1> QED  BY <1>6, <1>7

\* What is read is an outcome, written as what was read.
LEMMA OutcomeWrittenBack ==
  ASSUME NEW v, Tree(v), IsData(v), Received(v) = v, ~Threw(WireIpldToPromise(v))
  PROVE  Fit(WireIpldToPromise(v)) /\ Received(PromiseToWireIpld(WireIpldToPromise(v))) = v
<1> DEFINE r == WireIpldToPromise(v)
           tag == v.order[1]
           w == v.entries[tag]
<1>1. r # Malformed
  BY DEF Threw, Malformed
<1>2. v.kind = "map" /\ Len(v.order) = 1
  BY <1>1, OutcomeReads
<1>3. DOMAIN v.entries = {tag} /\ v = Tagged(tag, w)
  <2>1. v # Str("Null")
    BY <1>2 DEF Str
  <2> QED  BY <1>2, <2>1, ReadIs
<1>4. tag \in DOMAIN v.entries
  BY <1>3
<1>5. Tree(w) /\ IsData(w) /\ Received(w) = w
  <2>1. w \in Parts(v)
    BY <1>2, <1>4, PartsAre
  <2> QED  BY <1>2, <1>4, <2>1, NearTrees, TypesSplit, SettledParts
<1>6. Sorted({tag}) = <<tag>>
  <2>1. DataNode(v)
    BY TypesSplit
  <2>2. Lists(Sorted({tag}), {tag})
    BY <1>2, <1>3, <2>1, DataShapeIs
  <2> QED  BY <2>2, OneKey
<1>7. /\ tag = "Ok" => r = Holding("ok", WireIpldToPromised(w))
      /\ tag = "Err" => r = Holding("err", WireIpldToPromised(w))
      /\ tag \in PendingTags /\ w.kind = "link" =>
           r = [kind |-> CHOOSE kind \in Pending : OutcomeTag(kind) = tag, cid |-> w.cid]
      /\ tag \notin {"Ok", "Err"} /\ ~(tag \in PendingTags /\ w.kind = "link") => r = Malformed
  BY <1>2, OutcomeReads, Zenon
<1>8. ~Threw(r)
  OBVIOUS
<1> HIDE DEF r, tag, w
\* What is under the tag is enough.
<1>9. ASSUME Fit(r), OutcomeTag(r.kind) = tag, Received(Under(r)) = w
      PROVE  Received(PromiseToWireIpld(r)) = v
  <2>1. Tree(Under(r)) /\ PromiseToWireIpld(r) = Tagged(tag, Under(r))
    BY <1>9, UnderFits
  <2>2. Received(Tagged(tag, Under(r))) = Tagged(tag, w)
    BY <1>6, <1>9, <2>1, TaggedReceived
  <2> QED  BY <1>3, <2>1, <2>2
<1>10. CASE tag \in {"Ok", "Err"}
  <2> DEFINE p == WireIpldToPromised(w)
             kind == IF tag = "Ok" THEN "ok" ELSE "err"
  <2>1. r = Holding(kind, p)
    BY <1>7, <1>10
  <2>2. ~Threw(p) /\ r = [kind |-> kind, value |-> p]
    BY <1>8, <2>1 DEF Holding
  <2>3. PICK n \in Nat : LowTree(w, n)
    BY <1>5, TreeIs
  <2>4. LowTree(p, n) /\ IsPromised(p) /\ Received(PromisedToWireIpld(p)) = w
    BY <1>5, <2>2, <2>3, WrittenBack DEF ReadRightOf
  <2>5. Tree(p)
    BY <2>4, TreeIs
  <2>6. kind \in {"ok", "err"} /\ OutcomeTag(kind) = tag /\ kind \notin Pending
    BY <1>10, OutcomeTagsAre
  <2> HIDE DEF p, kind
  <2>7. r.kind = kind /\ r.value = p
    BY <2>2
  <2>8. Fit(r)
    BY <2>2, <2>4, <2>5, <2>6, <2>7 DEF Fit, IsOutcome
  <2>9. Under(r) = PromisedToWireIpld(p)
    BY <2>6, <2>7 DEF Under
  <2> QED  BY <1>9, <2>4, <2>6, <2>7, <2>8, <2>9 DEF r
<1>11. CASE tag \in PendingTags /\ w.kind = "link"
  <2> DEFINE kind == CHOOSE kind \in Pending : OutcomeTag(kind) = tag
  <2>1. r = [kind |-> kind, cid |-> w.cid]
    BY <1>7, <1>11
  <2>2. kind \in Pending /\ OutcomeTag(kind) = tag
    BY <1>11, OutcomeTagsAre
  <2> HIDE DEF kind
  <2>3. r.kind = kind /\ r.cid = w.cid
    BY <2>1
  <2>4. Fit(r)
    BY <2>1, <2>2, <2>3 DEF Fit, IsOutcome
  <2>5. w = Link(w.cid)
    BY <1>5, <1>11, TypesSplit, DataShapeIs
  <2>6. Under(r) = w
    BY <2>2, <2>3, <2>5 DEF Under
  <2> QED  BY <1>5, <1>9, <2>2, <2>3, <2>4, <2>6 DEF r
<1>12. CASE tag \notin {"Ok", "Err"} /\ ~(tag \in PendingTags /\ w.kind = "link")
  BY <1>1, <1>7, <1>12 DEF r
<1> QED  BY <1>10, <1>11, <1>12

----------------------------------------------------------------------------
(* The parcel                                                              *)

\* The values that callers and others hold are trees, by their depth.
LEMMA ValueTrees == \A v \in Value : Tree(v)
<1> DEFINE T == {n \in Nat : \A v \in Value : Depth[v] < n => LowTree(v, n)}
<1>1. \A v \in Value : Depth[v] \in Nat
  BY ArgumentsAssumption
<1>2. 0 \in T
  BY <1>1
<1>3. ASSUME NEW n \in Nat, n \in T  PROVE n + 1 \in T
  <2> SUFFICES ASSUME NEW v \in Value, Depth[v] < n + 1
               PROVE  LowTree(v, n + 1)
    OBVIOUS
  <2>1. ASSUME NEW p \in Parts(v)  PROVE LowTree(p, n)
    <3>1. p \in Value /\ Depth[p] < Depth[v]
      BY <2>1, ArgumentsAssumption
    <3>2. Depth[p] < n
      BY <1>1, <3>1
    <3> QED  BY <1>3, <3>1, <3>2
  <2> QED  BY <2>1, TreeIs
<1> HIDE DEF T
<1>4. Nat \subseteq T
  BY <1>2, <1>3, SetInduction
<1>5. ASSUME NEW v \in Value  PROVE Tree(v)
  <2>1. Depth[v] + 1 \in Nat /\ Depth[v] < Depth[v] + 1
    BY <1>1
  <2>2. LowTree(v, Depth[v] + 1)
    BY <1>4, <2>1 DEF T
  <2> QED  BY <2>1, <2>2, TreeIs
<1> QED  BY <1>5

\* What a sender encloses, and what there is in an invocation.
IsArgument(a) ==
  \/ a.kind # "data" /\ Fit(a)
  \/ a = Data(a.value) /\ Tree(a.value) /\ IsData(a.value)
IsLetter(w) == \E v : Tree(v) /\ IsData(v) /\ w = ToDagCbor(v)

\* Every occasion has such arguments and letters.
LEMMA OccasionsFit ==
  ASSUME NEW o \in Occasions
  PROVE  (\A a \in o.arguments : IsArgument(a)) /\ \A w \in o.letters : IsLetter(w)
<1>1. ASSUME NEW a \in o.arguments  PROVE IsArgument(a)
  <2>1. CASE IsOutcome(a) /\ (a.kind \in Pending \/ a.value \in Value)
    <3>1. Fit(a)
      BY <2>1, ValueTrees DEF Fit
    <3>2. a.kind # "data"
      BY <3>1, OutcomeIs DEF Pending
    <3> QED  BY <3>1, <3>2 DEF IsArgument
  <2>2. CASE a = [kind |-> "data", value |-> a.value] /\ a.value \in Value /\ IsData(a.value)
    BY <2>2, ValueTrees DEF IsArgument, Data
  <2> QED  BY <2>1, <2>2, ArgumentsAssumption
<1>2. ASSUME NEW w \in o.letters  PROVE IsLetter(w)
  <2>1. PICK v \in Value : IsData(v) /\ w = ToDagCbor(v)
    BY ArgumentsAssumption
  <2> QED  BY <2>1, ValueTrees DEF IsLetter
<1> QED  BY <1>1, <1>2

\* What is sent is an outcome.
LEMMA SentFits ==
  ASSUME IsArgument(argument)
  PROVE  /\ Fit(Sent)
         /\ argument.kind = "data" =>
              /\ Sent = Ok(IpldToPromised(argument.value))
              /\ PromisedToIpld(AsHeld(IpldToPromised(argument.value))) = Received(argument.value)
<1>1. CASE argument.kind # "data"
  <2>1. argument # Data(argument.value)
    BY <1>1 DEF Data
  <2> QED  BY <1>1, <2>1 DEF IsArgument, Sent
<1>2. CASE argument.kind = "data"
  <2> DEFINE v == argument.value
             p == IpldToPromised(v)
  <2>1. Tree(v) /\ IsData(v)
    BY <1>2 DEF IsArgument
  <2>2. PICK n \in Nat : LowTree(v, n)
    BY <2>1, TreeIs
  <2>3. LowTree(p, n) /\ IsPromised(p) /\ PromisedToIpld(AsHeld(p)) = Received(v)
    BY <2>1, <2>2, DataPromised
  <2>4. Sent = Ok(p)
    BY <1>2 DEF Sent
  <2> HIDE DEF p
  <2>5. Tree(p)
    BY <2>3, TreeIs
  <2>6. Ok(p).kind = "ok" /\ Ok(p).value = p /\ Ok(p) = [kind |-> "ok", value |-> p]
    BY DEF Ok
  <2>7. IsOutcome(Ok(p))
    BY <2>3, <2>6 DEF IsOutcome
  <2>8. Fit(Ok(p))
    BY <2>5, <2>6, <2>7 DEF Fit
  <2> QED  BY <1>2, <2>3, <2>4, <2>8 DEF p
<1> QED  BY <1>1, <1>2

\* A letter as it is read, and what is read.
LEMMA LetterRead ==
  ASSUME NEW w, IsLetter(w)
  PROVE  LET v == FromDagCbor(w)
             r == WireIpldToPromise(v)
         IN  ~Threw(r) => Fit(r) /\ Received(PromiseToWireIpld(r)) = v
<1>1. PICK u : Tree(u) /\ IsData(u) /\ w = ToDagCbor(u)
  BY DEF IsLetter
<1> DEFINE v == FromDagCbor(w)
<1>2. v = Received(u)
  BY <1>1 DEF Received
<1>3. PICK n \in Nat : LowTree(u, n)
  BY <1>1, TreeIs
<1>4. LowTree(v, n) /\ IsData(v) /\ Received(v) = v
  BY <1>1, <1>2, <1>3, DataReceived, ReceivedAgain
<1>5. Tree(v)
  BY <1>4, TreeIs
<1> HIDE DEF v
<1>6. ~Threw(WireIpldToPromise(v)) =>
        Fit(WireIpldToPromise(v)) /\ Received(PromiseToWireIpld(WireIpldToPromise(v))) = v
  BY <1>4, <1>5, OutcomeWrittenBack
<1> QED  BY <1>6 DEF v

\* A set of positions that is not empty has a last one.
LEMMA LastIs ==
  ASSUME NEW S, NEW tokens \in Seq(S), NEW kind, \E n \in DOMAIN tokens : tokens[n] \in kind
  PROVE  \E n \in DOMAIN tokens : tokens[n] \in kind /\ LastOf(kind, tokens) = tokens[n]
<1> DEFINE of == {n \in DOMAIN tokens : tokens[n] \in kind}
           N == Len(tokens)
           T == {N - n : n \in of}
<1>1. of \subseteq 1..N /\ of # {} /\ N \in Nat
  OBVIOUS
<1>2. T \subseteq Nat /\ T # {}
  BY <1>1
<1>3. PICK t \in T : \A u \in T : t <= u
  <2> HIDE DEF T
  <2> QED  BY <1>2, LeastNumber
<1>4. PICK n \in of : t = N - n
  OBVIOUS
<1>5. \A m \in of : n >= m
  <2> TAKE m \in of
  <2>1. N - n <= N - m
    BY <1>3, <1>4
  <2>2. n \in Int /\ m \in Int
    BY <1>1
  <2> QED  BY <1>1, <2>1, <2>2
<1>6. Max(of) \in of
  <2> HIDE DEF of
  <2> QED  BY <1>5 DEF Max
<1>7. LastOf(kind, tokens) = tokens[Max(of)]
  BY <1>1 DEF LastOf
<1> QED  BY <1>6, <1>7

\* The same tokens are tokens of the same kinds.
LEMMA SameMembers ==
  ASSUME NEW s \in Seq(Token), NEW t \in Seq(Token), SameTokens(s, t) \/ SameTokens(t, s)
  PROVE  \A n \in DOMAIN s : \E k \in DOMAIN t : t[k] = s[n]
<1> SUFFICES ASSUME NEW n \in DOMAIN s, \A k \in DOMAIN t : t[k] # s[n]
             PROVE  FALSE
  OBVIOUS
<1> DEFINE x == s[n]
           A == {m \in DOMAIN s : s[m] = x}
<1>1. x \in Token
  OBVIOUS
<1>2. Cardinality(A) = Cardinality({k \in DOMAIN t : t[k] = x})
  BY <1>1 DEF SameTokens, Occurrences
<1>3. {k \in DOMAIN t : t[k] = x} = {}
  OBVIOUS
<1>4. Cardinality(A) = 0
  BY <1>2, <1>3, FS_EmptySet
<1>5. IsFiniteSet(A)
  <2>1. IsFiniteSet(DOMAIN s)
    <3>1. DOMAIN s = 1..Len(s) /\ Len(s) \in Nat
      OBVIOUS
    <3> QED  BY <3>1, FS_Interval
  <2> QED  BY <2>1, FS_Subset
<1>6. A = {}
  <2> HIDE DEF A
  <2> QED  BY <1>4, <1>5, FS_EmptySet
<1> QED  BY <1>6

\* A parcel's container is packed, carried and unpacked as any other.
THEOREM ParcelIsCarried == ParcelSpec => Spec
<1>1. ParcelInit => Init
  BY DEF ParcelInit
<1>2. [ParcelNext]_parcelVars => [ContainerNext]_containerVars
  BY DEF ParcelNext, parcelVars, Enclose, Carry, SortOut, Read, ResolveArgument
<1> QED  BY <1>1, <1>2, PTL DEF ParcelSpec, Spec

\* What SortOut wants of the tokens.
SortedOut ==
  /\ unpacked.ok /\ NoToken \notin {delegation, invocation}
  /\ \A n \in DOMAIN unpacked.tokens : unpacked.tokens[n] \in DelegationTokens \cup InvocationTokens

\* Every invocation holds data, the sender's own what was sent; and each stage
\* has what the one before it left.
LetterInv ==
  /\ IsArgument(argument)
  /\ enclosed = [t \in InvocationTokens |-> enclosed[t]]
  /\ \A t \in InvocationTokens : IsLetter(enclosed[t])
  /\ stage \notin {"unsent", "unsendable"} =>
       enclosed[OwnInvocation] = ToDagCbor(PromiseToWireIpld(Sent))
  /\ stage = "missing" =>
       /\ unpacking = "done" /\ ~SortedOut
       /\ delegation = LastOf(DelegationTokens, unpacked.tokens)
       /\ invocation = LastOf(InvocationTokens, unpacked.tokens)
  /\ stage \in {"sorted", "read", "unreadable", "resolved"} => invocation \in InvocationTokens
  /\ stage \in {"read", "unreadable", "resolved"} =>
       read = WireIpldToPromise(FromDagCbor(enclosed[invocation]))
  /\ stage \in {"read", "resolved"} => ~Threw(read)
  /\ stage = "resolved" /\ read.kind \notin Pending => resolved = PromisedToIpld(read.value)

\* It holds at first,
LEMMA LetterInit ==
  ASSUME ParcelInit
  PROVE  LetterInv
<1>1. occasion \in Occasions /\ argument \in occasion.arguments /\ stage = "unsent"
  BY DEF ParcelInit, Init
<1>2. PICK letter \in occasion.letters : enclosed = [t \in InvocationTokens |-> letter]
  BY DEF ParcelInit
<1>3. IsArgument(argument) /\ IsLetter(letter)
  BY <1>1, OccasionsFit
<1>4. enclosed = [t \in InvocationTokens |-> enclosed[t]] /\ \A t \in InvocationTokens : IsLetter(enclosed[t])
  BY <1>2, <1>3
<1> QED  BY <1>1, <1>3, <1>4 DEF LetterInv

\* and enclosing the argument,
LEMMA EncloseKeeps ==
  ASSUME LetterInv, Enclose
  PROVE  LetterInv'
<1>1. /\ argument' = argument /\ stage = "unsent" /\ stage' \in {"unsendable", "sent"}
      /\ \/ stage' = "unsendable" /\ enclosed' = enclosed
         \/ stage' = "sent" /\ enclosed' = [enclosed EXCEPT ![OwnInvocation] = ToDagCbor(PromiseToWireIpld(Sent))]
  BY DEF Enclose
<1>2. Sent' = Sent
  BY <1>1 DEF Sent
<1>3. IsLetter(ToDagCbor(PromiseToWireIpld(Sent)))
  <2>1. Fit(Sent)
    BY SentFits DEF LetterInv
  <2>2. Tree(PromiseToWireIpld(Sent)) /\ IsData(PromiseToWireIpld(Sent))
    BY <2>1, OutcomeWritten
  <2> QED  BY <2>2 DEF IsLetter
<1>4. OwnInvocation \in InvocationTokens
  BY ParcelAssumption
<1> DEFINE w == ToDagCbor(PromiseToWireIpld(Sent))
<1> HIDE DEF w
<1>5. /\ enclosed' = [t \in InvocationTokens |-> enclosed'[t]]
      /\ \A t \in InvocationTokens : IsLetter(enclosed'[t])
      /\ stage' = "sent" => enclosed'[OwnInvocation] = w
  <2>1. enclosed = [t \in InvocationTokens |-> enclosed[t]] /\ \A t \in InvocationTokens : IsLetter(enclosed[t])
    BY DEF LetterInv
  <2>2. CASE enclosed' = [enclosed EXCEPT ![OwnInvocation] = w]
    <3>1. /\ enclosed' = [t \in InvocationTokens |-> IF t = OwnInvocation THEN w ELSE enclosed[t]]
      BY <2>1, <2>2
    <3> QED  BY <1>3, <1>4, <2>1, <3>1 DEF w
  <2>3. CASE stage' = "unsendable" /\ enclosed' = enclosed
    BY <2>1, <2>3
  <2> QED  BY <1>1, <2>2, <2>3 DEF w
<1>6. IsArgument(argument)'
  BY <1>1 DEF LetterInv, IsArgument
<1>7. (stage \notin {"unsent", "unsendable"} =>
        enclosed[OwnInvocation] = ToDagCbor(PromiseToWireIpld(Sent)))'
  BY <1>1, <1>2, <1>5 DEF w
<1> QED  BY <1>1, <1>5, <1>6, <1>7 DEF LetterInv

\* sorting out,
LEMMA SortOutKeeps ==
  ASSUME LetterInv, SortOut, unpacked.tokens \in Seq(Item)
  PROVE  LetterInv'
<1>1. /\ UNCHANGED <<argument, enclosed, unpacking, unpacked>> /\ unpacking = "done"
      /\ delegation' = LastOf(DelegationTokens, unpacked.tokens)
      /\ invocation' = LastOf(InvocationTokens, unpacked.tokens)
      /\ stage = "sent" /\ stage' = IF SortedOut' THEN "sorted" ELSE "missing"
  BY DEF SortOut, SortedOut, containerVars, receiver
<1>2. Sent' = Sent
  BY <1>1 DEF Sent
<1>3. LastOf(InvocationTokens, unpacked.tokens) \in InvocationTokens \cup {NoToken}
  <2>1. CASE \E n \in DOMAIN unpacked.tokens : unpacked.tokens[n] \in InvocationTokens
    BY <2>1, LastIs
  <2>2. CASE ~\E n \in DOMAIN unpacked.tokens : unpacked.tokens[n] \in InvocationTokens
    BY <2>2 DEF LastOf
  <2> QED  BY <2>1, <2>2
<1>4. stage' = "sorted" => invocation' \in InvocationTokens
  BY <1>1, <1>3 DEF SortedOut
<1>5. stage' \in {"sorted", "missing"} /\ (stage' = "missing" => ~SortedOut')
  BY <1>1
<1>6. /\ LastOf(DelegationTokens, unpacked.tokens)' = LastOf(DelegationTokens, unpacked.tokens)
      /\ LastOf(InvocationTokens, unpacked.tokens)' = LastOf(InvocationTokens, unpacked.tokens)
  BY <1>1
<1>7. (stage = "missing" =>
         /\ unpacking = "done" /\ ~SortedOut
         /\ delegation = LastOf(DelegationTokens, unpacked.tokens)
         /\ invocation = LastOf(InvocationTokens, unpacked.tokens))'
  BY <1>1, <1>5, <1>6
<1>8. (/\ IsArgument(argument)
       /\ enclosed = [t \in InvocationTokens |-> enclosed[t]]
       /\ \A t \in InvocationTokens : IsLetter(enclosed[t])
       /\ enclosed[OwnInvocation] = ToDagCbor(PromiseToWireIpld(Sent)))'
  <2>1. /\ enclosed = [t \in InvocationTokens |-> enclosed[t]]
        /\ \A t \in InvocationTokens : IsLetter(enclosed[t])
        /\ enclosed[OwnInvocation] = ToDagCbor(PromiseToWireIpld(Sent)) /\ IsArgument(argument)
    BY <1>1 DEF LetterInv
  <2> QED  BY <1>1, <1>2, <2>1 DEF IsArgument
<1> QED  BY <1>4, <1>5, <1>7, <1>8 DEF LetterInv

\* and what comes after it, keep it.
LEMMA ReadingKeeps ==
  ASSUME LetterInv, Carry \/ Read \/ ResolveArgument \/ UNCHANGED parcelVars
  PROVE  LetterInv'
<1>1. UNCHANGED <<argument, enclosed, delegation, invocation>>
  BY DEF Carry, Read, ResolveArgument, parcelVars, correspondence
<1>2. Sent' = Sent
  BY <1>1 DEF Sent
<1>3. (/\ IsArgument(argument)
       /\ enclosed = [t \in InvocationTokens |-> enclosed[t]]
       /\ \A t \in InvocationTokens : IsLetter(enclosed[t]))'
  <2>1. /\ enclosed = [t \in InvocationTokens |-> enclosed[t]] /\ IsArgument(argument)
        /\ \A t \in InvocationTokens : IsLetter(enclosed[t])
    BY DEF LetterInv
  <2> QED  BY <1>1, <2>1 DEF IsArgument
<1>4. CASE Carry
  <2>1. UNCHANGED <<read, resolved, stage>> /\ stage = "sent"
    BY <1>4 DEF Carry, correspondence
  <2> QED  BY <1>1, <1>2, <1>3, <2>1 DEF LetterInv
<1>5. CASE Read
  <2>1. /\ stage = "sorted" /\ read' = WireIpldToPromise(FromDagCbor(enclosed[invocation]))
        /\ stage' = (IF Threw(read') THEN "unreadable" ELSE "read")
    BY <1>5 DEF Read
  <2>2. invocation \in InvocationTokens /\ enclosed[OwnInvocation] = ToDagCbor(PromiseToWireIpld(Sent))
    BY <2>1 DEF LetterInv
  <2>3. stage' \in {"read", "unreadable"} /\ (stage' = "read" => ~Threw(read'))
    BY <2>1
  <2>4. (read = WireIpldToPromise(FromDagCbor(enclosed[invocation])))'
    BY <1>1, <2>1
  <2>5. (enclosed[OwnInvocation] = ToDagCbor(PromiseToWireIpld(Sent)))'
    BY <1>1, <1>2, <2>2
  <2>6. (stage \in {"read", "resolved"} => ~Threw(read))'
    BY <2>3
  <2> QED  BY <1>1, <1>3, <2>2, <2>3, <2>4, <2>5, <2>6 DEF LetterInv
<1>6. CASE ResolveArgument
  <2>1. /\ stage = "read" /\ stage' = "resolved" /\ read' = read
        /\ read.kind \notin Pending => resolved' = PromisedToIpld(read.value)
    BY <1>6 DEF ResolveArgument
  <2>2. /\ invocation \in InvocationTokens /\ enclosed[OwnInvocation] = ToDagCbor(PromiseToWireIpld(Sent))
        /\ read = WireIpldToPromise(FromDagCbor(enclosed[invocation])) /\ ~Threw(read)
    BY <2>1 DEF LetterInv
  <2>3. (read = WireIpldToPromise(FromDagCbor(enclosed[invocation])))'
    BY <1>1, <2>1, <2>2
  <2>4. (enclosed[OwnInvocation] = ToDagCbor(PromiseToWireIpld(Sent)))'
    BY <1>1, <1>2, <2>2
  <2>5. (~Threw(read))'
    BY <2>1, <2>2
  <2>6. (read.kind \notin Pending => resolved = PromisedToIpld(read.value))'
    BY <2>1
  <2> QED  BY <1>1, <1>3, <2>1, <2>2, <2>3, <2>4, <2>5, <2>6 DEF LetterInv
<1>7. CASE UNCHANGED parcelVars
  <2>1. UNCHANGED <<read, resolved, stage, unpacking, unpacked>>
    BY <1>7 DEF parcelVars, correspondence, containerVars, receiver
  <2>2. SortedOut' = SortedOut
    BY <1>1, <2>1 DEF SortedOut
  <2> QED  BY <1>1, <1>2, <1>3, <2>1, <2>2 DEF LetterInv
<1> QED  BY <1>4, <1>5, <1>6, <1>7

\* Every step does.
LEMMA LettersKept == ParcelSpec => []LetterInv
<1>1. ParcelInit => LetterInv
  BY LetterInit
<1>2. LetterInv /\ CInv /\ [ParcelNext]_parcelVars => LetterInv'
  BY EncloseKeeps, SortOutKeeps, ReadingKeeps DEF ParcelNext, CInv
<1> QED  BY <1>1, <1>2, ParcelIsCarried, CallsKeep, PTL DEF ParcelSpec

\* What is read is an outcome, written as what was read; and the sender's own
\* is as its receiver holds it.
LEMMA WhatIsRead ==
  ASSUME LetterInv, stage \in {"read", "unreadable", "resolved"}
  PROVE  /\ ~Threw(read) =>
              Fit(read) /\ Received(PromiseToWireIpld(read)) = FromDagCbor(enclosed[invocation])
         /\ invocation = OwnInvocation => Fit(Sent) /\ read = AsRead(Sent)
<1>1. invocation \in InvocationTokens /\ read = WireIpldToPromise(FromDagCbor(enclosed[invocation]))
  BY DEF LetterInv
<1>2. IsLetter(enclosed[invocation])
  BY <1>1 DEF LetterInv
<1>3. ~Threw(read) => Fit(read) /\ Received(PromiseToWireIpld(read)) = FromDagCbor(enclosed[invocation])
  BY <1>1, <1>2, LetterRead
<1>4. ASSUME invocation = OwnInvocation
      PROVE  Fit(Sent) /\ read = AsRead(Sent)
  <2>1. Fit(Sent)
    BY SentFits DEF LetterInv
  <2>2. enclosed[invocation] = ToDagCbor(PromiseToWireIpld(Sent))
    BY <1>4 DEF LetterInv
  <2>3. read = WireIpldToPromise(Received(PromiseToWireIpld(Sent)))
    BY <1>1, <2>2 DEF Received
  <2> QED  BY <2>1, <2>3, OutcomeReadBack
<1> QED  BY <1>3, <1>4

\* One delegation, one invocation and nothing else are always sorted out, and
\* an argument is read as what was enclosed.
THEOREM ArgumentGetsThere == ParcelSpec => []ArgumentArrives
<1>1. LetterInv /\ PInv /\ UnpackedAsOfTheCall => ArgumentArrives
  <2> SUFFICES ASSUME LetterInv, PInv, UnpackedAsOfTheCall
               PROVE  ArgumentArrives
    OBVIOUS
  <2>1. ASSUME stage = "missing", ~Exposed, NEW m \in made, given = m.packed,
               One(DelegationTokens, m.passed.tokens), One(InvocationTokens, m.passed.tokens),
               \A n \in DOMAIN m.passed.tokens : m.passed.tokens[n] \in DelegationTokens \cup InvocationTokens
        PROVE  FALSE
    <3> DEFINE s == m.passed.tokens
               t == unpacked.tokens
    <3>1. /\ unpacking = "done" /\ ~SortedOut
          /\ delegation = LastOf(DelegationTokens, t) /\ invocation = LastOf(InvocationTokens, t)
      BY <2>1 DEF LetterInv
    <3>2. unpacked.ok /\ s \in Seq(Token) /\ t \in Seq(Token) /\ SameTokens(t, s)
      BY <2>1, <3>1, MadeUnpacks
    <3>3. \A n \in DOMAIN t : t[n] \in DelegationTokens \cup InvocationTokens
      BY <2>1, <3>2, SameMembers
    <3>4. ASSUME NEW kind, One(kind, s)
          PROVE  LastOf(kind, t) \in Token
      <4>1. {n \in DOMAIN s : s[n] \in kind} # {}
        BY <3>4, FS_EmptySet DEF One
      <4>2. \E k \in DOMAIN t : t[k] \in kind
        <5>1. PICK n \in DOMAIN s : s[n] \in kind
          BY <4>1
        <5>2. PICK k \in DOMAIN t : t[k] = s[n]
          BY <3>2, SameMembers
        <5> QED  BY <5>1, <5>2
      <4>3. PICK k \in DOMAIN t : LastOf(kind, t) = t[k]
        BY <3>2, <4>2, LastIs
      <4> QED  BY <3>2, <4>3
    <3>5. NoToken \notin {delegation, invocation}
      BY <2>1, <3>1, <3>4, ParcelAssumption
    <3> QED  BY <3>1, <3>2, <3>3, <3>5 DEF SortedOut
  <2>2. ASSUME stage \in {"read", "unreadable", "resolved"}, invocation = OwnInvocation
        PROVE  read = IF Sent.kind \in Pending THEN Sent ELSE [Sent EXCEPT !.value = AsHeld(@)]
    BY <2>2, WhatIsRead DEF AsRead
  <2> QED  BY <2>1, <2>2 DEF ArgumentArrives
<1> QED  BY <1>1, LettersKept, ParcelIsCarried, MadeAsPassed, UnpacksAsPassed, PTL

\* Whatever is read, from whoever, is in the form that this library writes.
THEOREM ReadAsWritten == ParcelSpec => []ReadIsWhatIsWritten
<1>1. LetterInv => ReadIsWhatIsWritten
  BY WhatIsRead DEF LetterInv, ReadIsWhatIsWritten
<1> QED  BY <1>1, LettersKept, PTL

\* What is read resolves exactly when nothing waits in it, at any depth, and
\* data comes out as it went in.
THEOREM ResolvesAsItShould == ParcelSpec => []ResolvesUnlessWaiting
<1>1. ASSUME LetterInv, stage = "resolved", read.kind \notin Pending
      PROVE  /\ Threw(resolved) <=> WaitsIn(read.value) # {}
             /\ Threw(resolved) => Wait(resolved.reason, resolved.cid) \in WaitsIn(read.value)
             /\ argument.kind = "data" /\ invocation = OwnInvocation => resolved = Received(argument.value)
  <2> DEFINE p == read.value
  <2>1. ~Threw(read) /\ resolved = PromisedToIpld(p)
    BY <1>1 DEF LetterInv
  <2>2. Fit(read)
    BY <1>1, <2>1, WhatIsRead
  <2>3. IsPromised(p) /\ Tree(p)
    BY <1>1, <2>2, OutcomeIs
  <2>4. PICK n \in Nat : LowTree(p, n)
    BY <2>3, TreeIs
  <2>5. Resolves(p)
    BY <2>3, <2>4, ResolvesOrWaits
  <2>6. Threw(resolved) <=> WaitsIn(p) # {}
    BY <2>1, <2>5 DEF Resolves
  <2>7. ASSUME Threw(resolved)
        PROVE  Wait(resolved.reason, resolved.cid) \in WaitsIn(p)
    <3>1. PICK x \in WaitsIn(p) : resolved = WaitingOn(x)
      BY <2>1, <2>5, <2>7 DEF Resolves
    <3>2. x \in Within(p) /\ x.kind \in Waits
      BY <3>1 DEF WaitsIn
    <3>3. PromisedShape(x)
      BY <2>3, <3>2, Zenon DEF IsPromised, PromisedShape
    <3>4. x = Wait(x.kind, x.cid)
      BY <3>2, <3>3, ShapeIs
    <3>5. resolved.reason = x.kind /\ resolved.cid = x.cid
      BY <3>1 DEF WaitingOn
    <3> QED  BY <3>1, <3>4, <3>5
  <2>8. ASSUME argument.kind = "data", invocation = OwnInvocation
        PROVE  resolved = Received(argument.value)
    <3> DEFINE q == IpldToPromised(argument.value)
    <3>1. read = AsRead(Sent)
      BY <1>1, <2>8, WhatIsRead
    <3>2. Sent = Ok(q) /\ PromisedToIpld(AsHeld(q)) = Received(argument.value)
      BY <1>1, <2>8, SentFits DEF LetterInv
    <3> HIDE DEF q
    <3>3. read.value = AsHeld(q)
      <4>1. Ok(q).kind \notin Pending /\ Ok(q).value = q /\ [Ok(q) EXCEPT !.value = AsHeld(q)].value = AsHeld(q)
        BY DEF Ok, Pending
      <4> QED  BY <3>1, <3>2, <4>1 DEF AsRead
    <3> QED  BY <2>1, <3>2, <3>3
  <2> QED  BY <2>6, <2>7, <2>8
<1>2. LetterInv => ResolvesUnlessWaiting
  BY <1>1 DEF ResolvesUnlessWaiting
<1> QED  BY <1>2, LettersKept, PTL
=============================================================================
