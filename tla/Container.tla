----------------------------- MODULE Container -----------------------------
(***************************************************************************)
(* The container codec (packages/ucan/src/container/index.ts): a call of   *)
(* containerToBytes, the way the bytes go, and a call of                   *)
(* containerFromBytes.  Each call awaits zlib at most once, and meanwhile  *)
(* its caller may change the objects it passed.                            *)
(*                                                                         *)
(* A token is its bytes.  A payload is what was done to it: CBOR, gzip and *)
(* base64 are layers, which only their inverse takes off again.            *)
(***************************************************************************)
EXTENDS Naturals, Sequences, FiniteSets

CONSTANTS
  Token,        \* byte strings that are signed tokens
  NotBytes,     \* an element of a CBOR array that is not a byte string
  Occasions,    \* what callers pass (jobs), what others send (strangers), and
                \* what a receiver writes over its bytes (rewrites)
  Packings,     \* bound on the calls of containerToBytes
  Unset         \* no bytes

Compression == {"none", "gzip"}
BaseEncoding == {"bytes", "base64-std", "base64-url"}
JobType == [tokens : Seq(Token), compression : Compression, encoding : BaseEncoding]
Job(tokens, compression, encoding) ==
  [tokens |-> tokens, compression |-> compression, encoding |-> encoding]

\* The wrappers of containerToBytes.
ContainerToBase64StdPadding(tokens, gzipped) ==
  Job(tokens, IF gzipped THEN "gzip" ELSE "none", "base64-std")
ContainerToBase64Url(tokens, gzipped) ==
  Job(tokens, IF gzipped THEN "gzip" ELSE "none", "base64-url")
ContainerToBytesGzipped(tokens) == Job(tokens, "gzip", "bytes")
ContainerToRawBytes(tokens) == Job(tokens, "none", "bytes")

\* What is in the bytes, from the outside in: text, a gzip stream, CBOR (top is
\* "map" or not, and what is below its first key "array" or not), or nothing
\* that can be read.
Cbor(top, keys, below, items) ==
  [layer |-> "cbor", top |-> top, keys |-> keys, below |-> below, items |-> items]
Gzip(p)      == [layer |-> "gzip", of |-> p]
Base64(a, p) == [layer |-> "base64", alphabet |-> a, of |-> p]
Garbage      == [layer |-> "garbage"]

\* An element of a CBOR array is a byte string, or it is not.
Item == Seq(0..255) \cup {NotBytes}

\* A layer is one of these, as deep as the code looks.
IsLayer(p) ==
  \/ p.layer = "cbor" /\ p = Cbor(p.top, p.keys, p.below, p.items) /\ p.items \in Seq(Item)
  \/ p.layer = "gzip" /\ p = Gzip(p.of)
  \/ p.layer = "base64" /\ p = Base64(p.alphabet, p.of) /\ p.alphabet \in {"std", "url"}
  \/ p = Garbage
Wraps(p) == p.layer \in {"gzip", "base64"}
IsPayload(p) ==
  /\ IsLayer(p)
  /\ Wraps(p) => IsLayer(p.of) /\ (Wraps(p.of) => IsLayer(p.of.of))
IsContainer(s) ==
  s # Unset /\ s = [header |-> s.header, payload |-> s.payload] /\ IsPayload(s.payload)

ASSUME ContainerAssumption ==
  /\ Token \subseteq Seq(0..255) /\ NotBytes \notin Seq(0..255)
  /\ \A o \in Occasions :
       /\ o.jobs \subseteq JobType
       /\ \A s \in o.strangers \cup o.rewrites : IsContainer(s)

VARIABLES
  occasion,   \* which of them there are; it stays
  job,        \* the parameters, which stay the caller's
  packing,    \* where containerToBytes is: "idle", "gzip"
  passed,     \* the parameters as the call began
  cbor,       \* the CBOR bytes
  made,       \* history: what containerToBytes resolved to, and for which parameters
  bytes,      \* what containerFromBytes is passed, which stays the caller's
  isBuffer,   \* whether that is a Buffer
  unpacking,  \* where containerFromBytes is: "idle", "gunzip", "done"
  given,      \* the bytes as the call began
  payload,    \* the gzip stream cut out of them
  unpacked    \* the outcome

sender == <<job, packing, passed, cbor, made>>
receiver == <<unpacking, given, payload, unpacked>>
transit == <<bytes, isBuffer>>
containerVars == <<occasion, sender, transit, receiver>>

Refused == [ok |-> FALSE, tokens |-> <<>>]

Init ==
  /\ occasion \in Occasions /\ job \in occasion.jobs /\ passed = job
  /\ packing = "idle" /\ cbor = Unset /\ made = {}
  /\ bytes = Unset /\ isBuffer = FALSE
  /\ unpacking = "idle" /\ given = Unset /\ payload = Unset /\ unpacked = Refused

----------------------------------------------------------------------------
(* containerToBytes                                                        *)

\* A slip: shorter tokens first, as DAG-CBOR sorts keys.
ShorterFirst(a, b) ==
  \/ Len(a) < Len(b)
  \/ /\ Len(a) = Len(b)
     /\ \E n \in DOMAIN a : a[n] < b[n] /\ \A m \in 1..n-1 : a[m] = b[m]

\* The comparator is negative: the first byte that differs, then the length.
Before(a, b) ==
  \/ \E n \in DOMAIN a \cap DOMAIN b : a[n] < b[n] /\ \A m \in 1..n-1 : a[m] = b[m]
  \/ Len(a) < Len(b) /\ \A m \in DOMAIN a : a[m] = b[m]

IsSorted(s) == \A m, n \in DOMAIN s : m < n => ~Before(s[n], s[m])

\* The elements of s in some order.
Arrangements(s) ==
  {[n \in DOMAIN s |-> s[p[n]]] :
     p \in {f \in [DOMAIN s -> DOMAIN s] : \A m, n \in DOMAIN s : f[m] = f[n] => m = n}}

\* ContainerHeader: '@', 'B', 'C', and with gzip 'M', 'O', 'P'.
ContainerHeader(compression, encoding) ==
  CASE encoding = "bytes" -> IF compression = "gzip" THEN 77 ELSE 64
    [] encoding = "base64-std" -> IF compression = "gzip" THEN 79 ELSE 66
    [] encoding = "base64-url" -> IF compression = "gzip" THEN 80 ELSE 67

InEncoding(encoding, p) ==
  CASE encoding = "bytes" -> p
    [] encoding = "base64-std" -> Base64("std", p)
    [] encoding = "base64-url" -> Base64("url", p)

Resolve(container) == made' = made \cup {[passed |-> passed', packed |-> container]}

\* Up to the await of gzip, or to the end.
Pack ==
  /\ packing = "idle" /\ Cardinality(made) < Packings
  /\ passed' = job
  /\ \E sorted \in Arrangements(job.tokens) :
       IsSorted(sorted) /\ cbor' = Cbor("map", {"ctn-v1"}, "array", sorted)
  /\ \/ job.compression = "gzip" /\ packing' = "gzip" /\ UNCHANGED made
     \/ /\ job.compression = "none" /\ UNCHANGED packing
        /\ Resolve([header |-> ContainerHeader("none", job.encoding),
                    payload |-> InEncoding(job.encoding, cbor')])
  /\ UNCHANGED <<occasion, job, transit, receiver>>

\* A slip: options.encoding is read after the await.
ReadLate ==
  /\ packing = "gzip" /\ packing' = "idle" /\ UNCHANGED passed
  /\ Resolve([header |-> ContainerHeader("gzip", job.encoding),
              payload |-> InEncoding(job.encoding, Gzip(cbor))])
  /\ UNCHANGED <<occasion, job, cbor, transit, receiver>>

Gzipped ==
  /\ packing = "gzip" /\ packing' = "idle" /\ UNCHANGED passed
  /\ Resolve([header |-> ContainerHeader("gzip", passed.encoding),
              payload |-> InEncoding(passed.encoding, Gzip(cbor))])
  /\ UNCHANGED <<occasion, job, cbor, transit, receiver>>

\* The caller changes the array or the options, during a call or for the next;
\* once a container is delivered it would change nothing that is looked at.
SenderMutates ==
  /\ bytes = Unset
  /\ job' \in occasion.jobs
  /\ UNCHANGED <<occasion, packing, passed, cbor, made, transit, receiver>>

----------------------------------------------------------------------------
(* The way the bytes go, and containerFromBytes                            *)

Deliver ==
  /\ bytes = Unset
  /\ bytes' \in {m.packed : m \in made} \cup occasion.strangers /\ isBuffer' \in BOOLEAN
  /\ UNCHANGED <<occasion, sender, receiver>>

Known == {64, 66, 67, 77, 79, 80}
IsText == {66, 67, 79, 80}
IsGzip == {77, 79, 80}

\* Node decodes either alphabet and drops what is in neither.
FromBase64(p) == IF p.layer = "base64" THEN p.of ELSE Garbage

\* A slip: one key is not required to be the only one.
OneOfTheKeys(p) ==
  LET ok == /\ p.layer = "cbor" /\ p.top = "map" /\ "ctn-v1" \in p.keys /\ p.below = "array"
            /\ \A n \in DOMAIN p.items : p.items[n] # NotBytes
  IN  [ok |-> ok, tokens |-> IF ok THEN p.items ELSE <<>>]

\* What dagCbor.decode makes of the keys of a map: an object never has one
\* called __proto__ of its own.
Own(keys) == keys \ {"__proto__"}

\* dagCbor.decode, and the array under the only key.
Extract(p) ==
  LET ok == /\ p.layer = "cbor" /\ p.top = "map" /\ Own(p.keys) = {"ctn-v1"} /\ p.below = "array"
            /\ \A n \in DOMAIN p.items : p.items[n] # NotBytes
  IN  [ok |-> ok, tokens |-> IF ok THEN p.items ELSE <<>>]

\* bytes.slice(1), without the base64 that the header announces.
CutOut(container) ==
  IF container.header \in IsText THEN FromBase64(container.payload) ELSE container.payload

\* Up to the await of gunzip, or to the end.
Unpack ==
  /\ unpacking = "idle" /\ bytes # Unset
  /\ given' = bytes
  /\ \/ /\ bytes.header \notin Known
        /\ unpacking' = "done" /\ unpacked' = Refused /\ UNCHANGED payload
     \/ /\ bytes.header \in Known \ IsGzip
        /\ unpacking' = "done" /\ unpacked' = Extract(CutOut(bytes)) /\ UNCHANGED payload
     \/ /\ bytes.header \in IsGzip
        /\ unpacking' = "gunzip"
        /\ payload' = CutOut(bytes) /\ UNCHANGED unpacked
  /\ UNCHANGED <<occasion, sender, transit>>

\* gunzip, which throws for what is no gzip stream, and the rest.
Gunzip(p) == IF p.layer = "gzip" THEN Extract(p.of) ELSE Refused

\* A slip: gunzip reads the caller's bytes whatever they are.
GunzipLate ==
  /\ unpacking = "gunzip"
  /\ unpacking' = "done"
  /\ unpacked' = Gunzip(CutOut(bytes))
  /\ UNCHANGED <<occasion, sender, transit, given, payload>>

\* slice copies, but a Buffer's slice is a view.
IsView == isBuffer /\ given.header \notin IsText

\* zlib runs on another thread: of a view it may read what the bytes were, what
\* they have become, or a mixture, which is no gzip stream.
Gunzipped ==
  /\ unpacking = "gunzip"
  /\ unpacking' = "done"
  /\ \E p \in IF IsView THEN {payload, bytes.payload, Garbage} ELSE {payload} :
       unpacked' = Gunzip(p)
  /\ UNCHANGED <<occasion, sender, transit, given, payload>>

ReceiverMutates ==
  /\ unpacking = "gunzip"
  /\ bytes' \in occasion.rewrites
  /\ UNCHANGED <<occasion, sender, isBuffer, receiver>>

ContainerNext ==
  \/ Pack \/ Gzipped \/ SenderMutates \/ Deliver
  \/ Unpack \/ Gunzipped \/ ReceiverMutates

Spec == Init /\ [][ContainerNext]_containerVars
----------------------------------------------------------------------------
(* Properties                                                              *)

Occurrences(s, x) == Cardinality({n \in DOMAIN s : s[n] = x})
SameTokens(s, t) == Len(s) = Len(t) /\ \A x \in Token : Occurrences(s, x) = Occurrences(t, x)

\* "sorts tokens bytewise for deterministic encoding": the same tokens, in
\* whatever order they were passed and whatever became of the array and the
\* options while gzip ran, make the same container in the same format, and
\* other tokens or another format make another.
OneContainerPerParcel ==
  \A m, n \in made :
    m.packed = n.packed <=>
      /\ SameTokens(m.passed.tokens, n.passed.tokens)
      /\ m.passed.compression = n.passed.compression /\ m.passed.encoding = n.passed.encoding

\* Tokens as numbers of the same width: a byte is a digit from 1 on, and 0
\* stands where a token has ended.
Weight(t, width) ==
  LET w[n \in 0..width] == IF n = 0 THEN 0 ELSE w[n-1] * 257 + (IF n <= Len(t) THEN t[n] + 1 ELSE 0)
  IN  w[width]
Bytewise(s) ==
  \A n \in 1..Len(s) - 1 :
    LET width == Len(s[n]) + Len(s[n+1]) IN Weight(s[n], width) <= Weight(s[n+1], width)

\* A Buffer in the format '@M' is read while its owner may write to it.
Exposed == isBuffer /\ given.header = ContainerHeader("gzip", "bytes")

\* What one call packed another unpacks: every token as often as it was passed,
\* in bytewise order.
ParcelArrives ==
  unpacking = "done" /\ ~Exposed =>
    \A m \in made : given = m.packed =>
      unpacked.ok /\ SameTokens(unpacked.tokens, m.passed.tokens) /\ Bytewise(unpacked.tokens)

\* The CBOR of tokens: they are under one key, next to which a reader in
\* JavaScript overlooks __proto__.
Listings(tokens) ==
  {Cbor("map", {"ctn-v1"} \cup more, "array", tokens) : more \in {{}, {"__proto__"}}}

\* container is one that holds tokens: one header of the six, what it announces,
\* and in it one key with an array of byte strings.
Holds(container, tokens) ==
  \E content \in Listings(tokens), compression \in Compression, encoding \in BaseEncoding,
     alphabet \in {"std", "url"} :
    LET pressed == IF compression = "gzip" THEN Gzip(content) ELSE content
    IN  /\ \A n \in DOMAIN tokens : tokens[n] # NotBytes
        /\ container.header = ContainerHeader(compression, encoding)
        /\ container.payload = IF encoding = "bytes" THEN pressed ELSE Base64(alphabet, pressed)

Innermost(p) ==
  IF Wraps(p) THEN IF Wraps(p.of) THEN p.of.of ELSE p.of ELSE p
ReadRight(container, outcome) ==
  /\ outcome.ok => Holds(container, outcome.tokens)
  /\ ~outcome.ok => LET p == Innermost(container.payload)
                    IN  p.layer = "cbor" => ~Holds(container, p.items)

\* Whoever wrote the bytes, and whatever becomes of them during the call, the
\* tokens are those of the bytes as passed, all of them in their order, and
\* there are tokens exactly when the bytes are a container.
UnpackedAsOfTheCall == unpacking = "done" /\ ~Exposed => ReadRight(given, unpacked)
=============================================================================
