------------------------------- MODULE Parcel -------------------------------
(***************************************************************************)
(* A parcel on its way: an invocation whose argument is an outcome that    *)
(* may be pending, packed into a container with its delegation, unpacked   *)
(* and sorted out as examples/06-container-transport.ts does, and then     *)
(* read and resolved (promise.ts).                                         *)
(***************************************************************************)
EXTENDS Container, Promises

CONSTANTS
  DelegationTokens, InvocationTokens, \* the tokens that decode; others do not
  OwnInvocation,  \* the invocation the sender encloses its argument in
  NoToken,
  Depth           \* how deep each value is, Ipld or Promised, and each value in one

ASSUME ParcelAssumption ==
  /\ OwnInvocation \in InvocationTokens /\ NoToken \notin Token
  /\ DelegationTokens \cup InvocationTokens \subseteq Token
  /\ DelegationTokens \cap InvocationTokens = {}
  \* an occasion also has the arguments a sender encloses, and what others wrote
  /\ \A o \in Occasions : {"arguments", "letters"} \subseteq DOMAIN o

\* Arguments are outcomes or plain data, letters what DAG-CBOR makes of data.
\* No map among them has a key __proto__: decoding drops it, and the invocation
\* is refused as not canonical (the ProtoMaps of Tokens).
Value == DOMAIN Depth
ASSUME ArgumentsAssumption ==
  /\ Depth \in [Value -> Nat]
  /\ \A v \in Value : \A part \in Parts(v) : part \in Value /\ Depth[part] < Depth[v]
  /\ \A o \in Occasions :
       /\ \A a \in o.arguments :
            \/ IsOutcome(a) /\ (a.kind \in Pending \/ a.value \in Value)
            \/ a = [kind |-> "data", value |-> a.value] /\ a.value \in Value /\ IsData(a.value)
       /\ o.letters \subseteq {ToDagCbor(v) : v \in {v \in Value : IsData(v) /\ Encodable(v)}}
  /\ \A kind \in PromisedKinds : Sorted({PromisedTag(kind)}) = <<PromisedTag(kind)>>
  /\ \A kind \in {"ok", "err"} \cup Pending : Sorted({OutcomeTag(kind)}) = <<OutcomeTag(kind)>>

VARIABLES
  argument,   \* what the sender encloses: an outcome, or plain data
  enclosed,   \* the argument in each invocation, as DAG-CBOR has it
  delegation, \* what the receiver's loop over the tokens ends with ...
  invocation, \* ... of either kind
  read,       \* the argument as read
  resolved,   \* the argument in its plain form
  stage       \* "unsent", "sent", "sorted", "read", "resolved"; or where it ended:
              \* "unsendable", "missing", "unreadable"

correspondence == <<argument, enclosed, delegation, invocation, read, resolved, stage>>
parcelVars == <<containerVars, correspondence>>

ParcelInit ==
  /\ Init
  /\ argument \in occasion.arguments
  /\ \E letter \in occasion.letters : enclosed = [t \in InvocationTokens |-> letter]
  /\ delegation = NoToken /\ invocation = NoToken
  /\ read = Malformed /\ resolved = Malformed /\ stage = "unsent"

Data(i) == [kind |-> "data", value |-> i]
Sent == IF argument.kind = "data" THEN Ok(IpldToPromised(argument.value)) ELSE argument

\* Argument and token are made; a number without a DAG-CBOR form throws.
Enclose ==
  LET wire == PromiseToWireIpld(Sent) IN
  /\ stage = "unsent"
  /\ \/ ~Encodable(wire) /\ stage' = "unsendable" /\ UNCHANGED enclosed
     \/ /\ Encodable(wire) /\ stage' = "sent"
        /\ enclosed' = [enclosed EXCEPT ![OwnInvocation] = ToDagCbor(wire)]
  /\ UNCHANGED <<containerVars, argument, delegation, invocation, read, resolved>>

Carry == stage = "sent" /\ ContainerNext /\ UNCHANGED correspondence

\* The loop assigns again for every token of a kind.
LastOf(kind, tokens) ==
  LET of == {n \in DOMAIN tokens : tokens[n] \in kind} IN
  IF of = {} THEN NoToken ELSE tokens[Max(of)]

\* decodeToken of every token, and what is left at the end of the loop; one
\* that is neither kind, or a kind that is missing, throws.
SortOut ==
  LET tokens == unpacked.tokens IN
  /\ stage = "sent" /\ unpacking = "done"
  /\ delegation' = LastOf(DelegationTokens, tokens)
  /\ invocation' = LastOf(InvocationTokens, tokens)
  /\ stage' = IF /\ unpacked.ok /\ NoToken \notin {delegation', invocation'}
                 /\ \A n \in DOMAIN tokens : tokens[n] \in DelegationTokens \cup InvocationTokens
              THEN "sorted" ELSE "missing"
  /\ UNCHANGED <<containerVars, argument, enclosed, read, resolved>>

Read ==
  /\ stage = "sorted"
  /\ read' = WireIpldToPromise(FromDagCbor(enclosed[invocation]))
  /\ stage' = IF Threw(read') THEN "unreadable" ELSE "read"
  /\ UNCHANGED <<containerVars, argument, enclosed, delegation, invocation, resolved>>

\* The value of an outcome that is there.
ResolveArgument ==
  /\ stage = "read" /\ stage' = "resolved"
  /\ \/ read.kind \in Pending /\ UNCHANGED resolved
     \/ read.kind \notin Pending /\ resolved' = PromisedToIpld(read.value)
  /\ UNCHANGED <<containerVars, argument, enclosed, delegation, invocation, read>>

ParcelNext == Enclose \/ Carry \/ SortOut \/ Read \/ ResolveArgument

ParcelSpec == ParcelInit /\ [][ParcelNext]_parcelVars
----------------------------------------------------------------------------
(* Properties                                                              *)

\* A promised value with its numbers and keys as its receiver holds them.
HeldNode(p, held) ==
  CASE p.kind \in {"integer", "float"} -> [p EXCEPT !.value = Received(@)]
    [] p.kind = "list" -> List([n \in DOMAIN p.items |-> held[p.items[n]]])
    [] p.kind = "map" -> MapOf([k \in DOMAIN p.entries |-> held[p.entries[k]]], Sorted(DOMAIN p.entries))
    [] OTHER -> p
AsHeld(p) == Fold(HeldNode, p)

\* A parcel with one delegation, one invocation and nothing else is sorted out,
\* in whatever order and format they were packed, and the argument is read as
\* what was enclosed: integer stays integer, float stays float, a wait stays a
\* wait for the same result, and null, bytes and pending outcomes are told from
\* all else.
One(kind, tokens) == Cardinality({n \in DOMAIN tokens : tokens[n] \in kind}) = 1
ArgumentArrives ==
  /\ stage = "missing" /\ ~Exposed =>
       \A m \in made : given = m.packed =>
         \/ ~One(DelegationTokens, m.passed.tokens) \/ ~One(InvocationTokens, m.passed.tokens)
         \/ \E n \in DOMAIN m.passed.tokens :
              m.passed.tokens[n] \notin DelegationTokens \cup InvocationTokens
  /\ stage \in {"read", "unreadable", "resolved"} /\ invocation = OwnInvocation =>
       read = IF Sent.kind \in Pending THEN Sent ELSE [Sent EXCEPT !.value = AsHeld(@)]

\* Whoever wrote it, a form that is read is the one this library writes for
\* what was read: nothing in it is dropped, and no two meanings share a form.
ReadIsWhatIsWritten ==
  stage \in {"read", "resolved"} =>
    Received(PromiseToWireIpld(read)) = FromDagCbor(enclosed[invocation])

WaitsIn(p) == {x \in Within(p) : x.kind \in Waits}

\* An argument resolves exactly when nothing in it waits, at any depth, and the
\* error names a wait that is there; plain data comes out as it went in, even
\* data that looks like a wait.
ResolvesUnlessWaiting ==
  stage = "resolved" /\ read.kind \notin Pending =>
    /\ Threw(resolved) <=> WaitsIn(read.value) # {}
    /\ Threw(resolved) => Wait(resolved.reason, resolved.cid) \in WaitsIn(read.value)
    /\ argument.kind = "data" /\ invocation = OwnInvocation => resolved = Received(argument.value)
=============================================================================
