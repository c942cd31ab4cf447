------------------------------ MODULE Promises ------------------------------
(***************************************************************************)
(* Distributed promises (packages/ucan/src/promise.ts): values with leaves *)
(* that wait on the result of another invocation, and outcomes that are    *)
(* there or pending; their plain form and their externally tagged form.    *)
(*                                                                         *)
(* Null, Bool, Str, BytesOf, Link, List and MapOf serve for the kinds of   *)
(* Promised that are named and hold what their Ipld counterparts do.       *)
(***************************************************************************)
EXTENDS IpldTrees

Waits == {"waitOk", "waitErr", "waitAny"}
Pending == {"pendingOk", "pendingErr", "pendingAny", "pendingTagged"}

Integer(v)    == [kind |-> "integer", value |-> v]
Float(v)      == [kind |-> "float", value |-> v]
Wait(kind, c) == [kind |-> kind, cid |-> c]
Ok(v)         == [kind |-> "ok", value |-> v]
Err(v)        == [kind |-> "err", value |-> v]

\* order lists the keys, each of them once.
Lists(order, keys) ==
  /\ order \in Seq(keys) /\ keys = {order[n] : n \in DOMAIN order}
  /\ \A m, n \in DOMAIN order : order[m] = order[n] => m = n

IsFloat(v) ==
  v.kind = "number" /\ v = Number(v.halves) /\ v.halves \in Int \cup {Infinity, MinusInfinity, NaN}
IsNumeral(v) ==
  \/ IsFloat(v)
  \/ v.kind = "bigint" /\ v = [kind |-> "bigint", halves |-> v.halves] /\ Whole(v.halves)

\* What Promised and Ipld have in common, and the parts aside.  KeyOrder has
\* every key.
IsCommon(v) ==
  \/ v = Null
  \/ v.kind = "bool" /\ v = Bool(v.value)
  \/ v.kind = "string" /\ v = Str(v.text)
  \/ v.kind = "link" /\ v = Link(v.cid)
  \/ v.kind = "bytes" /\ v = BytesOf(v.items) /\ v.items \in Seq(0..255)
  \/ v.kind = "list" /\ v = List(v.items) /\ v.items \in Seq(Parts(v))
  \/ /\ v.kind = "map" /\ v = MapOf(v.entries, v.order) /\ v.entries \in [DOMAIN v.entries -> Parts(v)]
     /\ Lists(v.order, DOMAIN v.entries) /\ Lists(Sorted(DOMAIN v.entries), DOMAIN v.entries)

\* v is an Ipld, p a Promised, and a an outcome over it.
IsData(v) == \A x \in Within(v) : IsCommon(x) \/ IsNumeral(x)
IsPromised(p) ==
  \A x \in Within(p) :
    \/ IsCommon(x)
    \/ x.kind = "integer" /\ x = Integer(x.value) /\ IsNumeral(x.value)
    \/ x.kind = "float" /\ x = Float(x.value) /\ IsFloat(x.value)
    \/ x.kind \in Waits /\ x = Wait(x.kind, x.cid)
IsOutcome(a) ==
  \/ a.kind \in {"ok", "err"} /\ a = [kind |-> a.kind, value |-> a.value] /\ IsPromised(a.value)
  \/ a.kind \in Pending /\ a = [kind |-> a.kind, cid |-> a.cid]

\* What is thrown: WaitingOnError, or an Error without more.
WaitingOn(p) == [kind |-> "thrown", reason |-> p.kind, cid |-> p.cid]
Malformed    == [kind |-> "thrown", reason |-> "malformed"]
Threw(v)     == v.kind = "thrown"

\* Element by element, until one throws.
AllOf(vs, whole) ==
  LET bad == {n \in DOMAIN vs : Threw(vs[n])} IN
  IF bad = {} THEN whole ELSE vs[Min(bad)]
Listed(vs) == AllOf(vs, List(vs))
Mapped(f, order) == AllOf([n \in DOMAIN order |-> f[order[n]]], MapOf(f, order))

----------------------------------------------------------------------------
(* Plain                                                                   *)

IpldNode(p, ipld) ==
  CASE p.kind \in {"integer", "float"} -> p.value
    [] p.kind \in Waits -> WaitingOn(p)
    [] p.kind = "list" -> Listed([n \in DOMAIN p.items |-> ipld[p.items[n]]])
    [] p.kind = "map" -> Mapped([k \in DOMAIN p.entries |-> ipld[p.entries[k]]], p.order)
    [] OTHER -> p
PromisedToIpld(p) == Fold(IpldNode, p)

\* The same form, with promised values for the values in it.
Promoted(i, promised) ==
  CASE i.kind = "list" -> List([n \in DOMAIN i.items |-> promised[i.items[n]]])
    [] i.kind = "map" -> MapOf([k \in DOMAIN i.entries |-> promised[i.entries[k]]], i.order)
    [] i.kind = "bigint" -> Integer(i)
    [] i.kind = "number" -> IF Whole(i.halves) THEN Integer(i) ELSE Float(i)
    [] OTHER -> i

\* A slip: what looks like a wait is taken for one.
SniffWaits(i, promised) ==
  IF i.kind = "map" /\ i.order = <<"WaitOk">> THEN Wait("waitOk", i.entries["WaitOk"])
  ELSE Promoted(i, promised)

\* Number.isInteger tells an integer from a float.
PromisedNode(i, promised) == Promoted(i, promised)
IpldToPromised(i) == Fold(PromisedNode, i)

----------------------------------------------------------------------------
(* Externally tagged                                                       *)

Tagged(tag, v) == MapOf([t \in {tag} |-> v], <<tag>>)

PromisedTag(kind) ==
  CASE kind = "bool" -> "Bool" [] kind = "integer" -> "Integer" [] kind = "float" -> "Float"
    [] kind = "string" -> "String" [] kind = "bytes" -> "Bytes" [] kind = "link" -> "Link"
    [] kind = "waitOk" -> "WaitOk" [] kind = "waitErr" -> "WaitErr" [] kind = "waitAny" -> "WaitAny"
    [] kind = "list" -> "List" [] kind = "map" -> "Map"

PromisedKinds == {"bool", "integer", "float", "string", "bytes", "link", "list", "map"} \cup Waits
WaitTags == {PromisedTag(kind) : kind \in Waits}
WaitFor(tag) == CHOOSE kind \in Waits : PromisedTag(kind) = tag

TaggedNode(p, tagged) ==
  LET Inside ==
        CASE p.kind \in {"integer", "float"} -> p.value
          [] p.kind = "bytes" -> List([n \in DOMAIN p.items |-> Number(2 * p.items[n])])
          [] p.kind \in Waits -> Link(p.cid)
          [] p.kind = "list" -> List([n \in DOMAIN p.items |-> tagged[p.items[n]]])
          [] p.kind = "map" -> MapOf([k \in DOMAIN p.entries |-> tagged[p.entries[k]]], p.order)
          [] OTHER -> p
  IN  IF p = Null THEN Str("Null") ELSE Tagged(PromisedTag(p.kind), Inside)
PromisedToWireIpld(p) == Fold(TaggedNode, p)

IsByte(v) == v.kind = "number" /\ Whole(v.halves) /\ v.halves \in 0..2 * 255

\* A slip: the value decides, as in IpldToPromised.
NumberByValue(tag, v) == IF Whole(v.halves) THEN Integer(v) ELSE Float(v)

\* The tag decides, whatever the number.
ReadNumber(tag, v) ==
  CASE tag = "Integer" -> Integer(v)
    [] tag = "Float" -> IF v.kind = "number" THEN Float(v) ELSE Malformed

\* What is under a tag.
ReadPromised(tag, v, promised) ==
  CASE tag = "Bool" /\ v.kind = "bool" -> v
    [] tag \in {"Integer", "Float"} /\ IsNumber(v) -> ReadNumber(tag, v)
    [] tag = "String" /\ v.kind = "string" -> v
    [] tag = "Bytes" /\ v.kind = "list" /\ (\A n \in DOMAIN v.items : IsByte(v.items[n])) ->
         BytesOf([n \in DOMAIN v.items |-> v.items[n].halves \div 2])
    [] tag = "Link" /\ v.kind = "link" -> v
    [] tag \in WaitTags /\ v.kind = "link" -> Wait(WaitFor(tag), v.cid)
    [] tag = "List" /\ v.kind = "list" -> Listed([n \in DOMAIN v.items |-> promised[v.items[n]]])
    [] tag = "Map" /\ v.kind = "map" ->
         Mapped([k \in DOMAIN v.entries |-> promised[v.entries[k]]], v.order)
    [] OTHER -> Malformed

\* Slips: the first key decides, or null itself is read as null.
FirstKey(i, promised) ==
  IF i = Str("Null") THEN Null
  ELSE IF i.kind # "map" \/ i.order = <<>> THEN Malformed
  ELSE ReadPromised(i.order[1], i.entries[i.order[1]], promised)
BareNull(i, promised) ==
  IF i \in {Null, Str("Null")} THEN Null
  ELSE IF i.kind # "map" \/ Len(i.order) # 1 THEN Malformed
  ELSE ReadPromised(i.order[1], i.entries[i.order[1]], promised)

UntaggedNode(i, promised) ==
  IF i = Str("Null") THEN Null
  ELSE IF i.kind # "map" \/ Len(i.order) # 1 THEN Malformed
  ELSE ReadPromised(i.order[1], i.entries[i.order[1]], promised)
WireIpldToPromised(i) == Fold(UntaggedNode, i)

----------------------------------------------------------------------------
(* Outcomes, with promised values for what they hold                       *)

OutcomeTag(kind) ==
  CASE kind = "ok" -> "Ok" [] kind = "err" -> "Err"
    [] kind = "pendingOk" -> "PendingOk" [] kind = "pendingErr" -> "PendingErr"
    [] kind = "pendingAny" -> "PendingAny" [] kind = "pendingTagged" -> "PendingTagged"

PendingTags == {OutcomeTag(kind) : kind \in Pending}

PromiseToWireIpld(p) ==
  Tagged(OutcomeTag(p.kind),
         IF p.kind \in Pending THEN Link(p.cid) ELSE PromisedToWireIpld(p.value))

\* What the reader of the value throws goes through.
Holding(kind, v) == IF Threw(v) THEN v ELSE [kind |-> kind, value |-> v]

WireIpldToPromise(i) ==
  IF i.kind # "map" \/ Len(i.order) # 1 THEN Malformed
  ELSE LET tag == i.order[1]
           v == i.entries[tag]
       IN CASE tag = "Ok" -> Holding("ok", WireIpldToPromised(v))
            [] tag = "Err" -> Holding("err", WireIpldToPromised(v))
            [] tag \in PendingTags /\ v.kind = "link" ->
                 [kind |-> CHOOSE kind \in Pending : OutcomeTag(kind) = tag, cid |-> v.cid]
            [] OTHER -> Malformed
=============================================================================
