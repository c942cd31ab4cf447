----------------------------- MODULE IpldTrees ------------------------------
(***************************************************************************)
(* What DAG-CBOR makes of IPLD values: it sorts the keys of maps and       *)
(* normalises numbers, at any depth (ipldToDagCbor, ipldFromDagCbor).      *)
(***************************************************************************)
EXTENDS Ipld

CONSTANT KeyOrder   \* the keys of maps, in the order a decoded map lists them

\* The values in those of vs.
PartsOf(vs) == UNION {Parts(v) : v \in vs}

\* v, the values in it, the values in those, and so on.
Within(v) ==
  LET level[n \in Nat] == IF n = 0 THEN {v} ELSE PartsOf(level[n-1])
      from[n \in Nat] == IF level[n] = {} THEN {} ELSE level[n] \cup from[n+1]
  IN  from[0]

\* A conversion that recurses into its argument: Node(x, f) is what it makes
\* of x when f is what it makes of the values in x.  (A function, for TLC to
\* evaluate v once.)
Fold(Node(_, _), v) ==
  [top \in {v} |-> LET f[x \in Within(top)] == Node(x, f) IN f[top]][v]

(* DAG-CBOR, as ipldToDagCbor and ipldFromDagCbor use it: a safe whole     *)
(* number is written as an integer, like a bigint, and any other number as *)
(* a float, except the three that DAG-CBOR does not have; an integer is    *)
(* read as a number if it is safe and as a bigint if not.  Bigints stay in *)
(* the 64 bits of CBOR, beyond which DAG-CBOR throws too, and no key is    *)
(* __proto__, which an object does not keep.                               *)

Encodable(v) == \A x \in Within(v) : x.kind = "number" => x.halves \in Int

WireInt(h)   == [kind |-> "int", halves |-> h]
WireFloat(h) == [kind |-> "float", halves |-> h]

Sorted(keys) == SelectSeq(KeyOrder, LAMBDA k : k \in keys)

WireNode(v, wire) ==
  CASE v.kind = "bigint" -> WireInt(v.halves)
    [] v.kind = "number" -> IF Safe(v.halves) THEN WireInt(v.halves) ELSE WireFloat(v.halves)
    [] v.kind = "list" -> List([n \in DOMAIN v.items |-> wire[v.items[n]]])
    [] v.kind = "map" -> MapOf([k \in DOMAIN v.entries |-> wire[v.entries[k]]], Sorted(DOMAIN v.entries))
    [] OTHER -> v
ToDagCbor(v) == Fold(WireNode, v)

ValueNode(w, value) ==
  CASE w.kind = "float" -> Number(w.halves)
    [] w.kind = "int" -> IF Safe(w.halves) THEN Number(w.halves)
                         ELSE [kind |-> "bigint", halves |-> w.halves]
    [] w.kind = "list" -> List([n \in DOMAIN w.items |-> value[w.items[n]]])
    [] w.kind = "map" -> MapOf([k \in DOMAIN w.entries |-> value[w.entries[k]]], w.order)
    [] OTHER -> w
FromDagCbor(w) == Fold(ValueNode, w)

\* A value as the receiver holds it.
Received(v) == FromDagCbor(ToDagCbor(v))
=============================================================================
