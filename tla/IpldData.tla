------------------------------ MODULE IpldData ------------------------------
(***************************************************************************)
(* The IPLD values a policy meets, and when two of them are equal.         *)
(***************************************************************************)
EXTENDS Ipld

CONSTANTS
  Data,    \* IPLD values, with all the values that are in them
  Depth    \* how deep each of them is

IsValue(v) ==
  /\ v.kind \in {"null", "bool", "link", "number", "bigint", "string", "bytes", "list", "map"}
  /\ v.kind = "number" => v = Number(v.halves) /\ v.halves \in Int \cup {Infinity, MinusInfinity, NaN}
  /\ v.kind = "bigint" => v = [kind |-> "bigint", halves |-> v.halves] /\ Whole(v.halves)
  /\ v.kind = "string" => v.text \in Seq({v.text[n] : n \in DOMAIN v.text})
  /\ v.kind = "list" => v = List(v.items) /\ v.items \in Seq(Data)
  /\ v.kind = "bytes" => v = BytesOf(v.items) /\ v.items \in Seq(0..255)
  /\ v.kind = "map" => /\ v = MapOf(v.entries, v.order) /\ v.entries \in [DOMAIN v.entries -> Data]
                       /\ v.order \in Seq(DOMAIN v.entries)
                       /\ DOMAIN v.entries = {v.order[n] : n \in DOMAIN v.order}

ASSUME DataAssumption ==
  /\ \A v \in Data : IsValue(v)
  /\ Depth \in [Data -> Nat]
  /\ \A v \in Data : \A part \in Parts(v) : Depth[part] < Depth[v]

\* ipldEquals; two values are never the same object here.
IpldEquals[a \in Data] == [b \in Data |->
  IF {a.kind, b.kind} = {"number", "bigint"}
  THEN a.halves = b.halves /\ Safe(a.halves)
  ELSE /\ a.kind = b.kind
       /\ CASE a.kind = "list" ->
                 Len(a.items) = Len(b.items) /\ \A n \in 1..Len(a.items) : IpldEquals[a.items[n]][b.items[n]]
            [] a.kind = "map" ->
                 /\ DOMAIN a.entries = DOMAIN b.entries
                 /\ \A k \in DOMAIN a.entries : IpldEquals[a.entries[k]][b.entries[k]]
            [] a.kind = "number" -> a.halves = b.halves /\ a.halves # NaN
            [] OTHER -> a = b]
=============================================================================
