-------------------------------- MODULE Ipld --------------------------------
(***************************************************************************)
(* IPLD values as the library holds them (ipld.ts, number.ts), and how     *)
(* their numbers compare.                                                  *)
(*                                                                         *)
(* A map is its entries and the order it lists them in: the order they     *)
(* were set in, until DAG-CBOR sorts them.                                 *)
(*                                                                         *)
(* A number is either a JavaScript number or a bigint.  Its value is given *)
(* in halves, so that a number has a fraction or none; Infinity,           *)
(* MinusInfinity and NaN are the numbers without an integer part.          *)
(***************************************************************************)
EXTENDS Integers, Sequences, FiniteSetsExt

CONSTANTS
  Infinity, MinusInfinity, NaN,
  MaxSafe         \* 2^53 - 1, beyond which numbers are whole and not all there

ASSUME IpldAssumption ==
  /\ {Infinity, MinusInfinity, NaN} \cap Int = {}
  /\ Infinity # MinusInfinity /\ Infinity # NaN /\ MinusInfinity # NaN
  /\ MaxSafe \in Nat

Null          == [kind |-> "null"]
Bool(b)       == [kind |-> "bool", value |-> b]
Link(c)       == [kind |-> "link", cid |-> c]
Number(h)     == [kind |-> "number", halves |-> h]
BigInt(n)     == [kind |-> "bigint", halves |-> 2 * n]
Str(s)        == [kind |-> "string", text |-> s]
List(vs)      == [kind |-> "list", items |-> vs]
MapOf(f, order) == [kind |-> "map", entries |-> f, order |-> order]
BytesOf(bs)   == [kind |-> "bytes", items |-> bs]

IsNumber(v) == v.kind \in {"number", "bigint"}
Whole(h)    == h \in Int /\ h % 2 = 0
Safe(h)     == Whole(h) /\ h \in -(2 * MaxSafe)..2 * MaxSafe

\* The values in v.
Parts(v) == CASE v.kind = "list" -> {v.items[n] : n \in DOMAIN v.items}
              [] v.kind = "map" -> {v.entries[k] : k \in DOMAIN v.entries}
              [] OTHER -> {}

\* collectionToVec: the elements of a list, the values of a map in its order.
ToVec(v) == IF v.kind = "list" THEN v.items
            ELSE [n \in 1..Len(v.order) |-> v.entries[v.order[n]]]

----------------------------------------------------------------------------
(* Comparison                                                              *)

\* numberCompare: -1, 0 or 1, and NaN where it returns null.
NumberCompare(a, b) ==
  LET Order(x, y) == IF x < y THEN -1 ELSE IF x > y THEN 1 ELSE 0
      \* a float against an integer: its floor decides, then its fraction.
      Mixed(f, n) ==
        IF f = Infinity THEN 1 ELSE IF f = MinusInfinity THEN -1
        ELSE IF Order(f \div 2, n \div 2) # 0 THEN Order(f \div 2, n \div 2) ELSE f % 2
      Rank(h) == IF h = Infinity THEN 1 ELSE IF h = MinusInfinity THEN -1 ELSE 0
      Floats(x, y) == IF x \in Int /\ y \in Int THEN Order(x, y) ELSE Order(Rank(x), Rank(y))
  IN  IF NaN \in {a.halves, b.halves} THEN NaN
      ELSE IF a.kind = b.kind THEN Floats(a.halves, b.halves)
      ELSE IF a.kind = "number" THEN Mixed(a.halves, b.halves) ELSE -Mixed(b.halves, a.halves)
=============================================================================
