----------------------------- MODULE MCSelector -----------------------------
(* Instances of Selector for TLC: a document two levels deep and selectors *)
(* of up to three filters.                                                 *)
EXTENDS Selector

CONSTANTS a, b, q

Leaf(n) == Number(2 * n)
Inner    == MapOf([k \in {b} |-> Leaf(1)], <<b>>)
MCDocuments ==
  {MapOf([k \in {a, q} |-> IF k = a THEN Inner ELSE List(<<Leaf(1), Leaf(2)>>)], <<a, q>>),
   MapOf([k \in {a} |-> Null], <<a>>),
   MapOf([k \in {b} |-> Leaf(3)], <<b>>),
   List(<<BytesOf(<<7, 8>>), Inner, Leaf(2)>>),
   Leaf(4)}

WithParts(vs) == vs \cup UNION {Parts(v) : v \in vs}
MCData == WithParts(WithParts(MCDocuments))

RECURSIVE DepthOf(_)
DepthOf(v) == 1 + Max({0} \cup {DepthOf(part) : part \in Parts(v)})
MCDepth == [v \in MCData |-> DepthOf(v)]

MCIndex == {-3, -1, 0, 1}

UpTo(n, S) == UNION {[1..m -> S] : m \in 0..n}
Fields == {Field(k) : k \in Key}

\* Every filter, alone or in pairs, and triples of fields, optional or not.
MCSelectors == UpTo(2, Filter) \cup UpTo(3, Fields \cup {Try(f) : f \in Fields})
=============================================================================
