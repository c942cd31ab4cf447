--------------------------- MODULE PredicateCodec ---------------------------
(***************************************************************************)
(* Policy predicates as IPLD (delegation/policy/predicate.ts): how they    *)
(* are written and how they are read.                                      *)
(***************************************************************************)
EXTENDS Predicates, IpldTrees

Op(op)     == Str(<<[lex |-> "op", op |-> op]>>)
NameOf(s)  == IF Len(s.text) = 1 /\ s.text[1].lex = "op" THEN s.text[1].op ELSE "unknown"

PredicateToIpld[p \in Predicate] ==
  LET select == Str(ToString(p.select)) IN
  CASE p.op = "not" /\ p.inner.op # "==" -> List(<<Op("not"), PredicateToIpld[p.inner]>>)
    [] p.op \in {"and", "or"} ->
         List(<<Op(p.op), List([n \in DOMAIN p.inner |-> PredicateToIpld[p.inner[n]]])>>)
    [] p.op \in {"all", "any"} -> List(<<Op(p.op), select, PredicateToIpld[p.inner]>>)
    [] p.op = "not" /\ p.inner.op = "==" ->
         List(<<Op("!="), Str(ToString(p.inner.select)), p.inner.value>>)
    [] OTHER -> List(<<Op(p.op), select, p.value>>)

\* objectsToMaps, once more on what ipldFromDagCbor made: Object.entries finds
\* nothing in a Map.
EmptiedNode(v, emptied) ==
  CASE v.kind = "list" -> List([n \in DOMAIN v.items |-> emptied[v.items[n]]])
    [] v.kind = "map" -> MapOf(<<>>, <<>>)
    [] OTHER -> v
Emptied(v) == Fold(EmptiedNode, v)

\* A comparison as it is read, <<>> when its operand has the wrong type.
ReadCompare(op, fs, v) ==
  CASE op = "=="  -> <<Compare("==", fs, v)>>
    [] op = "!="  -> <<Not(Compare("==", fs, v))>>
    [] op \in Orderings -> IF IsNumber(v) THEN <<Compare(op, fs, v)>> ELSE <<>>
    [] op = "like" -> IF v.kind = "string" THEN <<Compare(op, fs, v)>> ELSE <<>>
    [] OTHER -> <<>>

\* Slips: the negation of != gets lost, or >= loses its equality.
ReadUnnegated(op, fs, v) ==
  IF op = "!=" THEN <<Compare("==", fs, v)>> ELSE ReadCompare(op, fs, v)

ReadStrictly(op, fs, v) == ReadCompare(IF op = ">=" THEN ">" ELSE op, fs, v)

ReadTriple(op, fs, v) == ReadCompare(op, fs, v)

\* ipldToPredicate: <<>> when it throws, else <<the predicate>>.  The maps it
\* empties first are those in operands: nothing else in a predicate is a map.
ReadNode(i, read) ==
  IF i.kind # "list" \/ i.items = <<>> \/ i.items[1].kind # "string" THEN <<>>
  ELSE
    LET op == NameOf(i.items[1])
        fs == Parse(i.items[2].text)
    IN
    CASE Len(i.items) = 2 /\ op = "not" ->
           LET inner == read[i.items[2]]
           IN  IF inner = <<>> THEN <<>> ELSE <<Not(inner[1])>>
      [] Len(i.items) = 2 /\ op \in {"and", "or"} /\ i.items[2].kind = "list" ->
           LET parts == [n \in DOMAIN i.items[2].items |-> read[i.items[2].items[n]]]
           IN  IF \E n \in DOMAIN parts : parts[n] = <<>> THEN <<>>
               ELSE <<Connect(op, [n \in DOMAIN parts |-> parts[n][1]])>>
      [] Len(i.items) >= 3 /\ i.items[2].kind = "string" ->
           IF fs = <<>> THEN <<>>
           ELSE IF op \notin {"all", "any"} THEN ReadTriple(op, fs[1], Emptied(i.items[3]))
           ELSE LET inner == read[i.items[3]]
                IN  IF inner = <<>> THEN <<>> ELSE <<Quantifier(op, fs[1], inner[1])>>
      [] OTHER -> <<>>
IpldToPredicate(i) == Fold(ReadNode, i)
=============================================================================
