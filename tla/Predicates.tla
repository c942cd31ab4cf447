----------------------------- MODULE Predicates -----------------------------
(***************************************************************************)
(* Policy predicates (delegation/policy/predicate.ts), and how they run.   *)
(*                                                                         *)
(* Predicates carry the tags of their wire form.  A string is a sequence   *)
(* of lexemes (see Filters), of characters, or the name of an operator.    *)
(***************************************************************************)
EXTENDS Filters, IpldData

CONSTANTS
  Star, Backslash,   \* the two characters a glob reads
  Predicate,         \* predicates, with all the predicates that are in them
  Size               \* how deep each of them is

Compare(op, fs, v) == [op |-> op, select |-> fs, value |-> v]
Not(p)             == [op |-> "not", inner |-> p]
Connect(op, ps)    == [op |-> op, inner |-> ps]
Quantifier(op, fs, p) == [op |-> op, select |-> fs, inner |-> p]

Orderings == {">", ">=", "<", "<="}

\* A predicate over predicates of lower size.
Lower(p, q) == q \in Predicate /\ Size[q] < Size[p]
IsPredicate(p) ==
  \/ p.op = "not" /\ p = Not(p.inner) /\ Lower(p, p.inner)
  \/ /\ p.op \in {"and", "or"} /\ p = Connect(p.op, p.inner)
     /\ p.inner \in Seq(Predicate) /\ \A n \in DOMAIN p.inner : Lower(p, p.inner[n])
  \/ /\ p.select \in Seq(Filter)
     /\ \/ p.op \in {"all", "any"} /\ p = Quantifier(p.op, p.select, p.inner) /\ Lower(p, p.inner)
        \/ /\ p = Compare(p.op, p.select, p.value) /\ p.value \in Data
           /\ \/ p.op = "=="
              \/ p.op = "like" /\ p.value.kind = "string"
              \/ p.op \in Orderings /\ IsNumber(p.value)

ASSUME PredicatesAssumption ==
  /\ Star # Backslash
  /\ Size \in [Predicate -> Nat] /\ \A p \in Predicate : IsPredicate(p)
  /\ Null \in Data /\ \A v \in Data, f \in Plain : ApplyFilter(v, f).kind = "error" \/ ApplyFilter(v, f) \in Data

Verdict(b) == IF b THEN "true" ELSE "false"

----------------------------------------------------------------------------
(* glob                                                                    *)

Fresh == [frags |-> <<>>, working |-> <<>>, escape |-> FALSE, leading |-> FALSE, trailing |-> FALSE]

\* A turn of the loop over the pattern.
ScanChar(st, c) ==
  LET kept == IF st.escape THEN Append(st.working, Backslash) ELSE st.working IN
  CASE c = Star /\ st.escape ->
         [st EXCEPT !.working = Append(@, Star), !.escape = FALSE, !.trailing = FALSE]
    [] c = Star /\ ~st.escape ->
         [st EXCEPT !.leading = @ \/ (st.frags = <<>> /\ st.working = <<>>),
                    !.frags = Append(@, st.working), !.working = <<>>, !.trailing = TRUE]
    [] c = Backslash -> [st EXCEPT !.working = kept, !.escape = TRUE, !.trailing = FALSE]
    [] OTHER -> [st EXCEPT !.working = Append(kept, c), !.escape = FALSE, !.trailing = FALSE]

\* The fragments between unescaped stars, and whether a star leads or trails.
Scan(pattern) ==
  LET scan[n \in 0..Len(pattern)] == IF n = 0 THEN Fresh ELSE ScanChar(scan[n-1], pattern[n])
      end == scan[Len(pattern)]
  IN  [end EXCEPT !.frags = Append(@, IF end.escape THEN Append(end.working, Backslash)
                                      ELSE end.working)]

\* frag occurs in s after the first n characters.
OccursAfter(s, frag, n) == n >= 0 /\ n + Len(frag) <= Len(s) /\ SubSeq(s, n + 1, n + Len(frag)) = frag

\* Where frag ends when it is put at its first occurrence after n characters,
\* and a place past the end of s when it does not end by end.
FirstPlace(s, frag, n, end) ==
  LET found == {k \in n..Len(s) : OccursAfter(s, frag, k)}
  IN  IF found = {} \/ Min(found) + Len(frag) > end THEN Len(s) + 1 ELSE Min(found) + Len(frag)

\* A slip: a fragment may run into the anchored end.
PlaceAnywhere(s, frag, n, end) == FirstPlace(s, frag, n, Len(s))

PlaceMiddle(s, frag, n, end) == FirstPlace(s, frag, n, end)

\* The anchored ends, then the middle fragments from left to right.
Glob(s, pattern) ==
  LET scan == Scan(pattern)
      frags == scan.frags
      last == Len(frags)
      start == IF scan.leading THEN 0 ELSE Len(frags[1])
      end == Len(s) - IF scan.trailing THEN 0 ELSE Len(frags[last])
      from == IF scan.leading THEN 1 ELSE 2
      to == IF scan.trailing THEN last ELSE last - 1
      cursor[n \in 0..last] ==
        IF n < from THEN start ELSE PlaceMiddle(s, frags[n], cursor[n-1], end)
  IN  IF last = 1 THEN s = frags[1]
      ELSE /\ scan.leading \/ OccursAfter(s, frags[1], 0)
           /\ scan.trailing \/ OccursAfter(s, frags[last], end)
           /\ start <= end
           /\ cursor[to] <= Len(s)

----------------------------------------------------------------------------
(* runPredicate                                                            *)

\* The first that is not unit decides: reduce with && or || never looks past it.
FirstOther(verdicts, unit) ==
  LET others == {n \in DOMAIN verdicts : verdicts[n] # unit}
  IN  IF others = {} THEN unit ELSE verdicts[Min(others)]

\* A slip: the accumulator is forgotten, and the last one decides.
LastOne(verdicts, unit) == IF verdicts = <<>> THEN unit ELSE verdicts[Len(verdicts)]

Reduce(verdicts, unit) == FirstOther(verdicts, unit)

Negated(verdict) == CASE verdict = "true" -> "false" [] verdict = "false" -> "true" [] OTHER -> verdict

\* A slip: values are compared as they are held.
EqualAsHeld(v, value) == Verdict(v = value)

\* A whole float and an integer compare by value, a float that is not whole
\* throws, and everything else compares as ipldEquals does.
RunEqual(v, value) ==
  IF {v.kind, value.kind} = {"number", "bigint"}
  THEN LET float == IF v.kind = "number" THEN v.halves ELSE value.halves
       IN  IF Whole(float) THEN Verdict(v.halves = value.halves) ELSE "error"
  ELSE Verdict(IpldEquals[v][value])

\* A slip: >= is taken for the denial of <, which NaN makes true.
OrderingByDenial(op, v, value) ==
  LET order == NumberCompare(v, value)
  IN  Verdict(CASE op = ">"  -> order = 1
                [] op = ">=" -> order # -1
                [] op = "<"  -> order = -1
                [] op = "<=" -> order # 1)

RunOrdering(op, v, value) ==
  LET order == NumberCompare(v, value)
  IN  Verdict(CASE op = ">"  -> order = 1
                [] op = ">=" -> order \in {0, 1}
                [] op = "<"  -> order = -1
                [] op = "<=" -> order \in {-1, 0})

\* What a selector gives a predicate of this operator: selectIpld,
\* selectNumber, selectString or selectCollection.
Fitting(op, v) ==
  CASE op = "=="             -> v
    [] op \in Orderings /\ IsNumber(v) -> v
    [] op = "like" /\ v.kind = "string" -> v
    [] op \in {"all", "any"} /\ v.kind \in {"list", "map"} -> v
    [] OTHER -> Error("selectorError")

Selected(op, fs, data) == Fitting(op, Meaning(fs, data))

RunCompare(op, v, value) ==
  CASE op = "==" -> RunEqual(v, value)
    [] op \in Orderings -> RunOrdering(op, v, value)
    [] op = "like" -> Verdict(Glob(v.text, value.text))

\* and with all, or with any: nothing to look at is true for either.
RunMany(op, verdicts) ==
  IF op \in {"or", "any"} /\ verdicts # <<>> THEN Reduce(verdicts, "false")
  ELSE Reduce(verdicts, "true")

RunPredicate[p \in Predicate] == [data \in Data |->
  LET v == Selected(p.op, p.select, data) IN
  CASE p.op = "not" -> Negated(RunPredicate[p.inner][data])
    [] p.op \in {"and", "or"} ->
         RunMany(p.op, [n \in DOMAIN p.inner |-> RunPredicate[p.inner[n]][data]])
    [] p.op \in {"all", "any"} /\ v.kind # "error" ->
         RunMany(p.op, [n \in DOMAIN ToVec(v) |-> RunPredicate[p.inner][ToVec(v)[n]]])
    [] OTHER -> IF v.kind = "error" THEN "error" ELSE RunCompare(p.op, v, p.value)]
=============================================================================
