------------------------------ MODULE Filters ------------------------------
(***************************************************************************)
(* Selectors of the policy language: the string a selector is encoded as   *)
(* (Select.toString), the parser that reads it back (parseSelector), and   *)
(* what one filter picks (applyFilter).                                    *)
(*                                                                         *)
(* A string is its sequence of lexemes: a dot, a question mark, a name,    *)
(* or a bracket with all it encloses, which stands for its filter.         *)
(***************************************************************************)
EXTENDS Ipld

CONSTANTS
  DotKey,      \* keys for which filterIsDotField holds
  QuotedKey,   \* keys that are written in brackets and quotes
  Index,       \* array indexes, negative ones counting from the end
  NoEnd        \* a slice without that bound

Key == DotKey \cup QuotedKey

Field(k)    == [kind |-> "field", key |-> k]
ArrayIndex(n) == [kind |-> "arrayIndex", index |-> n]
Slice(s, e) == [kind |-> "slice", start |-> s, end |-> e]
Values      == [kind |-> "values"]
Try(f)      == [kind |-> "try", inner |-> f]

Plain  == {Field(k) : k \in Key} \cup {ArrayIndex(n) : n \in Index} \cup {Values}
          \cup {Slice(s, e) : s \in Index \cup {NoEnd}, e \in Index \cup {NoEnd}}
Filter == Plain \cup {Try(f) : f \in Plain}

ASSUME FiltersAssumption ==
  DotKey \cap QuotedKey = {} /\ Index \subseteq Int /\ NoEnd \notin Index

----------------------------------------------------------------------------
(* Printing and parsing                                                    *)

Dot      == [lex |-> "."]
Question == [lex |-> "?"]
Name(k)  == [lex |-> "name", key |-> k]
Bracket(f) == [lex |-> "bracket", filter |-> f]

IsDotField(f) == f.kind = "field" /\ f.key \in DotKey

PlainToString(f) == IF IsDotField(f) THEN <<Dot, Name(f.key)>> ELSE <<Bracket(f)>>

\* A slip: an optional filter is written without its mark.
DropMark(f) == IF f.kind = "try" THEN PlainToString(f.inner) ELSE PlainToString(f)

FilterToString(f) ==
  IF f.kind = "try" THEN PlainToString(f.inner) \o <<Question>> ELSE PlainToString(f)

ToString(fs) ==
  LET out[n \in 0..Len(fs)] == IF n = 0 THEN <<>> ELSE out[n-1] \o FilterToString(fs[n])
  IN  IF fs = <<>> THEN <<Dot>>
      ELSE IF IsDotField(fs[1]) THEN out[Len(fs)] ELSE <<Dot>> \o out[Len(fs)]

LexAt(s, p) == IF p \in 1..Len(s) THEN s[p].lex ELSE "end"

\* A parser answers what it read, if anything, and where it stopped.
Nothing == [read |-> <<>>, next |-> 0]

DotFieldAt(s, p) ==
  IF LexAt(s, p) = "." /\ LexAt(s, p + 1) = "name"
  THEN [read |-> <<Field(s[p+1].key)>>, next |-> p + 2] ELSE Nothing

PlainAt(s, p) ==
  IF LexAt(s, p) = "bracket" THEN [read |-> <<s[p].filter>>, next |-> p + 1] ELSE DotFieldAt(s, p)

\* The first position from p on that holds no question mark.
AfterMarks(s, p) == CHOOSE q \in p..Len(s) + 1 :
  LexAt(s, q) # "?" /\ \A r \in p..q-1 : LexAt(s, r) = "?"

\* found, made optional by the marks that follow it.
Marked(s, found) ==
  IF found = Nothing \/ LexAt(s, found.next) # "?" THEN found
  ELSE [read |-> <<Try(found.read[1])>>, next |-> AfterMarks(s, found.next)]

\* parseMany: as many filters as there are, from p.
Many(s, p) ==
  LET many[q \in 1..Len(s) + 1] ==
        LET one == Marked(s, PlainAt(s, q))
        IN  IF one = Nothing THEN [read |-> <<>>, next |-> q]
            ELSE [read |-> one.read \o many[one.next].read, next |-> many[one.next].next]
  IN  many[p]

\* parseSelector; <<>> when it throws, else <<the filters>>.
Parse(s) ==
  LET first == Marked(s, DotFieldAt(s, 1))
      start == AfterMarks(s, IF first = Nothing THEN 2 ELSE first.next)
      rest  == Many(s, start)
  IN  IF LexAt(s, 1) # "." \/ LexAt(s, 2) = "." \/ rest.next <= Len(s) THEN <<>>
      ELSE <<first.read \o rest.read>>

----------------------------------------------------------------------------
(* Selecting                                                               *)

Error(why) == [kind |-> "error", reason |-> why]

\* resolveSliceIndices, as the positions of a sequence.
SliceOf(s, start, end) ==
  LET Resolve(n) == IF n >= 0 THEN Min({n, Len(s)}) ELSE Max({0, Len(s) + n})
      from == IF start = NoEnd THEN 0 ELSE Resolve(start)
      to   == IF end = NoEnd THEN Len(s) ELSE Resolve(end)
  IN  SubSeq(s, from + 1, Max({from, to}))

\* applyFilter of a filter that is not a try.
ApplyFilter(v, f) ==
  CASE f.kind = "arrayIndex" ->
         IF v.kind \notin {"list", "bytes"} THEN Error("notAList")
         ELSE LET n == Len(v.items)
                  k == IF f.index >= 0 THEN f.index ELSE n + f.index
              IN  IF k < 0 \/ k >= n THEN Error("indexOutOfBounds")
                  ELSE IF v.kind = "list" THEN v.items[k+1] ELSE BigInt(v.items[k+1])
    [] f.kind = "field" ->
         IF v.kind # "map" THEN Error("notAMap")
         ELSE IF f.key \notin DOMAIN v.entries THEN Error("keyNotFound") ELSE v.entries[f.key]
    [] f.kind = "slice" ->
         IF v.kind \notin {"list", "bytes"} THEN Error("notAList")
         ELSE [v EXCEPT !.items = SliceOf(@, f.start, f.end)]
    [] f.kind = "values" ->
         IF v.kind = "list" THEN v
         ELSE IF v.kind # "map" THEN Error("notACollection")
         ELSE List(ToVec(v))

----------------------------------------------------------------------------
(* What a selector means, without the arithmetic and the loop of the code  *)

\* Position k of n, counted from the start or from the end.
AtOrAfter(k, n, bound) == IF bound >= 0 THEN k >= bound ELSE k - n >= bound

\* What f picks: an index is a position counted from either end, a slice all
\* the positions between its bounds.
Picks(v, f) ==
  IF v.kind \notin {"list", "bytes"} \/ f.kind \notin {"arrayIndex", "slice"} THEN ApplyFilter(v, f)
  ELSE
    LET n == Len(v.items)
        chosen == {k \in 0..n-1 :
          IF f.kind = "arrayIndex" THEN f.index \in {k, k - n}
          ELSE /\ f.start = NoEnd \/ AtOrAfter(k, n, f.start)
               /\ f.end = NoEnd \/ ~AtOrAfter(k, n, f.end)}
        items == [j \in 1..Cardinality(chosen) |-> v.items[Min(chosen) + j]]
    IN  IF f.kind = "slice" THEN [v EXCEPT !.items = items]
        ELSE IF chosen = {} THEN Error("indexOutOfBounds")
        ELSE IF v.kind = "list" THEN items[1] ELSE BigInt(items[1])

\* Follow the filters from left to right; the first one that misses decides,
\* with null if it is optional and an error if not.
Meaning(fs, root) ==
  LET Inner(f) == IF f.kind = "try" THEN f.inner ELSE f
      v[n \in 0..Len(fs)] ==
        IF n = 0 THEN root
        ELSE IF v[n-1].kind = "error" THEN v[n-1] ELSE Picks(v[n-1], Inner(fs[n]))
      misses == {n \in 1..Len(fs) : v[n].kind = "error"}
  IN  IF misses = {} THEN v[Len(fs)]
      ELSE IF fs[Min(misses)].kind = "try" THEN Null ELSE v[Min(misses)]
=============================================================================
