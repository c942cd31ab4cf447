------------------------------- MODULE Judging ------------------------------
(***************************************************************************)
(* One predicate run on the arguments at hand, as check does for every     *)
(* proof, and what the predicate means.                                    *)
(***************************************************************************)
EXTENDS Predicates

CONSTANTS
  Trials    \* sets of predicates that get issued, each with the arguments to run them on

ASSUME JudgingAssumption ==
  \A t \in Trials : t.predicates \subseteq Predicate /\ t.data \subseteq Data

VARIABLES
  predicate, \* the predicate its issuer built
  args,      \* the arguments the invoker built
  here       \* the verdict on these

judging == <<predicate, args, here>>

Untried ==
  /\ \E t \in Trials : predicate \in t.predicates /\ args \in t.data
  /\ here = "none"

Run ==
  /\ here = "none" /\ here' = RunPredicate[predicate][args]
  /\ UNCHANGED <<predicate, args>>

JudgingSpec == Untried /\ [][Run]_judging

----------------------------------------------------------------------------
(* What a predicate means, whatever the order its parts are run in         *)

\* a is below b on the line from MinusInfinity to Infinity.
Below(a, b) ==
  /\ NaN \notin {a, b} /\ a # b
  /\ a = MinusInfinity \/ b = Infinity \/ (a \in Int /\ b \in Int /\ a < b)

\* Numbers are equal by value however they are held, and other values part
\* by part; NaN equals nothing.
SameValue[a \in Data] == [b \in Data |->
  CASE a.kind = "list" /\ b.kind = "list" ->
         DOMAIN a.items = DOMAIN b.items /\ \A n \in DOMAIN a.items : SameValue[a.items[n]][b.items[n]]
    [] a.kind = "map" /\ b.kind = "map" ->
         /\ DOMAIN a.entries = DOMAIN b.entries
         /\ \A k \in DOMAIN a.entries : SameValue[a.entries[k]][b.entries[k]]
    [] IsNumber(a) /\ IsNumber(b) -> a.halves = b.halves /\ a.halves # NaN
    [] OTHER -> a = b]

\* An unescaped star stands for any characters; a backslash escapes a star
\* after it and stands for itself before anything else.
GlobMatches(s, pattern) ==
  LET Escaped(n) == n > 1 /\ pattern[n-1] = Backslash
      Vanishes(n) == pattern[n] = Backslash /\ n < Len(pattern) /\ pattern[n+1] = Star
      \* how many characters of s the first n of the pattern can match
      m[n \in 0..Len(pattern)] ==
        IF n = 0 THEN {0}
        ELSE IF pattern[n] = Star /\ ~Escaped(n) THEN {k \in 0..Len(s) : \E j \in m[n-1] : j <= k}
        ELSE IF Vanishes(n) THEN m[n-1]
        ELSE {k \in 1..Len(s) : s[k] = pattern[n] /\ k - 1 \in m[n-1]}
  IN  Len(s) \in m[Len(pattern)]

\* A comparison; it is in error when its selector finds nothing it can
\* compare, and when an integer is to equal a float that is not whole.
Judgement(p, v) ==
  LET a == v.halves
      b == p.value.halves
  IN
  IF v.kind = "error" THEN "error"
  ELSE CASE p.op = "like" -> Verdict(GlobMatches(v.text, p.value.text))
         [] p.op = "==" ->
              IF {v.kind, p.value.kind} = {"number", "bigint"} /\ ~(Whole(a) /\ Whole(b))
              THEN "error" ELSE Verdict(SameValue[v][p.value])
         [] p.op = ">"  -> Verdict(Below(b, a))
         [] p.op = "<"  -> Verdict(Below(a, b))
         [] p.op = ">=" -> Verdict(Below(b, a) \/ (a = b /\ a # NaN))
         [] p.op = "<=" -> Verdict(Below(a, b) \/ (a = b /\ a # NaN))

\* The judgements a predicate is made of, and what they come to: a
\* conjunction is false once one part is, and in error only if none is.
JudgeMany(op, parts) ==
  LET decides == IF op \in {"and", "all"} THEN "false" ELSE "true" IN
  IF parts = {} THEN "true"
  ELSE IF decides \in parts THEN decides
  ELSE IF "error" \in parts THEN "error" ELSE Negated(decides)

Judge[p \in Predicate] == [data \in Data |->
  LET v == Selected(p.op, p.select, data) IN
  CASE p.op = "not" -> Negated(Judge[p.inner][data])
    [] p.op \in {"and", "or"} -> JudgeMany(p.op, {Judge[p.inner[n]][data] : n \in DOMAIN p.inner})
    [] p.op \in {"all", "any"} /\ v.kind # "error" ->
         JudgeMany(p.op, {Judge[p.inner][ToVec(v)[n]] : n \in DOMAIN ToVec(v)})
    [] OTHER -> Judgement(p, v)]

\* Some comparison of p is in error somewhere in data.
MayThrow[p \in Predicate] == [data \in Data |->
  LET v == Selected(p.op, p.select, data) IN
  CASE p.op = "not" -> MayThrow[p.inner][data]
    [] p.op \in {"and", "or"} -> \E n \in DOMAIN p.inner : MayThrow[p.inner[n]][data]
    [] p.op \in {"all", "any"} /\ v.kind # "error" ->
         \E n \in DOMAIN ToVec(v) : MayThrow[p.inner][ToVec(v)[n]]
    [] OTHER -> Judgement(p, v) = "error"]

----------------------------------------------------------------------------
\* Lists and maps hold no whole float beyond MaxSafe, which ipldEquals, unlike
\* runPredicate itself, takes for different from the bigint of its value.
SafeWithin ==
  \A v \in Data : \A part \in Parts(v) :
    part.kind = "number" /\ Whole(part.halves) => Safe(part.halves)

\* and, or, all and any stop early, globs are matched greedily and numbers
\* compared across two representations, yet a policy that reaches a verdict
\* reaches the one it means: the order of its parts only decides whether it
\* throws, and it throws only if some comparison in it does.
VerdictIsMeant ==
  /\ here \in {"true", "false"} => here = Judge[predicate][args]
  /\ here = "error" => MayThrow[predicate][args]
=============================================================================
