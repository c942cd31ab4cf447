--------------------------- MODULE PolicyNotions ---------------------------
(***************************************************************************)
(* What the proofs about the policy language speak of: where a fragment of *)
(* a glob can be placed, which selector a string spells, how far a parser  *)
(* has come, what a value or a predicate is once it has arrived, and the   *)
(* bodies of the recursions on values and predicates.  Nothing here stands *)
(* for code; PolicyProofs states and proves the facts.                     *)
(***************************************************************************)
EXTENDS Selector, Policy

----------------------------------------------------------------------------
(* What one filter picks                                                   *)

\* A bound of a slice, as the code computes it.
Bounded(b, n) == IF b >= 0 THEN Min({b, n}) ELSE Max({0, n + b})

----------------------------------------------------------------------------
(* The loop of get                                                         *)

InnerOf(f) == IF f.kind = "try" THEN f.inner ELSE f

\* v are the values selected on the way through the first n filters.
IsWay(v, fs, root, n) ==
  v = [m \in 0..n |-> IF m = 0 THEN root
                      ELSE IF v[m-1].kind = "error" THEN v[m-1] ELSE Picks(v[m-1], InnerOf(fs[m]))]

\* Where the way ends.
Reached(v, fs) ==
  LET misses == {n \in 1..Len(fs) : v[n].kind = "error"}
  IN  IF misses = {} THEN v[Len(fs)]
      ELSE IF fs[Min(misses)].kind = "try" THEN Null ELSE v[Min(misses)]

\* The loop is on the way, or past the first miss, which was excused.
OnTheWay(v) ==
  \/ /\ ~isTry /\ current = v[at-1] /\ IsValue(current)
     /\ \A n \in 1..at-1 : v[n].kind # "error"
  \/ /\ isTry /\ current = Null
     /\ \E n \in 1..at-1 : /\ v[n].kind = "error" /\ filters[n].kind = "try"
                           /\ \A m \in 1..n-1 : v[m].kind # "error"

Selecting ==
  phase = "select" =>
    /\ filters \in Seq(Filter) /\ at \in 1..Len(filters) + 1
    /\ \E v : /\ IsWay(v, filters, document, Len(filters))
              /\ Meaning(filters, document) = Reached(v, filters)
              /\ OnTheWay(v)

\* What holds of a selector at every phase.
SInv ==
  /\ issued \in Selectors /\ document \in Documents
  /\ phase \in {"build", "sent", "select", "done"}
  /\ phase \in {"build", "sent"} => at = 1 /\ current = document /\ isTry = FALSE
  /\ phase = "sent" => text = ToString(issued) \/ text \in Spellings(issued)
  /\ phase = "select" => filters = issued
  /\ Selecting
  /\ phase = "done" /\ ~DecodeFailed => outcome = Meaning(filters, document)

----------------------------------------------------------------------------
(* A string spells one selector                                            *)

Lexeme == {Dot, Question} \cup {Name(k) : k \in DotKey} \cup {Bracket(f) : f \in Plain}

\* The strings of a filter without its marks, and those of its marks.
Cores(f) == {<<Bracket(f)>>} \cup (IF IsDotField(f) THEN {<<Dot, Name(f.key)>>} ELSE {})
Marks == Seq({Question})

\* t is u and then w.
IsCat(t, u, w) == u \in Seq(Lexeme) /\ w \in Seq(Lexeme) /\ t = u \o w

\* t is u and then a spelling of the filter f.
SpellsNext(t, u, f) ==
  \E p : \E c \in Cores(InnerOf(f)), m \in Marks :
    IsCat(p, u, c) /\ IsCat(t, p, m) /\ (m = <<>> <=> f.kind # "try")

\* s[n] spells the first n filters of fs.
IsSpelling(s, fs) ==
  /\ s[0] \in {<<>>, <<Dot>>}
  /\ \A n \in 1..Len(fs) : SpellsNext(s[n], s[n-1], fs[n])

\* text is a string of lexemes that spells fs.
Spells(text_, fs) ==
  text_ \in Seq(Lexeme) /\ \E s : IsSpelling(s, fs) /\ s[Len(fs)] = text_

\* w is one spelling of the filter f.
IsWord(w, f) ==
  \E c \in Cores(InnerOf(f)), m \in Marks : w = c \o m /\ (m = <<>> <=> f.kind # "try")

\* The words of words in a row.
IsJoin(o, start, ws, length) ==
  o = [n \in 0..length |-> IF n = 0 THEN start ELSE o[n-1] \o ws[n]]

\* The filters of toString, without the dot before the first.
IsOut(o, fs) ==
  o = [n \in 0..Len(fs) |-> IF n = 0 THEN <<>> ELSE o[n-1] \o FilterToString(fs[n])]

----------------------------------------------------------------------------
(* The spellings of other implementations                                  *)

Respelled(f) == IF f.kind = "try" THEN <<Bracket(f.inner), Question>> ELSE <<Bracket(f)>>

IsBrackets(o, fs) ==
  o = [n \in 0..Len(fs) |-> IF n = 0 THEN <<Dot>> ELSE o[n-1] \o Respelled(fs[n])]

Jq(fs) ==
  IF fs # <<>> /\ fs[1].kind = "try" /\ IsDotField(fs[1].inner) THEN Tail(ToString(fs)) ELSE ToString(fs)

----------------------------------------------------------------------------
(* What the parser reads                                                   *)

\* x is nothing, or one filter of F, read from q on.
IsFound(x, F, q, s) ==
  \/ x = Nothing
  \/ /\ \E f \in F : x.read = <<f>>
     /\ x.next \in Nat /\ x.next > q /\ x.next <= Len(s) + 1

\* A turn of parseMany at q, from those after it.
ManyAt(many, s, q) ==
  LET one == Marked(s, PlainAt(s, q))
  IN  IF one = Nothing THEN [read |-> <<>>, next |-> q]
      ELSE [read |-> one.read \o many[one.next].read, next |-> many[one.next].next]

IsMany(many, s, from) == many = [q \in from..Len(s) + 1 |-> ManyAt(many, s, q)]

----------------------------------------------------------------------------
(* Globs                                                                   *)

\* pos are places of the fragments in s, one after the other, the first at the
\* start of s and the last one ending after k characters.
Placed(s, frs, k, pos) ==
  /\ pos \in [1..Len(frs) -> 0..Len(s)]
  /\ pos[1] = Len(frs[1]) /\ pos[Len(frs)] = k
  /\ \A i \in 1..Len(frs) : OccursAfter(s, frs[i], pos[i] - Len(frs[i]))
  /\ \A i \in 2..Len(frs) : pos[i-1] <= pos[i] - Len(frs[i])

Places(s, frs, k) == \E pos : Placed(s, frs, k, pos)

\* Fragments frs are placed and followed by a star, within n characters.
Ready(s, frs, n) == IF frs = <<>> THEN n = 0 ELSE \E j \in 0..n : Places(s, frs, j)

\* The states of the loop over a pattern of characters C.
ScanState(C) ==
  [frags : Seq(Seq(C)), working : Seq(C), escape : BOOLEAN, leading : BOOLEAN, trailing : BOOLEAN]

\* sc are the states of the loop after each of the first n characters.
IsScan(sc, pattern, n) ==
  sc = [k \in 0..n |-> IF k = 0 THEN Fresh ELSE ScanChar(sc[k-1], pattern[k])]

\* A backslash at n escapes nothing, or a star after it.
EscapedAt(p, n)  == n > 1 /\ p[n-1] = Backslash
VanishesAt(p, n) == p[n] = Backslash /\ n < Len(p) /\ p[n+1] = Star

\* The fragment being read, with the backslash before n if it stands for itself.
Working(st, p, n) ==
  IF st.escape /\ ~VanishesAt(p, n) THEN Append(st.working, Backslash) ELSE st.working

\* What the loop knows after n characters.
Scanned(st, C, p, n) ==
  /\ st \in ScanState(C)
  /\ st.escape <=> n > 0 /\ p[n] = Backslash
  /\ st.leading <=> st.frags # <<>> /\ st.frags[1] = <<>>
  /\ st.trailing => st.frags # <<>> /\ st.working = <<>> /\ ~st.escape

\* What a turn of the loop does to the fragments.
TurnsTo(new, st, C, p, n) ==
  /\ Scanned(new, C, p, n)
  /\ Working(st, p, n - 1) \in Seq(C)
  /\ p[n] = Star /\ ~EscapedAt(p, n) =>
       new.frags = Append(st.frags, Working(st, p, n - 1)) /\ Working(new, p, n) = <<>>
  /\ ~(p[n] = Star /\ ~EscapedAt(p, n)) =>
       /\ new.frags = st.frags
       /\ Working(new, p, n) = IF VanishesAt(p, n) THEN Working(st, p, n - 1)
                               ELSE Append(Working(st, p, n - 1), p[n])

\* A turn of the loop that GlobMatches is computed by.
MatchTurn(before, s, p, n) ==
  IF p[n] = Star /\ ~EscapedAt(p, n) THEN {k \in 0..Len(s) : \E j \in before : j <= k}
  ELSE IF VanishesAt(p, n) THEN before
  ELSE {k \in 1..Len(s) : s[k] = p[n] /\ k - 1 \in before}

\* m[n] is what the first n characters of p can match of s.
IsMatching(m, s, p, length) ==
  m = [n \in 0..length |-> IF n = 0 THEN {0} ELSE MatchTurn(m[n-1], s, p, n)]

----------------------------------------------------------------------------
(* The loop over the pattern, and the matching                             *)

\* The fragments read so far, the last one still open.
Fragments(st, p, n) == Append(st.frags, Working(st, p, n))

\* The prefixes of s that the first n characters can match are those that the
\* fragments of these characters can be placed in.
Tracks(st, row, s, p, n) ==
  /\ row \subseteq 0..Len(s)
  /\ \A k \in 0..Len(s) : k \in row <=> Places(s, Fragments(st, p, n), k)

\* The fragments of a pattern, and what is known of them.
Split(scan, C) ==
  /\ scan.frags \in Seq(Seq(C)) /\ scan.frags # <<>>
  /\ scan.leading \in BOOLEAN /\ scan.trailing \in BOOLEAN
  /\ scan.leading <=> Len(scan.frags) > 1 /\ scan.frags[1] = <<>>
  /\ scan.trailing => Len(scan.frags) > 1 /\ scan.frags[Len(scan.frags)] = <<>>

----------------------------------------------------------------------------
(* The greedy placement                                                    *)

\* x is where f ends when it is put as early as it can be, after n characters
\* and to end by end; it is past the end of s if it cannot be.
Earliest(x, s, f, n, end) ==
  /\ x \in Nat
  /\ x <= Len(s) => x <= end /\ n <= x - Len(f) /\ OccursAfter(s, f, x - Len(f))
  /\ \A e \in 0..end : n <= e - Len(f) /\ OccursAfter(s, f, e - Len(f)) => x <= e

\* cursor is that of glob: where each of the fragments ends.
IsCursor(cursor, s, frags, start, end, from, length) ==
  cursor = [n \in 0..length |->
    IF n < from THEN start ELSE PlaceMiddle(s, frags[n], cursor[n-1], end)]

\* The first n fragments.
First(frags, n) == SubSeq(frags, 1, n)

\* c is the earliest place, up to end, that the first n fragments can end at.
Greedy(c, s, frags, n, end) ==
  /\ c \in Nat
  /\ c <= Len(s) =>
       /\ Len(frags[1]) <= c
       /\ OccursAfter(s, frags[1], 0) /\ Len(frags[1]) <= end =>
            c <= end /\ Places(s, First(frags, n), c)
  /\ \A e \in 0..end : Places(s, First(frags, n), e) => c <= e

----------------------------------------------------------------------------
(* Recursion over a rank                                                   *)

\* g gives every element below rank n its value.
Good(g, n, S, rank, G) == \A p \in S : rank[p] < n => g[p] = G[p][g]

\* G computes the value of an element from those of lower rank.
IsStep(S, rank, V, G) ==
  /\ rank \in [S -> Nat] /\ V # {} /\ G \in [S -> [[S -> V] -> V]]
  /\ \A p \in S : \A f, g \in [S -> V] :
       (\A q \in S : rank[q] < rank[p] => f[q] = g[q]) => G[p][f] = G[p][g]

----------------------------------------------------------------------------
(* The parts of a predicate                                                *)

\* v is such as a comparison or a quantifier of this operator can look at.
Fits(op, v) ==
  /\ v \in Data
  /\ op \in Orderings => IsNumber(v)
  /\ op = "like" => v.kind = "string"
  /\ op \in {"all", "any"} => v.kind \in {"list", "map"}

Connectives == {"and", "or"}
Quantifiers == {"all", "any"}

\* p looks through the elements of its value.
Looks(p, data) == p.op \in Quantifiers /\ Selected(p.op, p.select, data).kind # "error"

\* What f says of the predicates in p, in the order p is run in.
Subs(f, p, data) ==
  IF p.op = "not" THEN [n \in 1..1 |-> f[p.inner][data]]
  ELSE IF p.op \in Connectives THEN [n \in DOMAIN p.inner |-> f[p.inner[n]][data]]
  ELSE IF Looks(p, data)
       THEN [n \in DOMAIN ToVec(Selected(p.op, p.select, data)) |->
               f[p.inner][ToVec(Selected(p.op, p.select, data))[n]]]
  ELSE [n \in 1..0 |-> f[p.inner][data]]

\* How many there are.
Count(p, data) ==
  IF p.op = "not" THEN 1
  ELSE IF p.op \in Connectives THEN Len(p.inner)
  ELSE IF Looks(p, data) THEN Len(ToVec(Selected(p.op, p.select, data)))
  ELSE 0

\* The nth of them is of predicate q and value d.
IsNth(n, q, d, p, data) ==
  Lower(p, q) /\ d \in Data /\ \A f : Subs(f, p, data)[n] = f[q][d]

----------------------------------------------------------------------------
(* One turn of runPredicate, and of its meaning                            *)

Verdicts == {"true", "false", "error"}

\* One turn of runPredicate, over the turns before.
RunBody(f, p, data) ==
  LET v == Selected(p.op, p.select, data) IN
  CASE p.op = "not" -> Negated(f[p.inner][data])
    [] p.op \in {"and", "or"} ->
         RunMany(p.op, [n \in DOMAIN p.inner |-> f[p.inner[n]][data]])
    [] p.op \in {"all", "any"} /\ v.kind # "error" ->
         RunMany(p.op, [n \in DOMAIN ToVec(v) |-> f[p.inner][ToVec(v)[n]]])
    [] OTHER -> IF v.kind = "error" THEN "error" ELSE RunCompare(p.op, v, p.value)

\* Of what a predicate means.
JudgeBody(f, p, data) ==
  LET v == Selected(p.op, p.select, data) IN
  CASE p.op = "not" -> Negated(f[p.inner][data])
    [] p.op \in {"and", "or"} -> JudgeMany(p.op, {f[p.inner[n]][data] : n \in DOMAIN p.inner})
    [] p.op \in {"all", "any"} /\ v.kind # "error" ->
         JudgeMany(p.op, {f[p.inner][ToVec(v)[n]] : n \in DOMAIN ToVec(v)})
    [] OTHER -> Judgement(p, v)

\* And of whether it may throw.
ThrowBody(f, p, data) ==
  LET v == Selected(p.op, p.select, data) IN
  CASE p.op = "not" -> f[p.inner][data]
    [] p.op \in {"and", "or"} -> \E n \in DOMAIN p.inner : f[p.inner[n]][data]
    [] p.op \in {"all", "any"} /\ v.kind # "error" ->
         \E n \in DOMAIN ToVec(v) : f[p.inner][ToVec(v)[n]]
    [] OTHER -> Judgement(p, v) = "error"

\* The same, over the verdicts on the parts.
Joins(p, data) == p.op \in Connectives \/ Looks(p, data)

RunFrom(p, data, subs) ==
  IF p.op = "not" THEN Negated(subs[1])
  ELSE IF Joins(p, data) THEN RunMany(p.op, subs)
  ELSE IF Selected(p.op, p.select, data).kind = "error" THEN "error"
  ELSE RunCompare(p.op, Selected(p.op, p.select, data), p.value)

JudgeFrom(p, data, subs) ==
  IF p.op = "not" THEN Negated(subs[1])
  ELSE IF Joins(p, data) THEN JudgeMany(p.op, {subs[n] : n \in DOMAIN subs})
  ELSE Judgement(p, Selected(p.op, p.select, data))

ThrowFrom(p, data, subs) ==
  IF p.op = "not" \/ Joins(p, data) THEN \E n \in DOMAIN subs : subs[n]
  ELSE Judgement(p, Selected(p.op, p.select, data)) = "error"

----------------------------------------------------------------------------
(* Recursion over predicates                                               *)

\* A value for a predicate and data, made from the values for its parts.
Makes(H, V) ==
  \A p \in Predicate, data \in Data :
    \A subs \in [1..Count(p, data) -> V] : H[p][data][subs] \in V

Rows(V) == [Data -> V]

\* r has this value for all of them.
Follows(r, H) == \A p \in Predicate, data \in Data : r[p][data] = H[p][data][Subs(r, p, data)]

----------------------------------------------------------------------------
(* Runs, meanings and errors unfold                                        *)

IsRun(f) == f = [p \in Predicate |-> [data \in Data |-> RunBody(f, p, data)]]
IsJudge(f) == f = [p \in Predicate |-> [data \in Data |-> JudgeBody(f, p, data)]]
IsThrow(f) == f = [p \in Predicate |-> [data \in Data |-> ThrowBody(f, p, data)]]

----------------------------------------------------------------------------
(* Equality                                                                *)

\* A comparison of values, over one of their parts.
EqualBody(f, a, b) ==
  IF {a.kind, b.kind} = {"number", "bigint"}
  THEN a.halves = b.halves /\ Safe(a.halves)
  ELSE /\ a.kind = b.kind
       /\ CASE a.kind = "list" ->
                 Len(a.items) = Len(b.items) /\ \A n \in 1..Len(a.items) : f[a.items[n]][b.items[n]]
            [] a.kind = "map" ->
                 /\ DOMAIN a.entries = DOMAIN b.entries
                 /\ \A k \in DOMAIN a.entries : f[a.entries[k]][b.entries[k]]
            [] a.kind = "number" -> a.halves = b.halves /\ a.halves # NaN
            [] OTHER -> a = b

SameBody(f, a, b) ==
  CASE a.kind = "list" /\ b.kind = "list" ->
         DOMAIN a.items = DOMAIN b.items /\ \A n \in DOMAIN a.items : f[a.items[n]][b.items[n]]
    [] a.kind = "map" /\ b.kind = "map" ->
         /\ DOMAIN a.entries = DOMAIN b.entries
         /\ \A k \in DOMAIN a.entries : f[a.entries[k]][b.entries[k]]
    [] IsNumber(a) /\ IsNumber(b) -> a.halves = b.halves /\ a.halves # NaN
    [] OTHER -> a = b

IsEqual(f) == f = [a \in Data |-> [b \in Data |-> EqualBody(f, a, b)]]
IsSame(f) == f = [a \in Data |-> [b \in Data |-> SameBody(f, a, b)]]

Mixed(a, b) == {a.kind, b.kind} = {"number", "bigint"}

\* Where a float meets the integer it is equal to, it is safe.
SafeMixed(a, b) == Mixed(a, b) /\ a.halves = b.halves => Safe(a.halves)

\* The values equal to a are those ipldEquals finds equal.
Agree(a) == \A b \in Data : SafeMixed(a, b) => (IpldEquals[a][b] <=> SameValue[a][b])

----------------------------------------------------------------------------
(* Order                                                                   *)

\* o is the order of x and y.
Orders(o, x, y) ==
  /\ o = 1 <=> Below(y, x)
  /\ o = -1 <=> Below(x, y)
  /\ o = 0 <=> x = y /\ x # NaN

----------------------------------------------------------------------------
(* Connectives and quantifiers                                             *)

\* A verdict, the meaning, and whether there is an error, fit together.
Fair(verdict, meant, throws) ==
  /\ verdict \in Verdicts /\ meant \in Verdicts
  /\ verdict \in {"true", "false"} => verdict = meant
  /\ verdict = "error" => throws

\* What a verdict, reached by looking for a part that is not unit, says of them.
Says(verdict, unit, decides, parts, M) ==
  /\ verdict \in {unit, decides, "error"}
  /\ verdict = unit => parts \subseteq {unit}
  /\ verdict = decides => decides \in parts
  /\ verdict = "error" => \E n \in DOMAIN M : M[n]

----------------------------------------------------------------------------
(* Predicates of any depth                                                 *)

\* Every verdict on p is fair.
Judged(p) == \A data \in Data : Fair(RunPredicate[p][data], Judge[p][data], MayThrow[p][data])

\* What is known of a run.
JudgingInv ==
  /\ predicate \in Predicate /\ args \in Data
  /\ here \in {"none", RunPredicate[predicate][args]}

----------------------------------------------------------------------------
(* The parser reads what is printed                                        *)

\* The text w stands in s from p to before q.
Stands(w, s, p, q) == q = p + Len(w) /\ \A j \in 1..Len(w) : s[p + j - 1] = w[j]

\* The words of fs stand in s one after the other, the nth from at[n-1] on.
Worded(mark, fs, s) ==
  /\ \A n \in 0..Len(fs) : mark[n] \in Nat /\ 1 <= mark[n] /\ mark[n] <= Len(s) + 1
  /\ mark[Len(fs)] = Len(s) + 1
  /\ \A n \in 1..Len(fs) : Stands(FilterToString(fs[n]), s, mark[n-1], mark[n])

\* A selector that begins with an optional dot field is printed with two dots,
\* which the parser does not take.
Doubled(fs) == fs # <<>> /\ fs[1].kind = "try" /\ IsDotField(fs[1].inner)

\* The words of fs stand in s from p on, and the first one is read there.
Begins(mark, p, fs, s) ==
  /\ mark[0] = p /\ Worded(mark, fs, s) /\ p <= Len(s)
  /\ mark[1] \in Nat /\ mark[1] >= 1 /\ mark[1] <= Len(s) + 1 /\ LexAt(s, mark[1]) # "?"
  /\ Marked(s, PlainAt(s, p)) = [read |-> <<fs[1]>>, next |-> mark[1]]
  /\ LexAt(s, p) = IF IsDotField(InnerOf(fs[1])) THEN "." ELSE "bracket"
  /\ IsDotField(InnerOf(fs[1])) => LexAt(s, p + 1) = "name"

----------------------------------------------------------------------------
(* Values on the wire                                                      *)

\* The parts of v and their parts.
Near(v) == Parts(v) \cup PartsOf(Parts(v))

----------------------------------------------------------------------------
(* Predicates in IPLD, and with their receivers                            *)

IpldBody(p, f) ==
  LET select == Str(ToString(p.select)) IN
  CASE p.op = "not" /\ p.inner.op # "==" -> List(<<Op("not"), f[p.inner]>>)
    [] p.op \in {"and", "or"} ->
         List(<<Op(p.op), List([n \in DOMAIN p.inner |-> f[p.inner[n]]])>>)
    [] p.op \in {"all", "any"} -> List(<<Op(p.op), select, f[p.inner]>>)
    [] p.op = "not" /\ p.inner.op = "==" ->
         List(<<Op("!="), Str(ToString(p.inner.select)), p.inner.value>>)
    [] OTHER -> List(<<Op(p.op), select, p.value>>)

\* p with w for its operand, or with what f makes of the predicates in it.
Remade(p, w, f) ==
  CASE p.op \in {"not", "all", "any"} -> [p EXCEPT !.inner = f[p.inner]]
    [] p.op \in {"and", "or"} -> [p EXCEPT !.inner = [n \in DOMAIN p.inner |-> f[p.inner[n]]]]
    [] OTHER -> [p EXCEPT !.value = w]

NormalBody(p, f)  == Remade(p, Received(p.value), f)
DecodedBody(p, f) == Remade(p, Emptied(Received(p.value)), f)

EnlistsBody(p, f) ==
  LET select == {p.select[n] : n \in DOMAIN p.select} \cap {Values, Try(Values)} # {} IN
  CASE p.op = "not" -> f[p.inner]
    [] p.op \in {"and", "or"} -> \E n \in DOMAIN p.inner : f[p.inner[n]]
    [] p.op \in {"all", "any"} -> select \/ f[p.inner]
    [] OTHER -> select

IsIpld(f)  == f = [p \in Predicate |-> IpldBody(p, f)]
IsNormal(f) == f = [p \in Predicate |-> NormalBody(p, f)]
IsDecoded(f) == f = [p \in Predicate |-> DecodedBody(p, f)]
IsEnlists(f) == f = [p \in Predicate |-> EnlistsBody(p, f)]

\* The items of a list are a sequence.
Listing(v) == v.kind = "list" => v.items \in Seq({v.items[n] : n \in DOMAIN v.items})

\* w is v with f of each part in its place.
MadeBy(v, w, f) ==
  /\ v.kind = "list" => w.kind = "list" /\ w.items = [n \in DOMAIN v.items |-> f[v.items[n]]]
  /\ v.kind = "map" => w.kind = "map" /\ w.entries = [k \in DOMAIN v.entries |-> f[v.entries[k]]]
  /\ v.kind \notin {"list", "map"} => w.kind \notin {"list", "map"}

\* w is a list, a map or neither as v is, with the keys of v, and its items
\* are a sequence when those of v are.
SameShape(v, w) ==
  /\ w.kind = "list" <=> v.kind = "list"
  /\ w.kind = "map" <=> v.kind = "map"
  /\ v.kind = "map" => DOMAIN w.entries = DOMAIN v.entries
  /\ Listing(v) => Listing(w)

\* The lists of two, of three and of four.
Two(a, b) == List(<<a, b>>)
Three(a, b, c) == List(<<a, b, c>>)
Four(a, b, c, d) == List(<<a, b, c, d>>)

----------------------------------------------------------------------------
(* Maps with something in them                                             *)

\* None is in v.
Flat(v) == ~HoldsMap(v)

----------------------------------------------------------------------------
(* What the decoder reads                                                  *)

\* What a negation, a connective or a quantifier makes of the readings in it.
ReadNot(inner) == IF inner = <<>> THEN <<>> ELSE <<Not(inner[1])>>
ReadMany(op, parts) == IF \E n \in DOMAIN parts : parts[n] = <<>> THEN <<>>
                       ELSE <<Connect(op, [n \in DOMAIN parts |-> parts[n][1]])>>
ReadEach(op, fs, inner) == IF inner = <<>> THEN <<>> ELSE <<Quantifier(op, fs, inner[1])>>

\* What is read of a list with items s, the name op first and the selectors fs
\* second, when h is what is read of the values in it.
ReadItems(s, op, fs, h) ==
  CASE Len(s) = 2 /\ op = "not" -> ReadNot(h[s[2]])
    [] Len(s) = 2 /\ op \in {"and", "or"} /\ s[2].kind = "list" ->
         ReadMany(op, [n \in DOMAIN s[2].items |-> h[s[2].items[n]]])
    [] Len(s) >= 3 /\ s[2].kind = "string" ->
         IF fs = <<>> THEN <<>>
         ELSE IF op \notin {"all", "any"} THEN ReadTriple(op, fs[1], Emptied(s[3])) ELSE ReadEach(op, fs[1], h[s[3]])
    [] OTHER -> <<>>

----------------------------------------------------------------------------
(* What this library writes is read                                        *)

Compares == {"==", "like"} \cup Orderings

\* r is a reading of p, if any.
Reads(p, r) == r \in {<<>>, <<Decoded[p]>>} /\ (SelectorsReadable => r # <<>>)

----------------------------------------------------------------------------
(* What others write                                                       *)

\* What somebody does to a list: to add to it, or to change its first or its last.
Longer(own, x)   == [own EXCEPT !.items = Append(@, x)]
NewFirst(own, x) == [own EXCEPT !.items[1] = x]
NewLast(own, x)  == [own EXCEPT !.items[Len(own.items)] = x]

\* What the decoder makes of bytes.
ReadWire(w) == IpldToPredicate(FromDagCbor(w))

\* What it can make of p, and what of that is accepted.
Readings(p) == {<<>>, <<Decoded[p]>>}
Journeys(p) == {<<>>, <<Normal[p]>>}

----------------------------------------------------------------------------
(* The journey of a policy                                                 *)

\* What is known of a predicate on its way.
JourneyInv ==
  /\ predicate \in Predicate
  /\ stage \in {"build", "built", "sent"} => policy = <<>>
  /\ stage = "sent" => wire \in {ToDagCbor(PredicateToIpld[predicate])} \cup Rewritings(predicate)
  /\ policy \in Journeys(predicate)
  /\ SelectorsReadable /\ stage \in {"run", "done"} /\ wire = ToDagCbor(PredicateToIpld[predicate]) =>
       (policy = <<>> <=> ~Flat(PredicateToIpld[predicate]))
  /\ stage \in {"build", "built"} => wire = Null

----------------------------------------------------------------------------
(* Values as they arrive                                                   *)

\* Equal values arrive equal, and others do not.
Alike(a) == \A b \in Data : IpldEquals[a][b] <=> IpldEquals[Received(a)][Received(b)]

\* A value and what arrives for it: DAG-CBOR holds no byte on its own, so that
\* one that a selector picks is a bigint on either side.
Passes(v, w) == v \in Data /\ w \in Data /\ (w = Received(v) \/ (w = v /\ v.kind = "bigint"))

----------------------------------------------------------------------------
(* Selectors on what arrives                                               *)

Arrivals(s) == [n \in DOMAIN s |-> Received(s[n])]

Elements(s) == {s[n] : n \in DOMAIN s}

\* The two have the same end: an error, or values that pass for each other and
\* are in order when what they were picked from was.
Follow(v, w, a, b) ==
  \/ a.kind = "error" /\ b.kind = "error"
  \/ a.kind # "error" /\ b.kind # "error" /\ Passes(a, b) /\ (~OutOfOrder(v) => ~OutOfOrder(a))

\* No filter of fs takes the values of a map for a list.
Bare(fs) == \A n \in DOMAIN fs : fs[n] \notin {Values, Try(Values)}

----------------------------------------------------------------------------
(* Verdicts on what arrives                                                *)

\* b is the verdict a, if a is one; a loose one may have become an error.
Keeps(a, b, loose) == a \in {"true", "false"} => b = a \/ (loose /\ b = "error")

\* t has what arrives for the elements s of v, in their order when v is in order.
Carried(v, s, t) ==
  /\ s \in Seq(Data) /\ t \in Seq(Data)
  /\ \A n \in 1..Len(s) : OutOfOrder(s[n]) => OutOfOrder(v)
  /\ \A n \in 1..Len(s) : \E m \in 1..Len(t) : t[m] = Received(s[n])
  /\ \A m \in 1..Len(t) : \E n \in 1..Len(s) : t[m] = Received(s[n])
  /\ ~OutOfOrder(v) => Len(t) = Len(s) /\ \A n \in 1..Len(s) : t[n] = Received(s[n])

\* The verdict on d survives the wire; it may become an error, or turn, when d
\* is not in order.
Survives(p, d) ==
  ~(OutOfOrder(d) /\ Enlists[p]) =>
    Keeps(RunPredicate[p][d], RunPredicate[Normal[p]][Received(d)], OutOfOrder(d))

\* The verdicts on the parts of a connective,
PartRuns(ps, d) == [n \in DOMAIN ps |-> RunPredicate[ps[n]][d]]

\* and of a quantifier.
ElementRuns(q, s) == [n \in DOMAIN s |-> RunPredicate[q][s[n]]]

\* What is known of the verdicts on either side.
CrossingInv ==
  /\ JourneyInv /\ args \in Data
  /\ stage = "run" => policy # <<>>
  /\ here \in {"none", RunPredicate[predicate][args]}
  /\ there \in {"none", RunPredicate[Normal[predicate]][Received(args)]}
=============================================================================
