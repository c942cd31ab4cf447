----------------------------- MODULE IpldProofs -----------------------------
(***************************************************************************)
(* Trees of values, and conversions that recurse into them.                *)
(*                                                                         *)
(* A conversion Fold(Node, v) of IpldTrees is what Node makes of v and of  *)
(* the conversions of the values in v, whatever Node is, as long as v is a *)
(* tree and Node looks at nothing else.  Proofs about a conversion take    *)
(* an instance of this module with its Node.                               *)
(***************************************************************************)
EXTENDS IpldTrees, WellFoundedInduction, TLAPS

CONSTANT Node(_, _)

\* The least-number principle, for a set rather than for a predicate.
LEMMA LeastNumber ==
  ASSUME NEW T \in SUBSET Nat, T # {}
  PROVE  \E n \in T : \A m \in T : n <= m
<1>1. PICK n \in T : \A m \in T : <<m, n>> \notin OpToRel(<, Nat)
  BY NatLessThanWellFounded, WFMin
<1>2. ASSUME NEW m \in T, m < n  PROVE FALSE
  BY <1>1, <1>2 DEF OpToRel
<1> QED  BY <1>2

\* And induction over the numbers, for a set of them.
LEMMA SetInduction ==
  ASSUME NEW T, 0 \in T, \A n \in Nat : n \in T => n + 1 \in T
  PROVE  Nat \subseteq T
<1> SUFFICES ASSUME Nat \ T # {}  PROVE FALSE
  OBVIOUS
<1>1. PICK n \in Nat \ T : \A m \in Nat \ T : n <= m
  BY LeastNumber
<1>2. n # 0 /\ n - 1 \in Nat /\ n - 1 \in T
  BY <1>1
<1> QED  BY <1>2

----------------------------------------------------------------------------
(* Recursion over a rank                                                   *)

\* Node makes something of x from what f makes of elements of lower rank.
Ranked(S, rank) ==
  /\ rank \in [S -> Nat]
  /\ \A x \in S : \A f, g : (\A y \in S : rank[y] < rank[x] => f[y] = g[y]) => Node(x, f) = Node(x, g)

\* f does so for every element below rank n.
Good(f, n, S, rank) == \A x \in S : rank[x] < n => f[x] = Node(x, f)

\* Two that do agree.
LEMMA GoodAgree ==
  ASSUME NEW S, NEW rank, Ranked(S, rank), NEW n \in Nat, NEW f, NEW g,
         Good(f, n, S, rank), Good(g, n, S, rank)
  PROVE  \A x \in S : rank[x] < n => f[x] = g[x]
<1> DEFINE T == {k \in Nat : \E x \in S : rank[x] = k /\ k < n /\ f[x] # g[x]}
<1>1. \A x \in S : rank[x] \in Nat
  BY DEF Ranked
<1>2. T = {}
  <2> SUFFICES ASSUME T # {}  PROVE FALSE
    OBVIOUS
  <2>1. PICK k \in T : \A m \in T : k <= m
    <3>1. T \in SUBSET Nat
      OBVIOUS
    <3> HIDE DEF T
    <3> QED  BY <3>1, LeastNumber
  <2>2. PICK x \in S : rank[x] = k /\ k < n /\ f[x] # g[x]
    BY <2>1
  <2>3. ASSUME NEW y \in S, rank[y] < rank[x]  PROVE f[y] = g[y]
    <3>1. rank[y] \in Nat /\ rank[y] < k /\ rank[y] < n /\ k \in Nat
      BY <1>1, <2>1, <2>2, <2>3
    <3>2. rank[y] \notin T
      BY <2>1, <3>1
    <3> QED  BY <3>1, <3>2
  <2>4. Node(x, f) = Node(x, g)
    BY <2>3, Zenon DEF Ranked
  <2> QED  BY <2>2, <2>4 DEF Good
<1> QED  BY <1>1, <1>2

\* So recursion over a rank defines a function.
LEMMA RankRecursion ==
  ASSUME NEW S, NEW rank, Ranked(S, rank)
  PROVE  \E f : f = [x \in S |-> Node(x, f)]
<1> DEFINE T == {n \in Nat : \E g : Good(g, n, S, rank)}
<1>1. \A x \in S : rank[x] \in Nat
  BY DEF Ranked
<1>2. 0 \in T
  <2>1. \A x \in S : ~(rank[x] < 0)
    BY <1>1
  <2> QED  BY <2>1 DEF Good
<1>3. ASSUME NEW n \in Nat, n \in T  PROVE n + 1 \in T
  <2>1. PICK g : Good(g, n, S, rank)
    BY <1>3
  <2> DEFINE h == [x \in S |-> Node(x, g)]
  <2>2. ASSUME NEW x \in S, rank[x] < n + 1  PROVE h[x] = Node(x, h)
    <3>1. ASSUME NEW y \in S, rank[y] < rank[x]  PROVE g[y] = h[y]
      <4>1. rank[y] < n
        BY <1>1, <2>2, <3>1
      <4> QED  BY <2>1, <4>1 DEF Good
    <3> HIDE DEF h
    <3>2. Node(x, g) = Node(x, h)
      BY <3>1, Zenon DEF Ranked
    <3> QED  BY <3>2 DEF h
  <2> HIDE DEF h
  <2>3. Good(h, n + 1, S, rank)
    BY <2>2 DEF Good
  <2> QED  BY <2>3
<1>4. Nat \subseteq T
  <2> HIDE DEF T
  <2> QED  BY <1>2, <1>3, SetInduction
<1> DEFINE At(n) == CHOOSE g : Good(g, n, S, rank)
           r == [x \in S |-> At(rank[x] + 1)[x]]
<1>5. \A n \in Nat : Good(At(n), n, S, rank)
  BY <1>4
<1> HIDE DEF T, At
<1>6. ASSUME NEW x \in S  PROVE r[x] = Node(x, r)
  <2> DEFINE f == At(rank[x] + 1)
  <2>1. Good(f, rank[x] + 1, S, rank)
    BY <1>1, <1>5
  <2>2. r[x] = f[x] /\ f[x] = Node(x, f)
    <3>1. rank[x] < rank[x] + 1
      BY <1>1
    <3> QED  BY <2>1, <3>1 DEF Good
  <2>3. ASSUME NEW y \in S, rank[y] < rank[x]  PROVE f[y] = r[y]
    <3> DEFINE g == At(rank[y] + 1)
    <3>1. Good(g, rank[y] + 1, S, rank) /\ r[y] = g[y]
      BY <1>1, <1>5
    <3>2. rank[y] + 1 \in Nat /\ rank[y] < rank[y] + 1 /\ \A a \in S : rank[a] < rank[y] + 1 => rank[a] < rank[x] + 1
      BY <1>1, <2>3
    <3> HIDE DEF f, g, r
    <3>3. Good(f, rank[y] + 1, S, rank)
      BY <2>1, <3>2 DEF Good
    <3>4. \A a \in S : rank[a] < rank[y] + 1 => f[a] = g[a]
      BY <3>1, <3>2, <3>3, GoodAgree
    <3> QED  BY <3>1, <3>2, <3>4
  <2> HIDE DEF f, r
  <2>4. Node(x, f) = Node(x, r)
    BY <2>3, Zenon DEF Ranked
  <2> QED  BY <2>2, <2>4
<1>7. r = [x \in S |-> Node(x, r)]
  <2> DEFINE F(x) == At(rank[x] + 1)[x]
  <2>1. \A x \in S : F(x) = Node(x, r)
    <3>1. \A x \in S : r[x] = F(x)
      OBVIOUS
    <3> HIDE DEF r, F
    <3> QED  BY <1>6, <3>1
  <2>2. [x \in S |-> F(x)] = [x \in S |-> Node(x, r)]
    <3> HIDE DEF r, F
    <3> QED  BY <2>1, Zenon
  <2> QED  BY <2>2, Zenon
<1> QED  BY <1>7

----------------------------------------------------------------------------
(* Trees                                                                   *)

\* The values n steps inside v, for each n up to a bound.
UpTo(w, v, n) == w = [k \in 0..n |-> IF k = 0 THEN {v} ELSE PartsOf(w[k-1])]

\* And for each n.
IsLevels(w, v) == w = [n \in Nat |-> IF n = 0 THEN {v} ELSE PartsOf(w[n-1])]

\* They exist up to any bound.
LEMMA UpToExists ==
  ASSUME NEW v, NEW length \in Nat
  PROVE  \E w : UpTo(w, v, length)
<1> DEFINE T == {n \in Nat : \E w : UpTo(w, v, n)}
<1>1. 0 \in T
  <2>1. UpTo([n \in 0..0 |-> {v}], v, 0)
    BY DEF UpTo
  <2> QED  BY <2>1
<1>2. ASSUME NEW n \in Nat, n \in T  PROVE n + 1 \in T
  <2>1. PICK w : UpTo(w, v, n)
    BY <1>2
  <2> DEFINE u == [k \in 0..n+1 |-> IF k = 0 THEN {v} ELSE PartsOf(w[k-1])]
  <2>2. ASSUME NEW k \in 0..n  PROVE u[k] = w[k]
    <3>1. k \in 0..n+1 /\ (k # 0 => k - 1 \in 0..n)
      OBVIOUS
    <3>2. w[k] = IF k = 0 THEN {v} ELSE PartsOf(w[k-1])
      BY <2>1, Zenon DEF UpTo
    <3>3. u[k] = IF k = 0 THEN {v} ELSE PartsOf(w[k-1])
      BY <3>1, Zenon
    <3> QED  BY <3>2, <3>3, Zenon
  <2>3. \A k \in 0..n+1 : k # 0 => u[k-1] = w[k-1]
    <3>1. \A k \in 0..n+1 : k # 0 => k - 1 \in 0..n
      OBVIOUS
    <3> HIDE DEF u
    <3> QED  BY <2>2, <3>1
  <2>4. u = [k \in 0..n+1 |-> IF k = 0 THEN {v} ELSE PartsOf(u[k-1])]
    BY <2>3, Zenon
  <2> HIDE DEF u
  <2>5. UpTo(u, v, n + 1)
    BY <2>4 DEF UpTo
  <2> QED  BY <2>5
<1> HIDE DEF T
<1>3. length \in T
  BY <1>1, <1>2, SetInduction
<1> QED  BY <1>3 DEF T

\* Longer ones go on from shorter ones.
LEMMA UpToAgree ==
  ASSUME NEW v, NEW n \in Nat, NEW w, NEW u, UpTo(w, v, n), UpTo(u, v, n + 1)
  PROVE  \A k \in 0..n : u[k] = w[k]
<1> DEFINE T == {k \in Nat : k <= n => u[k] = w[k]}
<1>1. 0 \in T
  BY DEF UpTo
<1>2. ASSUME NEW k \in Nat, k \in T  PROVE k + 1 \in T
  <2> SUFFICES ASSUME k + 1 <= n  PROVE u[k+1] = w[k+1]
    OBVIOUS
  <2>1. u[k] = w[k] /\ k + 1 \in 0..n /\ k + 1 \in 0..n+1 /\ k + 1 # 0 /\ (k + 1) - 1 = k
    BY <1>2
  <2>2. u[k+1] = PartsOf(u[k]) /\ w[k+1] = PartsOf(w[k])
    BY <2>1 DEF UpTo
  <2> QED  BY <2>1, <2>2
<1> HIDE DEF T
<1>3. Nat \subseteq T
  BY <1>1, <1>2, SetInduction
<1> QED  BY <1>3 DEF T

\* So they exist for each n.
LEMMA LevelsExist ==
  ASSUME NEW v
  PROVE  \E w : IsLevels(w, v)
<1> DEFINE At(n) == CHOOSE w : UpTo(w, v, n)
           u == [n \in Nat |-> At(n)[n]]
           U(n) == IF n = 0 THEN {v} ELSE PartsOf(u[n-1])
<1>1. \A n \in Nat : UpTo(At(n), v, n)
  BY UpToExists
<1> HIDE DEF At
<1>2. ASSUME NEW n \in Nat  PROVE u[n] = U(n)
  <2>1. CASE n = 0
    BY <1>1, <2>1 DEF UpTo
  <2>2. CASE n # 0
    <3> DEFINE m == n - 1
    <3>1. m \in Nat /\ m + 1 = n /\ m \in 0..m
      BY <2>2
    <3> HIDE DEF m
    <3>2. At(m+1)[m] = At(m)[m]
      BY <1>1, <3>1, UpToAgree
    <3>3. At(n)[n] = PartsOf(At(n)[n-1])
      BY <1>1, <2>2 DEF UpTo
    <3>4. n - 1 = m
      BY <3>1
    <3> QED  BY <2>2, <3>1, <3>2, <3>3, <3>4
  <2> QED  BY <2>1, <2>2
<1>3. u = [n \in Nat |-> U(n)]
  <2>1. \A n \in Nat : At(n)[n] = U(n)
    BY <1>2
  <2> HIDE DEF U
  <2> QED  BY <2>1, Zenon
<1> HIDE DEF u
<1>4. IsLevels(u, v)
  BY <1>3 DEF IsLevels
<1> QED  BY <1>4

Level(v) == CHOOSE w : IsLevels(w, v)

\* The values n + 1 steps inside are those in the ones n steps inside.
LEMMA LevelIs ==
  ASSUME NEW v
  PROVE  Level(v)[0] = {v} /\ \A n \in Nat : Level(v)[n+1] = PartsOf(Level(v)[n])
<1> DEFINE w == Level(v)
<1>1. IsLevels(w, v)
  BY LevelsExist DEF Level
<1> HIDE DEF w
<1>2. w[0] = {v}
  BY <1>1 DEF IsLevels
<1>3. ASSUME NEW n \in Nat  PROVE w[n+1] = PartsOf(w[n])
  <2>1. n + 1 \in Nat /\ n + 1 # 0 /\ (n + 1) - 1 = n
    OBVIOUS
  <2> QED  BY <1>1, <2>1 DEF IsLevels
<1> QED  BY <1>2, <1>3 DEF w

\* Nothing is n steps inside v.
Low(v, n) == Level(v)[n] = {}

\* Those are also the values n steps inside the parts of v.
LEMMA LevelSplits ==
  ASSUME NEW v
  PROVE  \A n \in Nat : Level(v)[n+1] = UNION {Level(p)[n] : p \in Parts(v)}
<1> DEFINE T == {n \in Nat : Level(v)[n+1] = UNION {Level(p)[n] : p \in Parts(v)}}
<1>1. 0 \in T
  <2>1. Level(v)[0+1] = Parts(v)
    <3>1. Level(v)[0+1] = PartsOf({v})
      BY LevelIs
    <3> QED  BY <3>1 DEF PartsOf
  <2>2. \A p \in Parts(v) : Level(p)[0] = {p}
    BY LevelIs
  <2>3. UNION {Level(p)[0] : p \in Parts(v)} = Parts(v)
    BY <2>2
  <2> QED  BY <2>1, <2>3
<1>2. ASSUME NEW n \in Nat, n \in T  PROVE n + 1 \in T
  <2>1. Level(v)[(n+1)+1] = PartsOf(Level(v)[n+1])
    BY LevelIs
  <2>2. \A p \in Parts(v) : Level(p)[n+1] = PartsOf(Level(p)[n])
    BY LevelIs
  <2>3. Level(v)[n+1] = UNION {Level(p)[n] : p \in Parts(v)}
    BY <1>2
  <2>4. UNION {Level(p)[n+1] : p \in Parts(v)} = PartsOf(Level(v)[n+1])
    <3>1. UNION {Level(p)[n+1] : p \in Parts(v)} = UNION {PartsOf(Level(p)[n]) : p \in Parts(v)}
      BY <2>2
    <3>2. ASSUME NEW y  PROVE y \in UNION {PartsOf(Level(p)[n]) : p \in Parts(v)} <=> y \in PartsOf(Level(v)[n+1])
      BY <2>3 DEF PartsOf
    <3> QED  BY <3>1, <3>2
  <2> QED  BY <2>1, <2>4
<1> HIDE DEF T
<1>3. Nat \subseteq T
  BY <1>1, <1>2, SetInduction
<1> QED  BY <1>3 DEF T

\* v is lower than n + 1 if its parts are lower than n.
LEMMA LowIs ==
  ASSUME NEW v
  PROVE  ~Low(v, 0) /\ \A n \in Nat : Low(v, n + 1) <=> \A p \in Parts(v) : Low(p, n)
<1>1. Level(v)[0] = {v}
  BY LevelIs
<1>2. ASSUME NEW n \in Nat  PROVE Low(v, n + 1) <=> \A p \in Parts(v) : Low(p, n)
  <2>1. Level(v)[n+1] = UNION {Level(p)[n] : p \in Parts(v)}
    BY LevelSplits
  <2> QED  BY <2>1 DEF Low
<1> QED  BY <1>1, <1>2 DEF Low

\* And then it is lower than n + 2.
LEMMA LowMore ==
  ASSUME NEW m \in Nat, NEW n \in Nat, m <= n, NEW v, Low(v, m)
  PROVE  Low(v, n)
<1> DEFINE T == {k \in Nat : k >= m => Level(v)[k] = {}}
<1>1. 0 \in T
  BY DEF Low
<1>2. ASSUME NEW k \in Nat, k \in T  PROVE k + 1 \in T
  <2>1. CASE k >= m
    <3>1. Level(v)[k+1] = PartsOf(Level(v)[k])
      BY LevelIs
    <3>2. Level(v)[k] = {}
      BY <1>2, <2>1
    <3> QED  BY <3>1, <3>2 DEF PartsOf
  <2>2. CASE k < m
    <3>1. k + 1 >= m => k + 1 = m
      BY <2>2
    <3> QED  BY <3>1 DEF Low
  <2> QED  BY <2>1, <2>2
<1> HIDE DEF T
<1>3. Nat \subseteq T
  BY <1>1, <1>2, SetInduction
<1> QED  BY <1>3 DEF T, Low

\* v is a tree: it comes to an end.
IsTree(v) == \E n \in Nat : Low(v, n)

\* The values n steps inside v or further.
Rest(v, n) == UNION {Level(v)[k] : k \in {k \in Nat : k >= n}}

\* They are those n steps inside and the rest.
LEMMA RestIs ==
  ASSUME NEW v, NEW n \in Nat
  PROVE  Rest(v, n) = Level(v)[n] \cup Rest(v, n + 1)
<1>1. ASSUME NEW y, y \in Rest(v, n)  PROVE y \in Level(v)[n] \cup Rest(v, n + 1)
  <2>1. PICK k \in Nat : k >= n /\ y \in Level(v)[k]
    BY <1>1 DEF Rest
  <2>2. k = n \/ k >= n + 1
    BY <2>1
  <2> QED  BY <2>1, <2>2 DEF Rest
<1>2. ASSUME NEW y, y \in Level(v)[n] \/ y \in Rest(v, n + 1)  PROVE y \in Rest(v, n)
  <2>1. PICK k \in Nat : k >= n /\ y \in Level(v)[k]
    <3>1. CASE y \in Level(v)[n]
      BY <3>1
    <3>2. CASE y \in Rest(v, n + 1)
      <4>1. PICK k \in Nat : k >= n + 1 /\ y \in Level(v)[k]
        BY <3>2 DEF Rest
      <4>2. k >= n
        BY <4>1
      <4> QED  BY <4>1, <4>2
    <3> QED  BY <1>2, <3>1, <3>2
  <2> QED  BY <2>1 DEF Rest
<1> QED  BY <1>1, <1>2

\* w collects the values from n steps inside v on, until there are none.
IsFrom(w, v) == w = [n \in Nat |-> IF Level(v)[n] = {} THEN {} ELSE Level(v)[n] \cup w[n+1]]

\* At the end of a tree there is no rest.
LEMMA NoRest ==
  ASSUME NEW v, NEW n \in Nat, Low(v, n)
  PROVE  Rest(v, n) = {}
<1>1. \A k \in Nat : k >= n => Level(v)[k] = {}
  BY LowMore DEF Low
<1> QED  BY <1>1 DEF Rest

\* Something collects the values of a tree, and whatever does collects them all.
LEMMA FromIs ==
  ASSUME NEW v, IsTree(v)
  PROVE  (\E w : IsFrom(w, v)) /\ \A w : IsFrom(w, v) => w[0] = Rest(v, 0)
<1>1. PICK end \in Nat : Low(v, end)
  BY DEF IsTree
<1>2. \A n \in Nat : Level(v)[n] = {} => Rest(v, n) = {}
  BY NoRest DEF Low
<1>3. \E w : IsFrom(w, v)
  <2> DEFINE w == [n \in Nat |-> Rest(v, n)]
             W(n) == IF Level(v)[n] = {} THEN {} ELSE Level(v)[n] \cup w[n+1]
  <2>1. \A n \in Nat : Rest(v, n) = W(n)
    <3>1. \A n \in Nat : w[n+1] = Rest(v, n + 1)
      OBVIOUS
    <3> HIDE DEF w
    <3> QED  BY <1>2, <3>1, RestIs
  <2>2. w = [n \in Nat |-> W(n)]
    <3> HIDE DEF W
    <3> QED  BY <2>1, Zenon
  <2> HIDE DEF w
  <2> QED  BY <2>2, Zenon DEF IsFrom
<1>4. ASSUME NEW w, IsFrom(w, v)  PROVE w[0] = Rest(v, 0)
  <2> DEFINE T == {j \in Nat : \A n \in Nat : n + j >= end => w[n] = Rest(v, n)}
  <2>1. \A n \in Nat : w[n] = IF Level(v)[n] = {} THEN {} ELSE Level(v)[n] \cup w[n+1]
    BY <1>4, Zenon DEF IsFrom
  <2>2. 0 \in T
    <3>1. \A n \in Nat : n + 0 >= end => Level(v)[n] = {}
      BY <1>1, LowMore DEF Low
    <3> QED  BY <2>1, <1>2, <3>1
  <2>3. ASSUME NEW j \in Nat, j \in T  PROVE j + 1 \in T
    <3> SUFFICES ASSUME NEW n \in Nat, n + (j + 1) >= end  PROVE w[n] = Rest(v, n)
      OBVIOUS
    <3>1. w[n+1] = Rest(v, n + 1)
      BY <2>3
    <3> HIDE DEF T
    <3>2. CASE Level(v)[n] = {}
      <4>1. w[n] = {}
        BY <2>1, <3>2
      <4>2. Rest(v, n) = {}
        BY <1>2, <3>2
      <4> QED  BY <4>1, <4>2
    <3>3. CASE Level(v)[n] # {}
      <4>1. w[n] = Level(v)[n] \cup w[n+1]
        BY <2>1, <3>3
      <4>2. Rest(v, n) = Level(v)[n] \cup Rest(v, n + 1)
        BY RestIs
      <4> QED  BY <3>1, <4>1, <4>2
    <3> QED  BY <3>2, <3>3
  <2> HIDE DEF T
  <2>4. end \in T
    BY <2>2, <2>3, SetInduction
  <2>5. 0 + end >= end
    OBVIOUS
  <2> QED  BY <2>4, <2>5 DEF T
<1> QED  BY <1>3, <1>4

\* The values within a tree are all those any number of steps inside it.
LEMMA WithinIs ==
  ASSUME NEW v, IsTree(v)
  PROVE  Within(v) = Rest(v, 0)
<1> DEFINE w == CHOOSE w : IsFrom(w, v)
<1>1. Within(v) = w[0]
  BY Zenon DEF Within, IsFrom, Level, IsLevels
<1>2. IsFrom(w, v)
  BY FromIs
<1> HIDE DEF w
<1> QED  BY <1>1, <1>2, FromIs

\* The parts of a tree are trees, and lower.
LEMMA PartsAreTrees ==
  ASSUME NEW v, NEW p \in Parts(v), NEW n \in Nat, Low(v, n)
  PROVE  n # 0 /\ n - 1 \in Nat /\ Low(p, n - 1) /\ IsTree(p)
<1>1. n # 0
  BY LowIs
<1>2. n - 1 \in Nat /\ (n - 1) + 1 = n
  BY <1>1
<1>3. Low(p, n - 1)
  BY <1>2, LowIs
<1> QED  BY <1>1, <1>2, <1>3 DEF IsTree

\* The values within a tree are itself and those within its parts.
LEMMA WithinSplits ==
  ASSUME NEW v, IsTree(v)
  PROVE  Within(v) = {v} \cup UNION {Within(p) : p \in Parts(v)}
<1>1. \A p \in Parts(v) : IsTree(p)
  BY PartsAreTrees DEF IsTree
<1>2. \A p \in Parts(v) : Within(p) = Rest(p, 0)
  BY <1>1, WithinIs
<1>3. Rest(v, 0) = {v} \cup UNION {Rest(p, 0) : p \in Parts(v)}
  <2>1. ASSUME NEW y, y \in Rest(v, 0)  PROVE y = v \/ \E p \in Parts(v) : y \in Rest(p, 0)
    <3>1. PICK k \in Nat : y \in Level(v)[k]
      BY <2>1 DEF Rest
    <3>2. CASE k = 0
      BY <3>1, <3>2, LevelIs
    <3>3. CASE k # 0
      <4>1. k - 1 \in Nat /\ (k - 1) + 1 = k /\ k - 1 >= 0
        BY <3>3
      <4>2. Level(v)[k] = UNION {Level(p)[k-1] : p \in Parts(v)}
        BY <4>1, LevelSplits
      <4>3. PICK p \in Parts(v) : y \in Level(p)[k-1]
        BY <3>1, <4>2
      <4> QED  BY <4>1, <4>3 DEF Rest
    <3> QED  BY <3>2, <3>3
  <2>2. ASSUME NEW p \in Parts(v), NEW y \in Rest(p, 0)  PROVE y \in Rest(v, 0)
    <3>1. PICK k \in Nat : y \in Level(p)[k]
      BY DEF Rest
    <3>2. y \in Level(v)[k+1]
      <4>1. Level(v)[k+1] = UNION {Level(q)[k] : q \in Parts(v)}
        BY LevelSplits
      <4> QED  BY <3>1, <4>1
    <3>3. k + 1 \in Nat /\ k + 1 >= 0
      OBVIOUS
    <3> QED  BY <3>2, <3>3 DEF Rest
  <2>3. v \in Rest(v, 0)
    BY LevelIs DEF Rest
  <2> QED  BY <2>1, <2>2, <2>3
<1> QED  BY <1>2, <1>3, WithinIs

\* They are no higher than the tree, and so are trees, with their parts within it.
LEMMA WithinLow ==
  ASSUME NEW v, NEW n \in Nat, Low(v, n), NEW y \in Within(v)
  PROVE  Low(y, n) /\ IsTree(y) /\ Parts(y) \subseteq Within(v)
<1> DEFINE T == {m \in Nat : \A u : Low(u, m) => \A x \in Within(u) : Low(x, m) /\ Parts(x) \subseteq Within(u)}
<1>1. 0 \in T
  BY LowIs
<1>2. ASSUME NEW m \in Nat, m \in T  PROVE m + 1 \in T
  <2> SUFFICES ASSUME NEW u, Low(u, m + 1), NEW x \in Within(u)
               PROVE  Low(x, m + 1) /\ Parts(x) \subseteq Within(u)
    OBVIOUS
  <2>1. IsTree(u)
    BY DEF IsTree
  <2>2. \A p \in Parts(u) : Low(p, m) /\ IsTree(p)
    BY LowIs DEF IsTree
  <2>3. \A p \in Parts(u) : p \in Within(p)
    BY <2>2, WithinSplits
  <2>4. Within(u) = {u} \cup UNION {Within(p) : p \in Parts(u)}
    BY <2>1, WithinSplits
  <2>5. CASE x = u
    BY <2>3, <2>4, <2>5
  <2>6. CASE x # u
    <3>1. PICK p \in Parts(u) : x \in Within(p)
      BY <2>4, <2>6
    <3>2. Low(x, m) /\ Parts(x) \subseteq Within(p)
      BY <1>2, <2>2, <3>1
    <3>3. Low(x, m + 1)
      <4>1. m <= m + 1 /\ m + 1 \in Nat
        OBVIOUS
      <4> QED  BY <3>2, <4>1, LowMore
    <3> QED  BY <2>4, <3>2, <3>3
  <2> QED  BY <2>5, <2>6
<1> HIDE DEF T
<1>3. n \in T
  BY <1>1, <1>2, SetInduction
<1> QED  BY <1>3 DEF T, IsTree

\* How many steps it takes to the end of a tree.
Height(v) == CHOOSE n \in Nat : Low(v, n) /\ \A m \in Nat : Low(v, m) => n <= m

\* It takes no fewer.
LEMMA HeightIs ==
  ASSUME NEW v, IsTree(v)
  PROVE  Height(v) \in Nat /\ Low(v, Height(v)) /\ \A m \in Nat : Low(v, m) => Height(v) <= m
<1> DEFINE T == {n \in Nat : Low(v, n)}
<1>1. PICK n \in T : \A m \in T : n <= m
  <2>1. T \in SUBSET Nat /\ T # {}
    BY DEF IsTree
  <2> HIDE DEF T
  <2> QED  BY <2>1, LeastNumber
<1>2. n \in Nat /\ Low(v, n) /\ \A m \in Nat : Low(v, m) => n <= m
  BY <1>1
<1> QED  BY <1>2, Zenon DEF Height

----------------------------------------------------------------------------
(* Conversions                                                             *)

\* The parts of v and their parts, which is as far as a Node looks.
Near(v) == Parts(v) \cup PartsOf(Parts(v))

\* They are in v, as trees of lower height.
LEMMA NearIsLower ==
  ASSUME NEW v, IsTree(v), NEW y \in Near(v)
  PROVE  IsTree(y) /\ Height(y) < Height(v) /\ y \in Within(v)
<1> DEFINE h == Height(v)
<1>1. h \in Nat /\ Low(v, h)
  BY HeightIs
<1> HIDE DEF h
<1>2. \A p \in Parts(v) : h # 0 /\ h - 1 \in Nat /\ Low(p, h - 1) /\ p \in Within(v)
  <2>1. v \in Within(v)
    BY WithinSplits
  <2> QED  BY <1>1, <2>1, PartsAreTrees, WithinLow
<1>3. h # 0 /\ h - 1 \in Nat /\ Low(y, h - 1) /\ y \in Within(v)
  <2>1. CASE y \in Parts(v)
    BY <1>2, <2>1
  <2>2. CASE y \in PartsOf(Parts(v))
    <3>1. PICK p \in Parts(v) : y \in Parts(p)
      BY <2>2 DEF PartsOf
    <3> DEFINE m == h - 1
    <3>2. m \in Nat /\ Low(p, m) /\ p \in Within(v) /\ h # 0
      BY <1>2, <3>1
    <3> HIDE DEF m
    <3>3. m # 0 /\ m - 1 \in Nat /\ Low(y, m - 1)
      BY <3>1, <3>2, PartsAreTrees
    <3>4. Low(y, m)
      BY <3>2, <3>3, LowMore
    <3>5. y \in Within(v)
      BY <1>1, <3>1, <3>2, WithinLow
    <3> QED  BY <3>2, <3>4, <3>5 DEF m
  <2> QED  BY <2>1, <2>2 DEF Near
<1>4. IsTree(y)
  BY <1>3 DEF IsTree
<1>5. Height(y) \in Nat /\ Height(y) <= h - 1
  BY <1>3, <1>4, HeightIs
<1>6. Height(y) < h
  <2> DEFINE k == Height(y)
  <2> HIDE DEF k
  <2>1. k \in Nat /\ k <= h - 1
    BY <1>5 DEF k
  <2>2. k < h
    BY <1>1, <2>1
  <2> QED  BY <2>2 DEF k
<1> QED  BY <1>3, <1>4, <1>6 DEF h

\* Within v, Node looks no further.
Local(v) ==
  \A x \in Within(v) : \A f, g : (\A y \in Near(x) : f[y] = g[y]) => Node(x, f) = Node(x, g)

\* What the conversion makes of v.
Made(v) == Fold(Node, v)

\* f is what it makes of the values within v.
IsMade(f, v) == f = [x \in Within(v) |-> Node(x, f)]

\* How many steps each of the values within v takes.
Heights(v) == [x \in Within(v) |-> Height(x)]

\* Heights rank the values within a tree.
LEMMA HeightsRank ==
  ASSUME NEW v, IsTree(v), Local(v)
  PROVE  Ranked(Within(v), Heights(v))
<1>1. \A x \in Within(v) : IsTree(x) /\ Parts(x) \subseteq Within(v)
  BY WithinLow DEF IsTree
<1>2. Heights(v) \in [Within(v) -> Nat]
  BY <1>1, HeightIs DEF Heights
<1>3. ASSUME NEW x \in Within(v), NEW f, NEW g, \A y \in Within(v) : Heights(v)[y] < Heights(v)[x] => f[y] = g[y]
      PROVE  Node(x, f) = Node(x, g)
  <2>1. ASSUME NEW y \in Near(x)  PROVE f[y] = g[y]
    <3>1. Height(y) < Height(x)
      BY <1>1, NearIsLower
    <3>2. y \in Within(v)
      BY <1>1 DEF Near, PartsOf
    <3> QED  BY <1>3, <3>1, <3>2 DEF Heights
  <2> QED  BY <2>1, Zenon DEF Local
<1> QED  BY <1>2, <1>3, Zenon DEF Ranked

\* Such a function exists, and what it makes of v is what the conversion makes.
LEMMA MadeExists ==
  ASSUME NEW v, IsTree(v), Local(v)
  PROVE  \E f : IsMade(f, v) /\ Made(v) = f[v]
<1> DEFINE f == CHOOSE f : IsMade(f, v)
<1>1. IsMade(f, v)
  BY HeightsRank, RankRecursion DEF IsMade
<1>2. Made(v) = f[v]
  BY Zenon DEF Made, Fold, IsMade
<1> HIDE DEF f
<1> QED  BY <1>1, <1>2

\* And it makes the same of what is within v.
LEMMA MadeWithin ==
  ASSUME NEW v, IsTree(v), Local(v), NEW f, IsMade(f, v), NEW y \in Within(v), Within(y) \subseteq Within(v)
  PROVE  f[y] = Made(y)
<1>1. IsTree(y)
  BY WithinLow DEF IsTree
<1>2. Local(y)
  BY DEF Local
<1>3. PICK g : IsMade(g, y) /\ Made(y) = g[y]
  BY <1>1, <1>2, MadeExists
<1> DEFINE n == Height(y) + 1
<1>4. n \in Nat /\ Height(y) < n
  BY <1>1, HeightIs
<1>5. Good(g, n, Within(y), Heights(y))
  BY <1>3, Zenon DEF IsMade, Good
<1>6. Good(f, n, Within(y), Heights(y))
  BY Zenon DEF IsMade, Good
<1>7. y \in Within(y)
  BY <1>1, WithinSplits
<1>8. Ranked(Within(y), Heights(y))
  BY <1>1, <1>2, HeightsRank
<1> HIDE DEF n
<1>9. Heights(y)[y] < n
  BY <1>4, <1>7 DEF Heights
<1> QED  BY <1>3, <1>4, <1>5, <1>6, <1>7, <1>8, <1>9, GoodAgree

\* What is within a value within a tree is within the tree.
LEMMA WithinWithin ==
  ASSUME NEW v, IsTree(v), NEW y \in Near(v)
  PROVE  Within(y) \subseteq Within(v)
<1>1. \A p \in Parts(v) : IsTree(p) /\ Within(p) \subseteq Within(v)
  BY PartsAreTrees, WithinSplits DEF IsTree
<1>2. \A p \in Parts(v) : \A q \in Parts(p) : Within(q) \subseteq Within(p)
  BY <1>1, WithinSplits
<1> QED  BY <1>1, <1>2 DEF Near, PartsOf

\* The conversion of a tree is what Node makes of it and of the conversions of
\* the values in it.
THEOREM FoldUnfolds ==
  ASSUME NEW v, IsTree(v), Local(v), NEW f, \A y \in Near(v) : f[y] = Made(y)
  PROVE  Made(v) = Node(v, f)
<1>1. PICK g : IsMade(g, v) /\ Made(v) = g[v]
  BY MadeExists
<1>2. \A y \in Near(v) : f[y] = g[y]
  BY <1>1, NearIsLower, WithinWithin, MadeWithin
<1>3. v \in Within(v)
  BY WithinSplits
<1>4. Node(v, f) = Node(v, g)
  BY <1>2, <1>3, Zenon DEF Local
<1>5. g[v] = Node(v, g)
  BY <1>1, <1>3, Zenon DEF IsMade
<1> QED  BY <1>1, <1>4, <1>5
=============================================================================
