---------------------------- MODULE PolicyProofs ----------------------------
(***************************************************************************)
(* Proofs about the policy language.                                       *)
(*                                                                         *)
(* Selectors: the decoder accepts no selector but the issued one, and the  *)
(* loop of get gives every selector its meaning.  Both rest on what the    *)
(* operators of Filters compute: that the arithmetic of applyFilter picks  *)
(* the positions a filter means, that a string spells one selector at      *)
(* most, and that the parser reads nothing but filters.                    *)
(*                                                                         *)
(* Globs: the greedy algorithm matches what the pattern means.             *)
(*                                                                         *)
(* Predicates: one that reaches a verdict reaches the one it means, for    *)
(* predicates and arguments of any depth.  The recursive functions exist   *)
(* and unfold, by recursion over the depth of values and the size of       *)
(* predicates; comparisons give their meaning, and predicates give theirs  *)
(* when their parts do.                                                    *)
(*                                                                         *)
(* The wire: a policy that is accepted is the one that was issued, and     *)
(* what this library writes is accepted.  Instances of IpldProofs make the *)
(* conversions unfold; the printer of selectors and their parser are       *)
(* inverse to each other, so are predicateToIpld and ipldToPredicate, and  *)
(* writing again what was received gives the same bytes.                   *)
(*                                                                         *)
(* Verdicts on either side of it: what arrives for a value has its parts   *)
(* as they arrive, compares as it did and is picked by the same selectors, *)
(* and a predicate keeps its verdict when the predicates in it do.         *)
(*                                                                         *)
(* A theorem rests on the assumptions its proof cites: those on selectors  *)
(* cite none of Predicates or Judging, and those on globs only that Star   *)
(* and Backslash differ.                                                   *)
(***************************************************************************)
EXTENDS PolicyNotions, WellFoundedInduction, FiniteSetTheorems, SequenceTheorems, TLAPS


\* The least-number principle, for a set rather than for a predicate.
LEMMA LeastNumber ==
  ASSUME NEW T \in SUBSET Nat, T # {}
  PROVE  \E n \in T : \A m \in T : n <= m
<1>1. PICK n \in T : \A m \in T : <<m, n>> \notin OpToRel(<, Nat)
  BY NatLessThanWellFounded, WFMin
<1>2. ASSUME NEW m \in T, m < n  PROVE FALSE  BY <1>1, <1>2 DEF OpToRel
<1> QED  BY <1>2

\* And induction over the numbers, for a set of them.
LEMMA SetInduction ==
  ASSUME NEW T, 0 \in T, \A n \in Nat : n \in T => n + 1 \in T
  PROVE  Nat \subseteq T
<1> SUFFICES ASSUME Nat \ T # {}  PROVE FALSE  OBVIOUS
<1>1. PICK n \in Nat \ T : \A m \in Nat \ T : n <= m  BY LeastNumber
<1>2. n # 0 /\ n - 1 \in Nat /\ n - 1 \in T  BY <1>1
<1> QED  BY <1>2

\* The least number of a set is the one below no other.
LEMMA MinIs ==
  ASSUME NEW T, T \subseteq Int, NEW n \in T, \A m \in T : n <= m
  PROVE  Min(T) = n
<1>1. Min(T) \in T /\ \A m \in T : Min(T) <= m  BY DEF Min
<1> DEFINE x == Min(T)
<1> HIDE DEF x
<1>2. x \in Int /\ n \in Int /\ x <= n /\ n <= x  BY <1>1 DEF x
<1>3. x = n  BY <1>2
<1> QED  BY <1>3 DEF x

\* An element of T above all others is its maximum.
LEMMA MaxIs ==
  ASSUME NEW T, T \subseteq Int, NEW n \in T, \A m \in T : n >= m
  PROVE  Max(T) = n
<1>1. Max(T) \in T /\ \A m \in T : Max(T) >= m  BY DEF Max
<1> DEFINE x == Max(T)
<1> HIDE DEF x
<1>2. x \in Int /\ n \in Int /\ x >= n /\ n >= x  BY <1>1 DEF x
<1>3. x = n  BY <1>2
<1> QED  BY <1>3 DEF x

\* Of two numbers.
LEMMA OfTwo ==
  ASSUME NEW a \in Int, NEW b \in Int, a <= b
  PROVE  Min({a, b}) = a /\ Min({b, a}) = a /\ Max({a, b}) = b /\ Max({b, a}) = b
<1> DEFINE T == {a, b}
<1>1. T \subseteq Int /\ {b, a} = T /\ a \in T /\ b \in T  OBVIOUS
<1>2. (\A m \in T : a <= m) /\ (\A m \in T : b >= m)  OBVIOUS
<1> HIDE DEF T
<1>3. Min(T) = a  BY <1>1, <1>2, MinIs, Zenon
<1>4. Max(T) = b  BY <1>1, <1>2, MaxIs, Zenon
<1> QED  BY <1>1, <1>3, <1>4, Zenon DEF T

----------------------------------------------------------------------------
(* What one filter picks                                                   *)

\* The kinds of filters.
LEMMA PlainKinds ==
  ASSUME NEW f \in Plain
  PROVE  \/ f.kind = "field" /\ f = Field(f.key) /\ f.key \in Key
         \/ f.kind = "arrayIndex" /\ f = ArrayIndex(f.index) /\ f.index \in Int
         \/ f.kind = "values" /\ f = Values
         \/ /\ f.kind = "slice" /\ f = Slice(f.start, f.end)
            /\ f.start = NoEnd \/ f.start \in Int
            /\ f.end = NoEnd \/ f.end \in Int
<1>1. CASE \E k \in Key : f = Field(k)  BY <1>1 DEF Field
<1>2. CASE \E n \in Index : f = ArrayIndex(n)
  BY <1>2, FiltersAssumption DEF ArrayIndex
<1>3. CASE f = Values  BY <1>3 DEF Values
<1>4. CASE \E s \in Index \cup {NoEnd}, e \in Index \cup {NoEnd} : f = Slice(s, e)
  BY <1>4, FiltersAssumption DEF Slice
<1> QED  BY <1>1, <1>2, <1>3, <1>4 DEF Plain

\* An index by arithmetic is the position that is that far from either end.
LEMMA IndexPicks ==
  ASSUME NEW v, v.kind \in {"list", "bytes"}, Len(v.items) \in Nat,
         NEW f, f.kind = "arrayIndex", f.index \in Int
  PROVE  ApplyFilter(v, f) = Picks(v, f)
<1> DEFINE n == Len(v.items)
           i == f.index
           k == IF i >= 0 THEN i ELSE n + i
           chosen == {j \in 0..n-1 : i \in {j, j - n}}
           items == [j \in 1..Cardinality(chosen) |-> v.items[Min(chosen) + j]]
<1>1. ApplyFilter(v, f) = IF k < 0 \/ k >= n THEN Error("indexOutOfBounds")
                          ELSE IF v.kind = "list" THEN v.items[k+1] ELSE BigInt(v.items[k+1])
  BY DEF ApplyFilter
<1>2. Picks(v, f) = IF chosen = {} THEN Error("indexOutOfBounds")
                    ELSE IF v.kind = "list" THEN items[1] ELSE BigInt(items[1])
  BY DEF Picks
<1>3. CASE k < 0 \/ k >= n
 <2>1. chosen = {}  BY <1>3
 <2> HIDE DEF k, chosen, items
 <2> QED  BY <1>1, <1>2, <1>3, <2>1
<1>4. CASE ~(k < 0 \/ k >= n)
 <2>1. chosen = {k} /\ k \in Int  BY <1>4
 <2> HIDE DEF k, chosen
 <2>2. Cardinality(chosen) = 1 /\ Min(chosen) = k
  <3>1. Cardinality(chosen) = 1  BY <2>1, FS_Singleton
  <3>2. chosen \subseteq Int /\ k \in chosen /\ \A m \in chosen : k <= m
    BY <2>1
  <3> QED  BY <3>1, <3>2, MinIs, Zenon
 <2>3. items[1] = v.items[k+1] /\ chosen # {}  BY <2>1, <2>2
 <2> HIDE DEF items
 <2> QED  BY <1>1, <1>2, <1>4, <2>3
<1> QED  BY <1>3, <1>4

\* A bound of a slice is that of the positions it divides.
LEMMA BoundDivides ==
  ASSUME NEW b \in Int, NEW n \in Nat
  PROVE  /\ Bounded(b, n) \in Nat /\ Bounded(b, n) <= n
         /\ \A k \in 0..n-1 : AtOrAfter(k, n, b) <=> k >= Bounded(b, n)
<1>1. CASE b >= 0 /\ b <= n
 <2>1. n \in Int /\ b <= n  BY <1>1
 <2>2. Min({b, n}) = b  BY <2>1, OfTwo, Zenon
 <2> QED  BY <1>1, <2>2 DEF Bounded, AtOrAfter
<1>2. CASE b >= 0 /\ b > n
 <2>1. n \in Int /\ n <= b  BY <1>2
 <2>2. Min({b, n}) = n  BY <2>1, OfTwo, Zenon
 <2> QED  BY <1>2, <2>2 DEF Bounded, AtOrAfter
<1>3. CASE b < 0 /\ n + b >= 0
 <2>1. n + b \in Int /\ 0 \in Int /\ 0 <= n + b  BY <1>3
 <2>2. Max({0, n + b}) = n + b  BY <2>1, OfTwo, Zenon
 <2> QED  BY <1>3, <2>2 DEF Bounded, AtOrAfter
<1>4. CASE b < 0 /\ n + b < 0
 <2>1. n + b \in Int /\ 0 \in Int /\ n + b <= 0  BY <1>4
 <2>2. Max({0, n + b}) = 0  BY <2>1, OfTwo, Zenon
 <2> QED  BY <1>4, <2>2 DEF Bounded, AtOrAfter
<1> QED  BY <1>1, <1>2, <1>3, <1>4

\* A part of a sequence, position by position.
LEMMA SliceAt ==
  ASSUME NEW S, NEW s \in Seq(S), NEW m \in Nat, NEW n \in Nat, m <= n, n <= Len(s)
  PROVE  SubSeq(s, m + 1, n) = [j \in 1..n - m |-> s[m + j]]
<1> DEFINE t == SubSeq(s, m + 1, n)
<1>1. ASSUME NEW i \in m + 1..n  PROVE s[i] \in S
 <2>1. i \in 1..Len(s)  BY LenProperties
 <2> QED  BY <2>1, ElementOfSeq
<1>2. /\ t \in Seq(S)
      /\ Len(t) = IF m + 1 <= n THEN n - (m + 1) + 1 ELSE 0
      /\ \A j \in 1..n - (m + 1) + 1 : t[j] = s[m + 1 + j - 1]
 <2>1. m + 1 \in Int /\ n \in Int  OBVIOUS
 <2> QED  BY <1>1, <2>1, SubSeqProperties
<1> HIDE DEF t
<1>3. n - (m + 1) + 1 = n - m /\ \A j \in 1..n - m : m + 1 + j - 1 = m + j
  OBVIOUS
<1>4. Len(t) = n - m /\ \A j \in 1..n - m : t[j] = s[m + j]
  BY <1>2, <1>3
<1>5. t = [j \in 1..Len(t) |-> t[j]]
 <2> HIDE <1>1, <1>2, <1>3, <1>4
 <2> QED  BY <1>2
<1>6. t = [j \in 1..n - m |-> s[m + j]]
  BY <1>4, <1>5
<1> QED  BY <1>6 DEF t

\* A slice by arithmetic is the positions between its bounds.
LEMMA SlicePicks ==
  ASSUME NEW v, v.kind \in {"list", "bytes"}, NEW S, v.items \in Seq(S),
         NEW f, f.kind = "slice", f.start = NoEnd \/ f.start \in Int, f.end = NoEnd \/ f.end \in Int
  PROVE  ApplyFilter(v, f) = Picks(v, f)
<1> DEFINE s == v.items
           n == Len(s)
           from == IF f.start = NoEnd THEN 0 ELSE Bounded(f.start, n)
           to == IF f.end = NoEnd THEN n ELSE Bounded(f.end, n)
           chosen == {k \in 0..n-1 : /\ f.start = NoEnd \/ AtOrAfter(k, n, f.start)
                                     /\ f.end = NoEnd \/ ~AtOrAfter(k, n, f.end)}
           items == [j \in 1..Cardinality(chosen) |-> s[Min(chosen) + j]]
<1>1. ApplyFilter(v, f) = [v EXCEPT !.items = SubSeq(s, from + 1, Max({from, to}))]
  BY DEF ApplyFilter, SliceOf, Bounded
<1>2. Picks(v, f) = [v EXCEPT !.items = items]  BY DEF Picks
<1>3. n \in Nat  OBVIOUS
<1>4. from \in Nat /\ from <= n /\ to \in Nat /\ to <= n
 <2>1. 0 \in Nat /\ 0 <= n /\ n <= n  BY <1>3
 <2> QED  BY <1>3, <2>1, BoundDivides, Zenon
<1>5. \A k \in 0..n-1 : k \in chosen <=> from <= k /\ k < to
 <2> SUFFICES ASSUME NEW k \in 0..n-1  PROVE k \in chosen <=> from <= k /\ k < to
   OBVIOUS
 <2>1. (f.start = NoEnd \/ AtOrAfter(k, n, f.start)) <=> from <= k
  <3>1. CASE f.start = NoEnd  BY <3>1
  <3>2. CASE f.start # NoEnd
   <4>1. AtOrAfter(k, n, f.start) <=> k >= from
     BY <1>3, <3>2, BoundDivides, Zenon
   <4> HIDE DEF from
   <4> QED  BY <1>4, <3>2, <4>1
  <3> QED  BY <3>1, <3>2
 <2>2. (f.end = NoEnd \/ ~AtOrAfter(k, n, f.end)) <=> k < to
  <3>1. CASE f.end = NoEnd  BY <1>3, <3>1
  <3>2. CASE f.end # NoEnd
   <4>1. AtOrAfter(k, n, f.end) <=> k >= to
     BY <1>3, <3>2, BoundDivides, Zenon
   <4> HIDE DEF to
   <4> QED  BY <1>4, <3>2, <4>1
  <3> QED  BY <3>1, <3>2
 <2> HIDE DEF from, to
 <2> QED  BY <2>1, <2>2
<1>6. chosen \subseteq 0..n-1  OBVIOUS
<1> HIDE DEF from, to, chosen, n
<1>7. SubSeq(s, from + 1, Max({from, to})) = items
 <2>1. CASE from < to
  <3>1. from..to-1 \subseteq 0..n-1 /\ \A k \in 0..n-1 : k \in from..to-1 <=> from <= k /\ k < to
    BY <1>3, <1>4
  <3>2. chosen = from..to-1  BY <1>5, <1>6, <3>1, Zenon
  <3>3. from..to-1 \subseteq Int /\ from \in from..to-1 /\ \A m \in from..to-1 : from <= m
    BY <1>4, <2>1
  <3>4. Min(chosen) = from  BY <3>2, <3>3, MinIs, Zenon
  <3>5. Cardinality(chosen) = to - from  BY <1>4, <2>1, <3>2, FS_Interval
  <3>6. from \in Int /\ to \in Int /\ from <= to  BY <1>4, <2>1
  <3>7. Max({from, to}) = to  BY <3>6, OfTwo, Zenon
  <3>8. items = [j \in 1..to - from |-> s[from + j]]  BY <3>4, <3>5
  <3>9. SubSeq(s, from + 1, to) = [j \in 1..to - from |-> s[from + j]]
   <4>1. s \in Seq(S) /\ Len(s) = n  BY DEF n
   <4> HIDE DEF s
   <4> QED  BY <1>4, <3>6, <4>1, SliceAt
  <3> QED  BY <3>7, <3>8, <3>9, Zenon
 <2>2. CASE ~(from < to)
  <3>1. chosen = {}  BY <1>3, <1>4, <1>5, <1>6, <2>2
  <3>2. items = <<>>  BY <3>1, FS_EmptySet
  <3>3. Max({from, to}) = from
   <4>1. from \in Int /\ to \in Int /\ to <= from  BY <1>4, <2>2
   <4> QED  BY <4>1, OfTwo, Zenon
  <3>4. SubSeq(s, from + 1, from) = <<>>  BY <1>3, <1>4, SubSeqEmpty
  <3> QED  BY <3>2, <3>3, <3>4, Zenon
 <2> QED  BY <2>1, <2>2
<1> QED  BY <1>1, <1>2, <1>7

\* What a filter picks, and where it misses, is what it means.
LEMMA FilterPicks ==
  ASSUME NEW v, IsValue(v), NEW f \in Plain
  PROVE  ApplyFilter(v, f) = Picks(v, f)
<1>1. CASE v.kind \notin {"list", "bytes"} \/ f.kind \notin {"arrayIndex", "slice"}
  BY <1>1 DEF Picks
<1>2. CASE v.kind \in {"list", "bytes"} /\ f.kind \in {"arrayIndex", "slice"}
 <2>1. PICK S : v.items \in Seq(S)  BY <1>2 DEF IsValue
 <2>2. Len(v.items) \in Nat  BY <2>1
 <2>3. \/ f.kind = "arrayIndex" /\ f.index \in Int
       \/ /\ f.kind = "slice"
          /\ f.start = NoEnd \/ f.start \in Int
          /\ f.end = NoEnd \/ f.end \in Int
   BY <1>2, PlainKinds
 <2> QED  BY <1>2, <2>1, <2>2, <2>3, IndexPicks, SlicePicks
<1> QED  BY <1>1, <1>2

\* Every filter misses null.
LEMMA NullMisses ==
  ASSUME NEW f \in Plain
  PROVE  ApplyFilter(Null, f).kind = "error"
<1>1. Null.kind = "null" /\ \A why : Error(why).kind = "error"
  BY DEF Null, Error
<1> QED  BY <1>1, PlainKinds DEF ApplyFilter

\* A slice of a sequence is a sequence of the same elements.
LEMMA SliceTyped ==
  ASSUME NEW S, NEW s \in Seq(S), NEW start, NEW end,
         start = NoEnd \/ start \in Int, end = NoEnd \/ end \in Int
  PROVE  SliceOf(s, start, end) \in Seq(S)
<1> DEFINE n == Len(s)
           from == IF start = NoEnd THEN 0 ELSE Bounded(start, n)
           to == IF end = NoEnd THEN n ELSE Bounded(end, n)
<1>1. SliceOf(s, start, end) = SubSeq(s, from + 1, Max({from, to}))
  BY DEF SliceOf, Bounded
<1>2. n \in Nat  OBVIOUS
<1>3. from \in Nat /\ from <= n /\ to \in Nat /\ to <= n
 <2>1. 0 \in Nat /\ 0 <= n /\ n <= n  BY <1>2
 <2> QED  BY <1>2, <2>1, BoundDivides, Zenon
<1> HIDE DEF from, to
<1> DEFINE last == Max({from, to})
<1>4. last = from \/ last = to
 <2>1. from \in Int /\ to \in Int /\ (from <= to \/ to <= from)  BY <1>3
 <2> QED  BY <2>1, OfTwo, Zenon
<1> HIDE DEF last
<1>5. last \in Nat /\ last <= n  BY <1>3, <1>4
<1>6. SubSeq(s, from + 1, last) \in Seq(S)
 <2>1. \A i \in from + 1 .. last : s[i] \in S  BY <1>2, <1>3, <1>5
 <2> QED  BY <1>2, <1>3, <1>5, <2>1, SubSeqProperties
<1> QED  BY <1>1, <1>6 DEF last

\* What is picked from a value is a value.
LEMMA PicksValues ==
  ASSUME NEW v, IsValue(v), NEW f \in Plain, ApplyFilter(v, f).kind # "error"
  PROVE  IsValue(ApplyFilter(v, f))
<1> DEFINE w == ApplyFilter(v, f)
<1>1. \A why : Error(why).kind = "error"  BY DEF Error
<1>2. \A d \in Data : IsValue(d)  BY DataAssumption
<1>3. CASE f.kind = "field"
 <2>1. v.kind = "map" /\ f.key \in DOMAIN v.entries /\ w = v.entries[f.key]
   BY <1>1, <1>3 DEF ApplyFilter
 <2>2. w \in Data  BY <2>1 DEF IsValue
 <2> HIDE DEF w
 <2> QED  BY <1>2, <2>2 DEF w
<1>4. CASE f.kind = "arrayIndex"
 <2>1. v.kind \in {"list", "bytes"}  BY <1>1, <1>4 DEF ApplyFilter
 <2> DEFINE n == Len(v.items)
            k == IF f.index >= 0 THEN f.index ELSE n + f.index
 <2>2. w = IF k < 0 \/ k >= n THEN Error("indexOutOfBounds")
           ELSE IF v.kind = "list" THEN v.items[k+1] ELSE BigInt(v.items[k+1])
   BY <1>4, <2>1 DEF ApplyFilter
 <2>3. ~(k < 0 \/ k >= n)  BY <1>1, <2>2
 <2>4. f.index \in Int  BY <1>4, PlainKinds
 <2>5. CASE v.kind = "list"
  <3>1. k + 1 \in 1..n /\ v.items \in Seq(Data)
    BY <2>3, <2>4, <2>5 DEF IsValue
  <3> HIDE DEF k
  <3>2. w \in Data  BY <2>2, <2>3, <2>5, <3>1
  <3> QED  BY <1>2, <3>2
 <2>6. CASE v.kind = "bytes"
  <3> HIDE DEF k
  <3>1. k + 1 \in 1..n /\ v.items \in Seq(0..255)
    BY <2>3, <2>4, <2>6 DEF IsValue, k
  <3> HIDE DEF w
  <3>2. PICK b \in 0..255 : w = BigInt(b)
   <4>1. v.items[k+1] \in 0..255  BY <3>1, ElementOfSeq, Zenon
   <4> QED  BY <2>2, <2>3, <2>6, <4>1
  <3>3. 2 * b \in Int /\ (2 * b) % 2 = 0  OBVIOUS
  <3>4. w.kind = "bigint" /\ w = [kind |-> "bigint", halves |-> w.halves] /\ Whole(w.halves)
    BY <3>2, <3>3 DEF BigInt, Whole
  <3> QED  BY <3>4 DEF IsValue, w
 <2> QED  BY <2>1, <2>5, <2>6
<1>5. CASE f.kind = "values"
 <2>1. CASE v.kind = "list"  BY <1>5, <2>1 DEF ApplyFilter
 <2>2. CASE v.kind = "map"
  <3>1. w = List([n \in 1..Len(v.order) |-> v.entries[v.order[n]]])
    BY <1>5, <2>2 DEF ApplyFilter, ToVec
  <3>2. [n \in 1..Len(v.order) |-> v.entries[v.order[n]]] \in Seq(Data)
   <4>1. \A n \in 1..Len(v.order) : v.entries[v.order[n]] \in Data
     BY <2>2 DEF IsValue
   <4>2. Len(v.order) \in Nat  BY <2>2 DEF IsValue
   <4> QED  BY <4>1, <4>2
  <3> QED  BY <3>1, <3>2 DEF IsValue, List
 <2>3. CASE v.kind \notin {"list", "map"}  BY <1>1, <1>5, <2>3 DEF ApplyFilter
 <2> QED  BY <2>1, <2>2, <2>3
<1>6. CASE f.kind = "slice"
 <2>1. v.kind \in {"list", "bytes"}  BY <1>1, <1>6 DEF ApplyFilter
 <2> DEFINE items == SliceOf(v.items, f.start, f.end)
 <2>2. w = [v EXCEPT !.items = items]  BY <1>6, <2>1 DEF ApplyFilter
 <2>3. f.start = NoEnd \/ f.start \in Int  BY <1>6, PlainKinds
 <2>4. f.end = NoEnd \/ f.end \in Int  BY <1>6, PlainKinds
 <2>5. ASSUME NEW S, v.items \in Seq(S)  PROVE items \in Seq(S)
   BY <2>3, <2>4, <2>5, SliceTyped
 <2> HIDE DEF items
 <2>6. CASE v.kind = "list"
  <3>1. w = List(items) /\ items \in Seq(Data)
    BY <2>2, <2>5, <2>6 DEF IsValue, List
  <3> QED  BY <3>1 DEF IsValue, List
 <2>7. CASE v.kind = "bytes"
  <3>1. w = BytesOf(items) /\ items \in Seq(0..255)
    BY <2>2, <2>5, <2>7 DEF IsValue, BytesOf
  <3> QED  BY <3>1 DEF IsValue, BytesOf
 <2> QED  BY <2>1, <2>6, <2>7
<1> QED  BY <1>3, <1>4, <1>5, <1>6, PlainKinds

----------------------------------------------------------------------------
(* The loop of get                                                         *)

\* Every run of filters over a value has a way: the values after each filter.
LEMMA WayExists ==
  ASSUME NEW fs, NEW root, NEW length \in Nat
  PROVE  \E v : IsWay(v, fs, root, length)
<1> DEFINE T == {n \in Nat : \E v : IsWay(v, fs, root, n)}
<1>1. 0 \in T
 <2>1. IsWay([n \in 0..0 |-> root], fs, root, 0)  BY DEF IsWay
 <2> QED  BY <2>1
<1>2. ASSUME NEW n \in Nat, n \in T  PROVE n + 1 \in T
 <2>1. PICK w : IsWay(w, fs, root, n)  BY <1>2
 <2> DEFINE v == [m \in 0..n+1 |-> IF m = 0 THEN root
                    ELSE IF w[m-1].kind = "error" THEN w[m-1] ELSE Picks(w[m-1], InnerOf(fs[m]))]
 <2>2. \A m \in 0..n : v[m] = w[m]  BY <2>1 DEF IsWay
 <2>3. \A m \in 0..n+1 : m # 0 => v[m-1] = w[m-1]
  <3>1. \A m \in 0..n+1 : m # 0 => m - 1 \in 0..n  OBVIOUS
  <3> HIDE DEF v
  <3> QED  BY <2>2, <3>1
 <2>4. v = [m \in 0..n+1 |-> IF m = 0 THEN root
              ELSE IF v[m-1].kind = "error" THEN v[m-1] ELSE Picks(v[m-1], InnerOf(fs[m]))]
   BY <2>3, Zenon
 <2> HIDE DEF v
 <2>5. IsWay(v, fs, root, n + 1)  BY <2>4 DEF IsWay
 <2> QED  BY <2>5
<1> HIDE DEF T
<1>3. length \in T  BY <1>1, <1>2, SetInduction
<1> QED  BY <1>3 DEF T

\* The meaning of a selector is read off the end of its way.
LEMMA MeaningIsReached ==
  ASSUME NEW fs \in Seq(Filter), NEW root
  PROVE  \E v : IsWay(v, fs, root, Len(fs)) /\ Meaning(fs, root) = Reached(v, fs)
<1> DEFINE v == CHOOSE w : IsWay(w, fs, root, Len(fs))
<1>1. IsWay(v, fs, root, Len(fs))  BY WayExists
<1>2. Meaning(fs, root) = Reached(v, fs)
  BY Zenon DEF Meaning, Reached, IsWay, InnerOf
<1> QED  BY <1>1, <1>2

\* The turns that a way says of.
LEMMA WaySteps ==
  ASSUME NEW v, NEW fs \in Seq(Filter), NEW root, IsWay(v, fs, root, Len(fs))
  PROVE  /\ v[0] = root
         /\ \A n \in 1..Len(fs) : v[n-1].kind # "error" => v[n] = Picks(v[n-1], InnerOf(fs[n]))
<1>1. Len(fs) \in Nat  OBVIOUS
<1> QED  BY <1>1 DEF IsWay

\* A filter is its plain filter or a try of it.
LEMMA InnerIsPlain ==
  ASSUME NEW f \in Filter
  PROVE  /\ InnerOf(f) \in Plain
         /\ f.kind = "try" => f = Try(InnerOf(f))
         /\ f.kind # "try" => f = InnerOf(f)
<1>1. CASE f \in Plain
 <2>1. f.kind # "try"  BY <1>1, PlainKinds
 <2> QED  BY <1>1, <2>1 DEF InnerOf
<1>2. CASE f \in {Try(g) : g \in Plain}  BY <1>2 DEF InnerOf, Try
<1> QED  BY <1>1, <1>2 DEF Filter

\* The first miss decides.
LEMMA FirstMiss ==
  ASSUME NEW v, NEW fs \in Seq(Filter), NEW n \in 1..Len(fs),
         v[n].kind = "error", \A m \in 1..n-1 : v[m].kind # "error"
  PROVE  Reached(v, fs) = IF fs[n].kind = "try" THEN Null ELSE v[n]
<1> DEFINE misses == {m \in 1..Len(fs) : v[m].kind = "error"}
<1>1. n \in misses /\ misses \subseteq Int /\ \A m \in misses : n <= m
 <2>1. ASSUME NEW m \in misses  PROVE n <= m  BY <2>1
 <2> QED  BY <2>1
<1>2. Reached(v, fs) = IF misses = {} THEN v[Len(fs)]
                       ELSE IF fs[Min(misses)].kind = "try" THEN Null ELSE v[Min(misses)]
  BY DEF Reached
<1> HIDE DEF misses
<1>3. Min(misses) = n  BY <1>1, MinIs, Zenon
<1> QED  BY <1>1, <1>2, <1>3

\* A turn of get: what the filter at hand makes of a value on the way.
LEMMA Turn ==
  ASSUME NEW v, NEW fs \in Seq(Filter), NEW root, IsWay(v, fs, root, Len(fs)),
         NEW n \in 1..Len(fs), IsValue(v[n-1])
  PROVE  /\ v[n] = ApplyFilter(v[n-1], InnerOf(fs[n]))
         /\ v[n].kind # "error" => IsValue(v[n])
<1>1. fs[n] \in Filter  OBVIOUS
<1>2. InnerOf(fs[n]) \in Plain  BY <1>1, InnerIsPlain
<1>3. v[n] = Picks(v[n-1], InnerOf(fs[n]))  BY WaySteps DEF IsValue
<1>4. v[n] = ApplyFilter(v[n-1], InnerOf(fs[n]))  BY <1>2, <1>3, FilterPicks
<1> QED  BY <1>2, <1>4, PicksValues

\* A turn at an optional filter.
LEMMA OptionalTurn ==
  ASSUME SInv, SelectOptional
  PROVE  Selecting'
<1>1. filters \in Seq(Filter) /\ at \in 1..Len(filters) /\ at + 1 \in 1..Len(filters) + 1
 <2>1. filters \in Seq(Filter) /\ at \in 1..Len(filters) + 1 /\ at <= Len(filters)
   BY DEF SInv, Selecting, SelectOptional
 <2>2. Len(filters) \in Nat  BY <2>1
 <2> QED  BY <2>1, <2>2
<1>2. PICK v : /\ IsWay(v, filters, document, Len(filters))
               /\ Meaning(filters, document) = Reached(v, filters)
               /\ OnTheWay(v)
  BY DEF SInv, Selecting, SelectOptional
<1> DEFINE f == filters[at]
           got == ApplyFilter(current, InnerOf(f))
<1>3. f \in Filter /\ f.kind = "try" /\ f.inner = InnerOf(f) /\ InnerOf(f) \in Plain
  BY <1>1, InnerIsPlain DEF SelectOptional, InnerOf
<1>4. /\ current' = (IF got.kind = "error" THEN Null ELSE got)
      /\ isTry' = (isTry \/ got.kind = "error") /\ at' = at + 1
      /\ filters' = filters /\ document' = document
  BY <1>3 DEF SelectOptional
<1> HIDE DEF got
<1>5. OnTheWay(v)'
 <2>1. CASE ~isTry /\ current = v[at-1] /\ IsValue(current) /\ \A n \in 1..at-1 : v[n].kind # "error"
  <3>1. v[at] = got /\ (v[at].kind # "error" => IsValue(v[at]))
    BY <1>1, <1>2, <2>1, Turn DEF got
  <3>2. CASE got.kind = "error"
   <4>1. isTry' /\ current' = Null  BY <1>4, <3>2
   <4>2. at \in 1..at'-1 /\ v[at].kind = "error" /\ filters'[at].kind = "try"
     BY <1>1, <1>3, <1>4, <3>1, <3>2
   <4>3. \E n \in 1..at'-1 : /\ v[n].kind = "error" /\ filters'[n].kind = "try"
                             /\ \A m \in 1..n-1 : v[m].kind # "error"
     BY <2>1, <4>2, Zenon
   <4> QED  BY <4>1, <4>3, Zenon DEF OnTheWay
  <3>3. CASE got.kind # "error"
   <4>1. ~isTry' /\ current' = v[at'-1] /\ IsValue(current')
    <5>1. at' - 1 = at  BY <1>1, <1>4
    <5>2. ~isTry' /\ current' = got  BY <1>4, <2>1, <3>3
    <5> QED  BY <3>1, <3>3, <5>1, <5>2
   <4>2. ASSUME NEW n \in 1..at'-1  PROVE v[n].kind # "error"
    <5>1. n \in 1..at-1 \/ n = at  BY <1>1, <1>4
    <5> QED  BY <2>1, <3>1, <3>3, <5>1
   <4> QED  BY <4>1, <4>2 DEF OnTheWay
  <3> QED  BY <3>2, <3>3
 <2>2. CASE isTry /\ current = Null
            /\ \E n \in 1..at-1 : /\ v[n].kind = "error" /\ filters[n].kind = "try"
                                  /\ \A m \in 1..n-1 : v[m].kind # "error"
  <3>1. got.kind = "error"  BY <1>3, <2>2, NullMisses DEF got
  <3>2. isTry' /\ current' = Null  BY <1>4, <3>1
  <3>3. PICK n \in 1..at-1 : /\ v[n].kind = "error" /\ filters[n].kind = "try"
                             /\ \A m \in 1..n-1 : v[m].kind # "error"
    BY <2>2
  <3>4. n \in 1..at'-1 /\ filters'[n].kind = "try"  BY <1>1, <1>4, <3>3
  <3> QED  BY <3>2, <3>3, <3>4 DEF OnTheWay
 <2> QED  BY <1>2, <2>1, <2>2 DEF OnTheWay
<1> QED  BY <1>1, <1>2, <1>4, <1>5 DEF Selecting

\* A turn at any other filter goes on along the way, or ends as it ends.
LEMMA PlainTurn ==
  ASSUME SInv, SelectPlain
  PROVE  Selecting' /\ (phase' = "done" => outcome' = Meaning(filters, document))
<1>1. filters \in Seq(Filter) /\ at \in 1..Len(filters) /\ at + 1 \in 1..Len(filters) + 1
 <2>1. filters \in Seq(Filter) /\ at \in 1..Len(filters) + 1 /\ at <= Len(filters)
   BY DEF SInv, Selecting, SelectPlain
 <2>2. Len(filters) \in Nat  BY <2>1
 <2> QED  BY <2>1, <2>2
<1>2. PICK v : /\ IsWay(v, filters, document, Len(filters))
               /\ Meaning(filters, document) = Reached(v, filters)
               /\ OnTheWay(v)
  BY DEF SInv, Selecting, SelectPlain
<1> DEFINE f == filters[at]
           got == ApplyFilter(current, f)
<1>3. f \in Filter /\ f.kind # "try" /\ f = InnerOf(f) /\ f \in Plain
  BY <1>1, InnerIsPlain DEF SelectPlain
<1>4. filters' = filters /\ document' = document /\ isTry' = isTry /\ phase = "select"
  BY DEF SelectPlain
<1>5. CASE got.kind # "error"
 <2>1. /\ current' = got /\ at' = at + 1 /\ phase' = phase
   BY <1>5 DEF SelectPlain
 <2> HIDE DEF got
 <2>2. ~isTry /\ current = v[at-1] /\ IsValue(current) /\ \A n \in 1..at-1 : v[n].kind # "error"
   BY <1>2, <1>3, <1>5, NullMisses DEF OnTheWay, got
 <2>3. v[at] = got /\ (v[at].kind # "error" => IsValue(v[at]))
   BY <1>1, <1>2, <1>3, <2>2, Turn DEF got
 <2>4. OnTheWay(v)'
  <3>1. ~isTry' /\ current' = v[at'-1] /\ IsValue(current')
   <4>1. at' - 1 = at  BY <1>1, <2>1
   <4> QED  BY <1>4, <1>5, <2>1, <2>2, <2>3, <4>1 DEF got
  <3>2. ASSUME NEW n \in 1..at'-1  PROVE v[n].kind # "error"
   <4>1. n \in 1..at-1 \/ n = at  BY <1>1, <2>1
   <4> QED  BY <1>5, <2>2, <2>3, <4>1
  <3> QED  BY <3>1, <3>2 DEF OnTheWay
 <2> QED  BY <1>1, <1>2, <1>4, <2>1, <2>4 DEF Selecting
<1>6. CASE got.kind = "error"
 <2>1. phase' = "done" /\ outcome' = (IF isTry THEN Null ELSE got)
   BY <1>6 DEF SelectPlain, Stop
 <2> HIDE DEF got
 <2>2. CASE isTry
  <3>1. PICK n \in 1..at-1 : /\ v[n].kind = "error" /\ filters[n].kind = "try"
                             /\ \A m \in 1..n-1 : v[m].kind # "error"
    BY <1>2, <2>2 DEF OnTheWay
  <3>2. n \in 1..Len(filters)  BY <1>1
  <3>3. Reached(v, filters) = Null  BY <1>1, <3>1, <3>2, FirstMiss
  <3> QED  BY <1>2, <2>1, <2>2, <3>3 DEF Selecting
 <2>3. CASE ~isTry
  <3>1. current = v[at-1] /\ IsValue(current) /\ \A n \in 1..at-1 : v[n].kind # "error"
    BY <1>2, <2>3 DEF OnTheWay
  <3>2. v[at] = got  BY <1>1, <1>2, <1>3, <3>1, Turn DEF got
  <3>3. Reached(v, filters) = got  BY <1>1, <1>3, <1>6, <3>1, <3>2, FirstMiss
  <3> QED  BY <1>2, <2>1, <2>3, <3>3 DEF Selecting
 <2> QED  BY <2>2, <2>3
<1> QED  BY <1>5, <1>6

\* The end of the way.
LEMMA LastTurn ==
  ASSUME SInv, Select
  PROVE  outcome' = Meaning(filters, document)
<1>1. filters \in Seq(Filter) /\ at = Len(filters) + 1 /\ Len(filters) \in Nat /\ at - 1 = Len(filters)
 <2>1. filters \in Seq(Filter) /\ at = Len(filters) + 1
   BY DEF SInv, Selecting, Select
 <2>2. Len(filters) \in Nat  BY <2>1
 <2> QED  BY <2>1, <2>2
<1>2. PICK v : /\ IsWay(v, filters, document, Len(filters))
               /\ Meaning(filters, document) = Reached(v, filters)
               /\ OnTheWay(v)
  BY DEF SInv, Selecting, Select
<1>3. outcome' = current  BY DEF Select, Stop
<1>4. CASE isTry
 <2>1. PICK n \in 1..at-1 : /\ v[n].kind = "error" /\ filters[n].kind = "try"
                            /\ \A m \in 1..n-1 : v[m].kind # "error"
   BY <1>2, <1>4 DEF OnTheWay
 <2>2. Reached(v, filters) = Null  BY <1>1, <2>1, FirstMiss
 <2>3. current = Null  BY <1>2, <1>4 DEF OnTheWay
 <2> QED  BY <1>2, <1>3, <2>2, <2>3
<1>5. CASE ~isTry
 <2>1. current = v[at-1] /\ \A n \in 1..at-1 : v[n].kind # "error"
   BY <1>2, <1>5 DEF OnTheWay
 <2>2. Reached(v, filters) = v[Len(filters)]  BY <1>1, <2>1 DEF Reached
 <2> QED  BY <1>1, <1>2, <1>3, <2>1, <2>2
<1> QED  BY <1>4, <1>5

----------------------------------------------------------------------------
(* A string spells one selector                                            *)

\* The elements of a concatenation.
LEMMA CatIs ==
  ASSUME NEW t, NEW u, NEW w, IsCat(t, u, w)
  PROVE  /\ u \in Seq(Lexeme) /\ w \in Seq(Lexeme) /\ t \in Seq(Lexeme)
         /\ Len(u) \in Nat /\ Len(w) \in Nat /\ Len(t) = Len(u) + Len(w)
         /\ \A n \in 1..Len(u) : t[n] = u[n]
         /\ \A n \in 1..Len(w) : t[Len(u) + n] = w[n]
<1>1. u \in Seq(Lexeme) /\ w \in Seq(Lexeme) /\ t = u \o w  BY DEF IsCat
<1>2. u \o w \in Seq(Lexeme) /\ Len(u \o w) = Len(u) + Len(w)
  BY <1>1, ConcatProperties
<1>3. \A n \in 1..Len(u) : (u \o w)[n] = u[n]  BY <1>1
<1>4. \A n \in 1..Len(w) : (u \o w)[Len(u) + n] = w[n]  BY <1>1
<1>5. Len(u) \in Nat /\ Len(w) \in Nat  BY <1>1
<1> QED  BY <1>1, <1>2, <1>3, <1>4, <1>5, Zenon

\* When the ends of a string are equally long, they are one, and so is what
\* comes before them.
LEMMA EqualEnds ==
  ASSUME NEW t, NEW u, NEW w, NEW v, NEW x, IsCat(t, u, w), IsCat(t, v, x), Len(w) = Len(x)
  PROVE  u = v /\ w = x
<1>1. /\ u \in Seq(Lexeme) /\ w \in Seq(Lexeme) /\ Len(u) \in Nat /\ Len(t) = Len(u) + Len(w)
      /\ v \in Seq(Lexeme) /\ x \in Seq(Lexeme) /\ Len(v) \in Nat /\ Len(t) = Len(v) + Len(x)
      /\ Len(w) \in Nat
  BY CatIs
<1>2. Len(u) = Len(v)  BY <1>1
<1>3. \A n \in 1..Len(u) : t[n] = u[n] /\ t[n] = v[n]  BY <1>2, CatIs
<1>4. \A n \in 1..Len(w) : t[Len(u) + n] = w[n] /\ t[Len(u) + n] = x[n]
 <2>1. \A n \in 1..Len(w) : t[Len(u) + n] = w[n]  BY CatIs
 <2>2. \A n \in 1..Len(x) : t[Len(v) + n] = x[n]  BY CatIs
 <2> QED  BY <1>2, <2>1, <2>2, Zenon
<1>5. u = v  BY <1>1, <1>2, <1>3, SeqEqual
<1>6. w = x  BY <1>1, <1>4, SeqEqual
<1> QED  BY <1>5, <1>6

\* The lexemes differ from each other.
LEMMA LexemesDiffer ==
  /\ Dot # Question
  /\ \A k : Name(k) # Dot /\ Name(k) # Question
  /\ \A f : Bracket(f) # Dot /\ Bracket(f) # Question
  /\ \A k, f : Name(k) # Bracket(f)
  /\ \A j, k : Name(j) = Name(k) => j = k
  /\ \A f, g : Bracket(f) = Bracket(g) => f = g
<1>1. Dot # Question  BY DEF Dot, Question
<1>2. \A k : Name(k) # Dot /\ Name(k) # Question
 <2> TAKE k
 <2>1. Name(k).lex = "name" /\ Dot.lex = "." /\ Question.lex = "?"
   BY DEF Name, Dot, Question
 <2> QED  BY <2>1
<1>3. \A f : Bracket(f) # Dot /\ Bracket(f) # Question
 <2> TAKE f
 <2>1. Bracket(f).lex = "bracket" /\ Dot.lex = "." /\ Question.lex = "?"
   BY DEF Bracket, Dot, Question
 <2> QED  BY <2>1
<1>4. \A k, f : Name(k) # Bracket(f)
 <2> TAKE k, f
 <2>1. Name(k).lex = "name" /\ Bracket(f).lex = "bracket"  BY DEF Name, Bracket
 <2> QED  BY <2>1
<1>5. \A j, k : Name(j) = Name(k) => j = k  BY DEF Name
<1>6. \A f, g : Bracket(f) = Bracket(g) => f = g  BY DEF Bracket
<1> QED  BY <1>1, <1>2, <1>3, <1>4, <1>5, <1>6

\* A core ends in a name or a bracket, which tell whose it is.
LEMMA CoreShape ==
  ASSUME NEW f, NEW c, f \in Plain, c \in Cores(f)
  PROVE  /\ c \in Seq(Lexeme)
         /\ \/ Len(c) = 1 /\ c[1] = Bracket(f)
            \/ /\ Len(c) = 2 /\ c[2] = Name(f.key) /\ c[1] = Dot
               /\ f.kind = "field" /\ f.key \in DotKey
<1>1. CASE c = <<Bracket(f)>>
 <2>1. Bracket(f) \in Lexeme  BY DEF Lexeme
 <2> HIDE DEF Lexeme
 <2> QED  BY <1>1, <2>1
<1>2. CASE IsDotField(f) /\ c = <<Dot, Name(f.key)>>
 <2>1. Dot \in Lexeme /\ Name(f.key) \in Lexeme  BY <1>2 DEF Lexeme, IsDotField
 <2>2. c \in Seq(Lexeme) /\ Len(c) = 2 /\ c[2] = Name(f.key) /\ c[1] = Dot
   BY <1>2, <2>1
 <2> QED  BY <1>2, <2>2 DEF IsDotField
<1> QED  BY <1>1, <1>2 DEF Cores

\* The cores of two filters that end in one lexeme are the same, and so are
\* the filters.
LEMMA CoreTellsFilter ==
  ASSUME NEW f, NEW c, NEW g, NEW d,
         f \in Plain, c \in Cores(f), g \in Plain, d \in Cores(g),
         c[Len(c)] = d[Len(d)]
  PROVE  f = g /\ Len(c) = Len(d)
<1>1. CASE Len(c) = 1 /\ c[1] = Bracket(f) /\ Len(d) = 1 /\ d[1] = Bracket(g)
  BY <1>1, LexemesDiffer
<1>2. CASE Len(c) = 2 /\ c[2] = Name(f.key) /\ f.kind = "field"
           /\ Len(d) = 2 /\ d[2] = Name(g.key) /\ g.kind = "field"
 <2>1. f.key = g.key  BY <1>2, LexemesDiffer
 <2>2. f = Field(f.key) /\ g = Field(g.key)  BY <1>2, PlainKinds
 <2> QED  BY <1>2, <2>1, <2>2
<1>3. CASE Len(c) = 1 /\ c[1] = Bracket(f) /\ Len(d) = 2 /\ d[2] = Name(g.key)
  BY <1>3, LexemesDiffer
<1>4. CASE Len(c) = 2 /\ c[2] = Name(f.key) /\ Len(d) = 1 /\ d[1] = Bracket(g)
  BY <1>4, LexemesDiffer
<1> QED  BY <1>1, <1>2, <1>3, <1>4, CoreShape

\* No core ends in a mark or a dot.
LEMMA CoreEnd ==
  ASSUME NEW f, NEW c, f \in Plain, c \in Cores(f)
  PROVE  c \in Seq(Lexeme) /\ Len(c) > 0 /\ c[Len(c)] # Question /\ c[Len(c)] # Dot
<1>1. CASE Len(c) = 1 /\ c[1] = Bracket(f)  BY <1>1, CoreShape, LexemesDiffer
<1>2. CASE Len(c) = 2 /\ c[2] = Name(f.key)  BY <1>2, CoreShape, LexemesDiffer
<1> QED  BY <1>1, <1>2, CoreShape

\* Marks hold question marks only.
LEMMA MarksAreMarks ==
  ASSUME NEW m \in Marks
  PROVE  \A n \in 1..Len(m) : m[n] = Question
BY DEF Marks

\* The last lexeme of what ends in a string is the last one of the string.
LEMMA LastOfCat ==
  ASSUME NEW t, NEW u, NEW w, IsCat(t, u, w), Len(w) > 0
  PROVE  Len(t) > 0 /\ t[Len(t)] = w[Len(w)]
<1>1. Len(u) \in Nat /\ Len(w) \in Nat /\ Len(t) = Len(u) + Len(w)  BY CatIs
<1>2. Len(w) \in 1..Len(w)  BY <1>1
<1>3. t[Len(u) + Len(w)] = w[Len(w)]  BY <1>2, CatIs
<1> QED  BY <1>1, <1>3

\* Marks at the end of a string, when no mark is before them.
LEMMA NoLongerMarks ==
  ASSUME NEW t, NEW u, NEW x, NEW v, NEW y, IsCat(t, u, x), IsCat(t, v, y),
         Len(u) > 0, u[Len(u)] # Question, y \in Marks
  PROVE  ~(Len(x) < Len(y))
<1> SUFFICES ASSUME Len(x) < Len(y)  PROVE FALSE  OBVIOUS
<1>1. /\ Len(u) \in Nat /\ Len(x) \in Nat /\ Len(t) = Len(u) + Len(x)
      /\ Len(v) \in Nat /\ Len(y) \in Nat /\ Len(t) = Len(v) + Len(y)
  BY CatIs
<1> DEFINE n == Len(u) - Len(v)
<1>2. n \in 1..Len(y) /\ Len(v) + n = Len(u) /\ Len(u) \in 1..Len(u)
 <2>1. Len(u) \in 1..Len(u)  BY <1>1
 <2>2. n \in Int /\ Len(v) + n = Len(u)  BY <1>1
 <2>3. 1 <= n /\ n <= Len(y)  BY <1>1
 <2> QED  BY <1>1, <2>1, <2>2, <2>3
<1> HIDE DEF n
<1>3. t[Len(u)] = u[Len(u)]
 <2>1. \A k \in 1..Len(u) : t[k] = u[k]  BY CatIs
 <2> QED  BY <1>2, <2>1
<1>4. t[Len(v) + n] = y[n]
 <2>1. \A k \in 1..Len(y) : t[Len(v) + k] = y[k]  BY CatIs
 <2> QED  BY <1>2, <2>1
<1>5. y[n] = Question  BY <1>2, MarksAreMarks
<1> QED  BY <1>2, <1>3, <1>4, <1>5

\* A text is parted from the question marks after it in one way.
LEMMA MarksEnd ==
  ASSUME NEW t, NEW u, NEW x, NEW v, NEW y, IsCat(t, u, x), IsCat(t, v, y),
         Len(u) > 0, u[Len(u)] # Question, x \in Marks,
         Len(v) > 0, v[Len(v)] # Question, y \in Marks
  PROVE  u = v /\ x = y
<1>1. ~(Len(x) < Len(y)) /\ ~(Len(y) < Len(x))  BY NoLongerMarks
<1>2. Len(x) \in Nat /\ Len(y) \in Nat  BY CatIs
<1>3. Len(x) = Len(y)  BY <1>1, <1>2
<1> QED  BY <1>3, EqualEnds

\* The last filter that a string spells is one filter, after one string.
LEMMA LastFilter ==
  ASSUME NEW t, NEW u, NEW f, NEW v, NEW g, f \in Filter, g \in Filter,
         SpellsNext(t, u, f), SpellsNext(t, v, g)
  PROVE  f = g /\ u = v
<1>1. InnerOf(f) \in Plain /\ InnerOf(g) \in Plain  BY InnerIsPlain
<1>2. PICK p, c, x : /\ c \in Cores(InnerOf(f)) /\ x \in Marks /\ IsCat(p, u, c) /\ IsCat(t, p, x)
                     /\ (x = <<>> <=> f.kind # "try")
  BY DEF SpellsNext
<1>3. PICK q, d, y : /\ d \in Cores(InnerOf(g)) /\ y \in Marks /\ IsCat(q, v, d) /\ IsCat(t, q, y)
                     /\ (y = <<>> <=> g.kind # "try")
  BY DEF SpellsNext
<1>4. Len(p) > 0 /\ p[Len(p)] = c[Len(c)] /\ p[Len(p)] # Question
  BY <1>1, <1>2, CoreEnd, LastOfCat
<1>5. Len(q) > 0 /\ q[Len(q)] = d[Len(d)] /\ q[Len(q)] # Question
  BY <1>1, <1>3, CoreEnd, LastOfCat
<1>6. p = q /\ x = y  BY <1>2, <1>3, <1>4, <1>5, MarksEnd
<1>7. InnerOf(f) = InnerOf(g) /\ Len(c) = Len(d)
  BY <1>1, <1>2, <1>3, <1>4, <1>5, <1>6, CoreTellsFilter
<1>8. u = v  BY <1>2, <1>3, <1>6, <1>7, EqualEnds
<1>9. f = g  BY <1>2, <1>3, <1>6, <1>7, InnerIsPlain
<1> QED  BY <1>8, <1>9

\* A string that ends in a filter is no start of one.
LEMMA FilterIsNoStart ==
  ASSUME NEW t, NEW u, NEW f, f \in Filter, SpellsNext(t, u, f)
  PROVE  t \notin {<<>>, <<Dot>>}
<1>1. PICK p, c, m : c \in Cores(InnerOf(f)) /\ m \in Marks /\ IsCat(p, u, c) /\ IsCat(t, p, m)
  BY DEF SpellsNext
<1>2. Len(p) > 0 /\ p[Len(p)] # Dot  BY <1>1, InnerIsPlain, CoreEnd, LastOfCat
<1>3. Len(p) \in Nat /\ Len(m) \in Nat /\ Len(t) = Len(p) + Len(m) /\ Len(t) >= Len(p)
  BY <1>1, CatIs
<1>4. t[Len(p)] = p[Len(p)]
 <2>1. Len(p) \in 1..Len(p)  BY <1>2, <1>3
 <2> QED  BY <1>1, <2>1, CatIs
<1>5. t # <<>>  BY <1>2, <1>3
<1>6. t # <<Dot>>
 <2> SUFFICES ASSUME t = <<Dot>>  PROVE FALSE  OBVIOUS
 <2> DEFINE n == Len(p)
 <2> HIDE DEF n
 <2>1. n = 1  BY <1>2, <1>3 DEF n
 <2>2. t[n] = Dot  BY <2>1
 <2> QED  BY <1>2, <1>4, <2>2 DEF n
<1> QED  BY <1>5, <1>6

\* The filters of two spellings of one string, from their ends.
LEMMA OneSelectorPerText ==
  ASSUME NEW g, NEW h, NEW s, NEW t,
         g \in Seq(Filter), IsSpelling(s, g),
         h \in Seq(Filter), IsSpelling(t, h),
         s[Len(g)] = t[Len(h)]
  PROVE  g = h
<1>1. Len(g) \in Nat /\ Len(h) \in Nat  OBVIOUS
<1>2. ASSUME NEW fs, NEW u, NEW n, fs \in Seq(Filter), IsSpelling(u, fs), n \in Nat, n # 0, n <= Len(fs)
      PROVE  fs[n] \in Filter /\ SpellsNext(u[n], u[n-1], fs[n]) /\ u[n] \notin {<<>>, <<Dot>>}
 <2>1. n \in 1..Len(fs) /\ fs[n] \in Filter  BY <1>2
 <2>2. SpellsNext(u[n], u[n-1], fs[n])  BY <1>2, <2>1 DEF IsSpelling
 <2> QED  BY <2>1, <2>2, FilterIsNoStart
<1> DEFINE Same(n, m) == n = m /\ \A i \in 1..n : g[i] = h[i]
           T == {n \in Nat : n <= Len(g) => \A m \in Nat : m <= Len(h) /\ s[n] = t[m] => Same(n, m)}
<1>3. 0 \in T
 <2> SUFFICES ASSUME NEW m \in Nat, m <= Len(h), s[0] = t[m]  PROVE Same(0, m)
   OBVIOUS
 <2>1. s[0] \in {<<>>, <<Dot>>}  BY DEF IsSpelling
 <2>2. m = 0  BY <1>2, <2>1
 <2> QED  BY <2>2
<1>4. ASSUME NEW n \in Nat, n \in T  PROVE n + 1 \in T
 <2> SUFFICES ASSUME n + 1 <= Len(g), NEW m \in Nat, m <= Len(h), s[n+1] = t[m]
              PROVE  Same(n + 1, m)
   OBVIOUS
 <2>1. (n + 1) - 1 = n /\ n + 1 \in Nat /\ n + 1 # 0  OBVIOUS
 <2>2. g[n+1] \in Filter /\ SpellsNext(s[n+1], s[n], g[n+1]) /\ s[n+1] \notin {<<>>, <<Dot>>}
   BY <1>2, <2>1
 <2>3. t[0] \in {<<>>, <<Dot>>}  BY DEF IsSpelling
 <2>4. m # 0  BY <2>2, <2>3
 <2>5. h[m] \in Filter /\ SpellsNext(t[m], t[m-1], h[m])  BY <1>2, <2>4
 <2>6. g[n+1] = h[m] /\ s[n] = t[m-1]  BY <2>2, <2>5, LastFilter
 <2>7. n <= Len(g) /\ m - 1 \in Nat /\ m - 1 <= Len(h)  BY <1>1, <2>4
 <2>8. Same(n, m - 1)  BY <1>4, <2>6, <2>7
 <2>9. n + 1 = m /\ \A i \in 1..n+1 : i \in 1..n \/ i = n + 1  BY <2>8
 <2> QED  BY <2>6, <2>8, <2>9
<1>5. Nat \subseteq T
 <2> HIDE DEF T
 <2> QED  BY <1>3, <1>4, SetInduction
<1>6. Same(Len(g), Len(h))  BY <1>1, <1>5
<1> QED  BY <1>6, SeqEqual

\* The lexemes and marks that printing puts in.
LEMMA LexemesOf ==
  /\ Dot \in Lexeme /\ Question \in Lexeme /\ <<>> \in Seq(Lexeme) /\ <<Dot>> \in Seq(Lexeme)
  /\ Marks \subseteq Seq(Lexeme) /\ <<>> \in Marks /\ <<Question>> \in Marks
<1>1. Dot \in Lexeme /\ Question \in Lexeme  BY DEF Lexeme
<1>2. {Question} \subseteq Lexeme  BY <1>1
<1>3. Seq({Question}) \subseteq Seq(Lexeme)  BY <1>2, SeqMonotonic
<1> QED  BY <1>1, <1>3 DEF Marks

\* Three texts in a row, bracketed either way.
LEMMA CatOfCat ==
  ASSUME NEW t, NEW u, NEW x, NEW v, NEW w, IsCat(t, u, x), IsCat(x, v, w)
  PROVE  IsCat(u \o v, u, v) /\ IsCat(t, u \o v, w)
<1>1. u \in Seq(Lexeme) /\ v \in Seq(Lexeme) /\ w \in Seq(Lexeme)  BY DEF IsCat
<1>2. t = u \o (v \o w)  BY DEF IsCat
<1>3. u \o v \in Seq(Lexeme)  BY <1>1, ConcatProperties
<1>4. u \o (v \o w) = (u \o v) \o w  BY <1>1
<1> QED  BY <1>1, <1>2, <1>3, <1>4, Zenon DEF IsCat

\* A string that goes on with a word goes on with its filter.
LEMMA WordIsNext ==
  ASSUME NEW u, NEW w, NEW f, u \in Seq(Lexeme), f \in Filter, IsWord(w, f)
  PROVE  SpellsNext(u \o w, u, f) /\ u \o w \in Seq(Lexeme)
<1>1. PICK c, m : c \in Cores(InnerOf(f)) /\ m \in Marks /\ w = c \o m /\ (m = <<>> <=> f.kind # "try")
  BY DEF IsWord
<1>2. c \in Seq(Lexeme) /\ m \in Seq(Lexeme)
  BY <1>1, InnerIsPlain, CoreEnd, LexemesOf
<1>3. w \in Seq(Lexeme)  BY <1>1, <1>2, ConcatProperties
<1>4. IsCat(w, c, m) /\ IsCat(u \o w, u, w)
  BY <1>1, <1>2, <1>3, Zenon DEF IsCat
<1>5. IsCat(u \o c, u, c) /\ IsCat(u \o w, u \o c, m)  BY <1>4, CatOfCat, Zenon
<1>6. u \o w \in Seq(Lexeme)  BY <1>3, ConcatProperties
<1> QED  BY <1>1, <1>5, <1>6, Zenon DEF SpellsNext

\* Words in a row spell the filters they are words of.
LEMMA WordsSpell ==
  ASSUME NEW o, NEW fs, fs \in Seq(Filter), o[0] \in {<<>>, <<Dot>>},
         \A n \in 1..Len(fs) : \E w : IsWord(w, fs[n]) /\ o[n] = o[n-1] \o w
  PROVE  IsSpelling(o, fs) /\ \A n \in 0..Len(fs) : o[n] \in Seq(Lexeme)
<1> DEFINE T == {n \in Nat : n <= Len(fs) => o[n] \in Seq(Lexeme)}
<1>1. 0 \in T  BY LexemesOf
<1>2. ASSUME NEW n \in Nat, n + 1 <= Len(fs), o[n] \in Seq(Lexeme)
      PROVE  SpellsNext(o[n+1], o[n], fs[n+1]) /\ o[n+1] \in Seq(Lexeme)
 <2>1. n + 1 \in 1..Len(fs) /\ (n + 1) - 1 = n /\ fs[n+1] \in Filter  BY <1>2
 <2>2. PICK w : IsWord(w, fs[n+1]) /\ o[n+1] = o[n] \o w  BY <2>1
 <2> QED  BY <1>2, <2>1, <2>2, WordIsNext
<1>3. ASSUME NEW n \in Nat, n \in T  PROVE n + 1 \in T
 <2> SUFFICES ASSUME n + 1 <= Len(fs)  PROVE o[n+1] \in Seq(Lexeme)  OBVIOUS
 <2>1. o[n] \in Seq(Lexeme)  BY <1>3
 <2> QED  BY <1>2, <2>1
<1>4. Nat \subseteq T
 <2> HIDE DEF T
 <2> QED  BY <1>1, <1>3, SetInduction
<1>5. \A n \in 0..Len(fs) : o[n] \in Seq(Lexeme)  BY <1>4
<1>6. ASSUME NEW n \in 1..Len(fs)  PROVE SpellsNext(o[n], o[n-1], fs[n])
 <2>1. n - 1 \in Nat /\ (n - 1) + 1 = n /\ (n - 1) + 1 <= Len(fs) /\ o[n-1] \in Seq(Lexeme)
   BY <1>5
 <2> DEFINE k == n - 1
 <2> HIDE DEF k
 <2>2. k \in Nat /\ k + 1 = n /\ k + 1 <= Len(fs) /\ o[k] \in Seq(Lexeme)
   BY <2>1 DEF k
 <2>3. SpellsNext(o[n], o[k], fs[n])  BY <1>2, <2>2
 <2> QED  BY <2>3 DEF k
<1> QED  BY <1>5, <1>6 DEF IsSpelling

\* A run of words has its joins.
LEMMA JoinExists ==
  ASSUME NEW start, NEW ws, NEW length \in Nat
  PROVE  \E o : IsJoin(o, start, ws, length)
<1> DEFINE T == {n \in Nat : \E o : IsJoin(o, start, ws, n)}
<1>1. 0 \in T
 <2>1. IsJoin([n \in 0..0 |-> start], start, ws, 0)  BY DEF IsJoin
 <2> QED  BY <2>1
<1>2. ASSUME NEW n \in Nat, n \in T  PROVE n + 1 \in T
 <2>1. PICK w : IsJoin(w, start, ws, n)  BY <1>2
 <2> DEFINE v == [m \in 0..n+1 |-> IF m = 0 THEN start ELSE w[m-1] \o ws[m]]
 <2>2. \A m \in 0..n : v[m] = w[m]  BY <2>1 DEF IsJoin
 <2>3. \A m \in 0..n+1 : m # 0 => v[m-1] = w[m-1]
  <3>1. \A m \in 0..n+1 : m # 0 => m - 1 \in 0..n  OBVIOUS
  <3> HIDE DEF v
  <3> QED  BY <2>2, <3>1
 <2>4. v = [m \in 0..n+1 |-> IF m = 0 THEN start ELSE v[m-1] \o ws[m]]
   BY <2>3, Zenon
 <2> HIDE DEF v
 <2>5. IsJoin(v, start, ws, n + 1)  BY <2>4 DEF IsJoin
 <2> QED  BY <2>5
<1> HIDE DEF T
<1>3. length \in T  BY <1>1, <1>2, SetInduction
<1> QED  BY <1>3 DEF T

\* toString writes a word for each filter.
LEMMA FilterWord ==
  ASSUME NEW f, f \in Filter
  PROVE  IsWord(FilterToString(f), f)
<1> DEFINE c == PlainToString(InnerOf(f))
<1>1. c \in Cores(InnerOf(f))  BY DEF PlainToString, Cores
<1>2. c \in Seq(Lexeme)  BY <1>1, InnerIsPlain, CoreEnd
<1>3. CASE f.kind = "try"
 <2>1. FilterToString(f) = c \o <<Question>>
   BY <1>3 DEF FilterToString, InnerOf
 <2>2. <<Question>> # <<>>  OBVIOUS
 <2> HIDE DEF c
 <2> QED  BY <1>1, <1>3, <2>1, <2>2, LexemesOf, Zenon DEF IsWord
<1>4. CASE f.kind # "try"
 <2>1. FilterToString(f) = c  BY <1>4 DEF FilterToString, InnerOf
 <2> HIDE DEF c
 <2>2. c = c \o <<>>  BY <1>2, ConcatEmptySeq
 <2> QED  BY <1>1, <1>4, <2>1, <2>2, LexemesOf, Zenon DEF IsWord
<1> QED  BY <1>3, <1>4

\* Select.toString joins the texts of the filters, behind a dot unless the first
\* is a dot field.
LEMMA ToStringIs ==
  ASSUME NEW fs, fs \in Seq(Filter)
  PROVE  \E o : /\ IsOut(o, fs)
                /\ ToString(fs) = IF fs = <<>> THEN <<Dot>>
                                  ELSE IF IsDotField(fs[1]) THEN o[Len(fs)] ELSE <<Dot>> \o o[Len(fs)]
<1> DEFINE ws == [n \in 1..Len(fs) |-> FilterToString(fs[n])]
<1>1. PICK w : IsJoin(w, <<>>, ws, Len(fs))
 <2>1. Len(fs) \in Nat  OBVIOUS
 <2> HIDE DEF ws
 <2> QED  BY <2>1, JoinExists
<1>2. \A n \in 0..Len(fs) : n # 0 => ws[n] = FilterToString(fs[n])  OBVIOUS
<1> HIDE DEF ws
<1>3. IsOut(w, fs)  BY <1>1, <1>2, Zenon DEF IsJoin, IsOut
<1> DEFINE o == CHOOSE v : IsOut(v, fs)
<1>4. IsOut(o, fs)  BY <1>3
<1>5. ToString(fs) = IF fs = <<>> THEN <<Dot>>
                     ELSE IF IsDotField(fs[1]) THEN o[Len(fs)] ELSE <<Dot>> \o o[Len(fs)]
  BY Zenon DEF ToString, IsOut
<1> QED  BY <1>4, <1>5

\* The texts of the filters, joined, spell the selector.
LEMMA OutSpells ==
  ASSUME NEW fs, NEW o, fs \in Seq(Filter), IsOut(o, fs)
  PROVE  /\ o[0] = <<>>
         /\ \A n \in 1..Len(fs) : IsWord(FilterToString(fs[n]), fs[n]) /\ o[n] = o[n-1] \o FilterToString(fs[n])
         /\ Spells(o[Len(fs)], fs)
<1>1. Len(fs) \in Nat  OBVIOUS
<1>2. o[0] = <<>> /\ \A n \in 1..Len(fs) : o[n] = o[n-1] \o FilterToString(fs[n])
 <2>1. 0 \in 0..Len(fs) /\ \A n \in 1..Len(fs) : n \in 0..Len(fs) /\ n # 0
   BY <1>1
 <2> QED  BY <2>1, Zenon DEF IsOut
<1>3. \A n \in 1..Len(fs) : IsWord(FilterToString(fs[n]), fs[n])
 <2>1. \A n \in 1..Len(fs) : fs[n] \in Filter  OBVIOUS
 <2> QED  BY <2>1, FilterWord
<1>4. \A n \in 1..Len(fs) : \E w : IsWord(w, fs[n]) /\ o[n] = o[n-1] \o w
  BY <1>2, <1>3, Zenon
<1>5. o[0] \in {<<>>, <<Dot>>}  BY <1>2
<1>6. IsSpelling(o, fs) /\ \A n \in 0..Len(fs) : o[n] \in Seq(Lexeme)
  BY <1>4, <1>5, WordsSpell, Zenon
<1>7. Len(fs) \in 0..Len(fs)  BY <1>1
<1> QED  BY <1>2, <1>3, <1>6, <1>7, Zenon DEF Spells

\* And a string that is such with a dot before it.
LEMMA DottedSpells ==
  ASSUME NEW fs, NEW o, fs \in Seq(Filter), IsOut(o, fs)
  PROVE  Spells(<<Dot>> \o o[Len(fs)], fs)
<1>1. Len(fs) \in Nat  OBVIOUS
<1> DEFINE s == [n \in 0..Len(fs) |-> <<Dot>> \o o[n]]
<1>2. /\ o[0] = <<>>
      /\ \A n \in 1..Len(fs) : IsWord(FilterToString(fs[n]), fs[n]) /\ o[n] = o[n-1] \o FilterToString(fs[n])
  BY OutSpells, Zenon
<1>3. \A n \in 1..Len(fs) : \E w : IsWord(w, fs[n]) /\ o[n] = o[n-1] \o w
  BY <1>2, Zenon
<1>4. \A n \in 0..Len(fs) : o[n] \in Seq(Lexeme)
 <2>1. o[0] \in {<<>>, <<Dot>>}  BY <1>2
 <2> QED  BY <1>3, <2>1, WordsSpell, Zenon
<1>5. s[0] \in {<<>>, <<Dot>>}
 <2>1. <<Dot>> \o <<>> = <<Dot>>  BY LexemesOf, ConcatEmptySeq
 <2>2. s[0] = <<Dot>> \o o[0]  BY <1>1
 <2> QED  BY <1>2, <2>1, <2>2
<1>6. ASSUME NEW n \in 1..Len(fs)
      PROVE  s[n] = s[n-1] \o FilterToString(fs[n])
 <2>1. PICK c, m : c \in Cores(InnerOf(fs[n])) /\ m \in Marks /\ FilterToString(fs[n]) = c \o m
   BY <1>2 DEF IsWord
 <2>2. fs[n] \in Filter  OBVIOUS
 <2>3. c \in Seq(Lexeme) /\ m \in Seq(Lexeme)
   BY <2>1, <2>2, InnerIsPlain, CoreEnd, LexemesOf
 <2>4. FilterToString(fs[n]) \in Seq(Lexeme)  BY <2>1, <2>3, ConcatProperties
 <2>5. n \in 0..Len(fs) /\ n - 1 \in 0..Len(fs) /\ o[n-1] \in Seq(Lexeme)
   BY <1>4
 <2>6. s[n] = <<Dot>> \o o[n] /\ s[n-1] = <<Dot>> \o o[n-1] /\ o[n] = o[n-1] \o FilterToString(fs[n])
   BY <1>2, <2>5
 <2> HIDE DEF s
 <2>7. IsCat(s[n], <<Dot>>, o[n]) /\ IsCat(o[n], o[n-1], FilterToString(fs[n]))
   BY <1>4, <2>4, <2>5, <2>6, LexemesOf, Zenon DEF IsCat
 <2>8. IsCat(s[n], <<Dot>> \o o[n-1], FilterToString(fs[n]))
   BY <2>7, CatOfCat, Zenon
 <2> QED  BY <2>6, <2>8, Zenon DEF IsCat
<1>7. s[Len(fs)] = <<Dot>> \o o[Len(fs)]  BY <1>1
<1> HIDE DEF s
<1>8. \A n \in 1..Len(fs) : \E w : IsWord(w, fs[n]) /\ s[n] = s[n-1] \o w
  BY <1>2, <1>6, Zenon
<1>9. IsSpelling(s, fs) /\ \A n \in 0..Len(fs) : s[n] \in Seq(Lexeme)
  BY <1>5, <1>8, WordsSpell, Zenon
<1>10. Len(fs) \in 0..Len(fs)  BY <1>1
<1> QED  BY <1>7, <1>9, <1>10, Zenon DEF Spells

\* What toString writes spells the selector.
LEMMA ToStringSpells ==
  ASSUME NEW fs, fs \in Seq(Filter)
  PROVE  Spells(ToString(fs), fs)
<1>1. PICK o : /\ IsOut(o, fs)
               /\ ToString(fs) = IF fs = <<>> THEN <<Dot>>
                                 ELSE IF IsDotField(fs[1]) THEN o[Len(fs)] ELSE <<Dot>> \o o[Len(fs)]
  BY ToStringIs
<1>2. CASE fs = <<>>
 <2>1. o[Len(fs)] = <<>>  BY <1>1, <1>2, OutSpells
 <2>2. <<Dot>> \o <<>> = <<Dot>>  BY LexemesOf, ConcatEmptySeq
 <2> QED  BY <1>1, <1>2, <2>1, <2>2, DottedSpells, Zenon
<1>3. CASE fs # <<>>  BY <1>1, <1>3, OutSpells, DottedSpells, Zenon
<1> QED  BY <1>2, <1>3

----------------------------------------------------------------------------
(* The spellings of other implementations                                  *)

\* What another implementation writes: every filter in brackets, the printed text
\* without a doubled dot, or that with one mark more.
LEMMA SpellingsAre ==
  ASSUME NEW fs, fs \in Seq(Filter)
  PROVE  \E o : /\ IsBrackets(o, fs)
                /\ Spellings(fs) = {o[Len(fs)], Jq(fs),
                     Jq(fs) \o (IF Jq(fs)[Len(Jq(fs))] = Question THEN <<Question>> ELSE <<>>)}
<1> DEFINE ws == [n \in 1..Len(fs) |-> Respelled(fs[n])]
<1>1. PICK w : IsJoin(w, <<Dot>>, ws, Len(fs))
 <2>1. Len(fs) \in Nat  OBVIOUS
 <2> HIDE DEF ws
 <2> QED  BY <2>1, JoinExists
<1>2. \A n \in 0..Len(fs) : n # 0 => ws[n] = Respelled(fs[n])  OBVIOUS
<1> HIDE DEF ws
<1>3. IsBrackets(w, fs)  BY <1>1, <1>2, Zenon DEF IsJoin, IsBrackets
<1> DEFINE o == CHOOSE v : IsBrackets(v, fs)
<1>4. IsBrackets(o, fs)  BY <1>3
<1>5. Spellings(fs) = {o[Len(fs)], Jq(fs),
        Jq(fs) \o (IF Jq(fs)[Len(Jq(fs))] = Question THEN <<Question>> ELSE <<>>)}
  BY Zenon DEF Spellings, IsBrackets, Jq, Respelled
<1> QED  BY <1>4, <1>5

\* Two lexemes in a row.
LEMMA TwoLexemes ==
  ASSUME NEW a, NEW b
  PROVE  <<a>> \o <<b>> = <<a, b>> /\ <<b>> # <<>>
<1>1. <<a>> \in Seq({a, b}) /\ <<b>> \in Seq({a, b}) /\ <<a, b>> \in Seq({a, b})
  OBVIOUS
<1>2. <<a>> \o <<b>> \in Seq({a, b}) /\ Len(<<a>> \o <<b>>) = 2  BY <1>1
<1>3. \A n \in 1..2 : (<<a>> \o <<b>>)[n] = <<a, b>>[n]  OBVIOUS
<1>4. <<a>> \o <<b>> = <<a, b>>  BY <1>1, <1>2, <1>3, SeqEqual
<1> QED  BY <1>4

\* Every key in brackets.
LEMMA BracketsSpell ==
  ASSUME NEW fs, NEW o, fs \in Seq(Filter), IsBrackets(o, fs)
  PROVE  Spells(o[Len(fs)], fs)
<1>1. Len(fs) \in Nat  OBVIOUS
<1>2. o[0] = <<Dot>> /\ \A n \in 1..Len(fs) : o[n] = o[n-1] \o Respelled(fs[n])
 <2>1. 0 \in 0..Len(fs) /\ \A n \in 1..Len(fs) : n \in 0..Len(fs) /\ n # 0
   BY <1>1
 <2> QED  BY <2>1, Zenon DEF IsBrackets
<1>3. ASSUME NEW f \in Filter  PROVE IsWord(Respelled(f), f)
 <2> DEFINE c == <<Bracket(InnerOf(f))>>
 <2>1. c \in Cores(InnerOf(f))  BY DEF Cores
 <2>2. CASE f.kind = "try"
  <3>1. Respelled(f) = <<Bracket(InnerOf(f)), Question>>
    BY <2>2 DEF Respelled, InnerOf
  <3>2. c \o <<Question>> = <<Bracket(InnerOf(f)), Question>> /\ <<Question>> # <<>>
    BY TwoLexemes
  <3> HIDE DEF c
  <3>3. Respelled(f) = c \o <<Question>>  BY <3>1, <3>2, Zenon
  <3> QED  BY <2>1, <2>2, <3>2, <3>3, LexemesOf, Zenon DEF IsWord
 <2>3. CASE f.kind # "try"
  <3>1. Respelled(f) = c  BY <2>3 DEF Respelled, InnerOf
  <3>2. c = c \o <<>>  OBVIOUS
  <3> HIDE DEF c
  <3> QED  BY <2>1, <2>3, <3>1, <3>2, LexemesOf, Zenon DEF IsWord
 <2> QED  BY <2>2, <2>3
<1>4. \A n \in 1..Len(fs) : \E w : IsWord(w, fs[n]) /\ o[n] = o[n-1] \o w
 <2>1. \A n \in 1..Len(fs) : fs[n] \in Filter  OBVIOUS
 <2> QED  BY <1>2, <1>3, <2>1, Zenon
<1>5. o[0] \in {<<>>, <<Dot>>}  BY <1>2
<1>6. IsSpelling(o, fs) /\ \A n \in 0..Len(fs) : o[n] \in Seq(Lexeme)
  BY <1>4, <1>5, WordsSpell, Zenon
<1>7. Len(fs) \in 0..Len(fs)  BY <1>1
<1> QED  BY <1>6, <1>7, Zenon DEF Spells

\* Without the dot that toString puts before an optional key.
LEMMA JqSpells ==
  ASSUME NEW fs, fs \in Seq(Filter)
  PROVE  Spells(Jq(fs), fs)
<1>1. CASE Jq(fs) = ToString(fs)  BY <1>1, ToStringSpells
<1>2. CASE Jq(fs) # ToString(fs)
 <2>1. fs # <<>> /\ fs[1].kind = "try" /\ Jq(fs) = Tail(ToString(fs))
   BY <1>2 DEF Jq
 <2>2. PICK o : /\ IsOut(o, fs)
                /\ ToString(fs) = IF fs = <<>> THEN <<Dot>>
                                  ELSE IF IsDotField(fs[1]) THEN o[Len(fs)] ELSE <<Dot>> \o o[Len(fs)]
   BY ToStringIs
 <2>3. ToString(fs) = <<Dot>> \o o[Len(fs)]  BY <2>1, <2>2 DEF IsDotField
 <2> DEFINE x == o[Len(fs)]
 <2>4. Spells(x, fs)  BY <2>2, OutSpells
 <2> HIDE DEF x
 <2>5. x \in Seq(Lexeme)  BY <2>4 DEF Spells
 <2>6. Tail(<<Dot>> \o x) = x  BY <2>5
 <2> QED  BY <2>1, <2>3, <2>4, <2>6 DEF x
<1> QED  BY <1>1, <1>2

\* One more mark after marks changes nothing.
LEMMA MoreMarks ==
  ASSUME NEW t, NEW fs, fs \in Seq(Filter), Spells(t, fs), t[Len(t)] = Question, t # <<>>
  PROVE  Spells(t \o <<Question>>, fs)
<1> DEFINE length == Len(fs)
           more == t \o <<Question>>
<1>1. length \in Nat /\ t \in Seq(Lexeme)  BY DEF Spells
<1>2. PICK s : IsSpelling(s, fs) /\ s[length] = t  BY DEF Spells
<1>3. length # 0
 <2> SUFFICES ASSUME length = 0  PROVE FALSE  OBVIOUS
 <2>1. t = <<Dot>>  BY <1>2 DEF IsSpelling
 <2>2. t[Len(t)] = Dot  BY <2>1
 <2> QED  BY <2>2, LexemesDiffer
<1>4. length \in 1..length /\ fs[length] \in Filter  BY <1>1, <1>3
<1> HIDE DEF length
<1>5. SpellsNext(t, s[length-1], fs[length])
  BY <1>2, <1>4 DEF IsSpelling, length
<1>6. PICK p, c, m : /\ c \in Cores(InnerOf(fs[length])) /\ m \in Marks
                     /\ IsCat(p, s[length-1], c) /\ IsCat(t, p, m)
                     /\ (m = <<>> <=> fs[length].kind # "try")
  BY <1>5 DEF SpellsNext
<1>7. m # <<>>
 <2> SUFFICES ASSUME m = <<>>  PROVE FALSE  OBVIOUS
 <2>1. t = p  BY <1>6 DEF IsCat
 <2>2. p[Len(p)] = c[Len(c)] /\ c[Len(c)] # Question
   BY <1>4, <1>6, InnerIsPlain, CoreEnd, LastOfCat
 <2> QED  BY <2>1, <2>2
<1>8. m \o <<Question>> \in Marks /\ m \o <<Question>> # <<>>  BY <1>6 DEF Marks
<1>9. IsCat(more, t, <<Question>>)  BY <1>1, LexemesOf DEF IsCat
<1>10. IsCat(more, p, m \o <<Question>>)
 <2>1. p \in Seq(Lexeme) /\ m \in Seq(Lexeme) /\ t = p \o m /\ more = t \o <<Question>>
   BY <1>6 DEF IsCat
 <2>2. m \o <<Question>> \in Seq(Lexeme)  BY <1>8, LexemesOf
 <2>3. (p \o m) \o <<Question>> = p \o (m \o <<Question>>)  BY <2>1
 <2> HIDE DEF more
 <2> QED  BY <2>1, <2>2, <2>3, Zenon DEF IsCat
<1>11. more \in Seq(Lexeme)  BY <1>1, LexemesOf, ConcatProperties
<1> HIDE DEF more
<1>12. SpellsNext(more, s[length-1], fs[length])
  BY <1>6, <1>7, <1>8, <1>10, Zenon DEF SpellsNext
<1> DEFINE r == [n \in 0..length |-> IF n = length THEN more ELSE s[n]]
<1>13. r[length] = more /\ r[0] = s[0] /\ \A n \in 1..length : n # length => r[n] = s[n]
  BY <1>1, <1>3
<1>14. \A n \in 1..length : r[n-1] = s[n-1]  BY <1>1
<1> HIDE DEF r
<1>15. IsSpelling(r, fs)
 <2>1. r[0] \in {<<>>, <<Dot>>}  BY <1>2, <1>13 DEF IsSpelling
 <2>2. ASSUME NEW n \in 1..length  PROVE SpellsNext(r[n], r[n-1], fs[n])
  <3>1. CASE n = length  BY <1>12, <1>13, <1>14, <3>1
  <3>2. CASE n # length
   <4>1. r[n] = s[n] /\ r[n-1] = s[n-1]  BY <1>13, <1>14, <3>2
   <4>2. SpellsNext(s[n], s[n-1], fs[n])  BY <1>2 DEF IsSpelling, length
   <4> QED  BY <4>1, <4>2
  <3> QED  BY <3>1, <3>2
 <2> QED  BY <2>1, <2>2 DEF IsSpelling, length
<1> QED  BY <1>11, <1>13, <1>15 DEF Spells, length, more

\* Whatever another implementation writes for a selector spells it.
LEMMA SpellingsSpell ==
  ASSUME NEW fs, NEW t, fs \in Seq(Filter), t \in Spellings(fs)
  PROVE  Spells(t, fs)
<1>1. PICK o : /\ IsBrackets(o, fs)
               /\ Spellings(fs) = {o[Len(fs)], Jq(fs),
                    Jq(fs) \o (IF Jq(fs)[Len(Jq(fs))] = Question THEN <<Question>> ELSE <<>>)}
  BY SpellingsAre
<1>2. Spells(o[Len(fs)], fs)  BY <1>1, BracketsSpell
<1> DEFINE jq == Jq(fs)
<1>3. Spells(jq, fs)  BY JqSpells
<1> HIDE DEF jq
<1>4. jq \in Seq(Lexeme)  BY <1>3 DEF Spells
<1>8. jq # <<>>
 <2> SUFFICES ASSUME jq = <<>>  PROVE FALSE  OBVIOUS
 <2>1. PICK s : IsSpelling(s, fs) /\ s[Len(fs)] = <<>>  BY <1>3 DEF Spells
 <2>2. CASE Len(fs) = 0
  <3>1. fs = <<>>  BY <2>2
  <3>2. jq = <<Dot>>  BY <3>1, Zenon DEF jq, Jq, ToString
  <3> QED  BY <3>2
 <2>3. CASE Len(fs) # 0
  <3>1. Len(fs) \in 1..Len(fs) /\ fs[Len(fs)] \in Filter  BY <2>3
  <3>2. SpellsNext(<<>>, s[Len(fs)-1], fs[Len(fs)])
    BY <2>1, <3>1 DEF IsSpelling
  <3> QED  BY <3>1, <3>2, FilterIsNoStart
 <2> QED  BY <2>2, <2>3
<1>5. CASE t = o[Len(fs)] \/ t = jq  BY <1>2, <1>3, <1>5
<1>6. CASE t = jq \o <<Question>> /\ jq[Len(jq)] = Question /\ jq # <<>>
  BY <1>3, <1>6, MoreMarks
<1>7. CASE t = jq \o <<>>  BY <1>3, <1>4, <1>7
<1> QED  BY <1>1, <1>5, <1>6, <1>7, <1>8 DEF jq

----------------------------------------------------------------------------
(* What the parser reads                                                   *)

\* A name and a bracket carry a field and a plain filter.
LEMMA LexemeKinds ==
  ASSUME NEW x, x \in Lexeme
  PROVE  /\ x.lex = "name" => x = Name(x.key) /\ x.key \in DotKey
         /\ x.lex = "bracket" => x = Bracket(x.filter) /\ x.filter \in Plain
<1>1. CASE x = Dot \/ x = Question  BY <1>1 DEF Dot, Question
<1>2. CASE \E k \in DotKey : x = Name(k)  BY <1>2 DEF Name
<1>3. CASE \E f \in Plain : x = Bracket(f)  BY <1>3 DEF Bracket
<1> QED  BY <1>1, <1>2, <1>3 DEF Lexeme

\* There is a lexeme where there is no end.
LEMMA LexAtIs ==
  ASSUME NEW s, NEW p, s \in Seq(Lexeme), p \in Int, LexAt(s, p) # "end"
  PROVE  p >= 1 /\ p <= Len(s) /\ s[p] \in Lexeme /\ LexAt(s, p) = s[p].lex
BY DEF LexAt

\* The parser of dot fields fails, or finds a plain filter and moves on.
LEMMA DotFieldFound ==
  ASSUME NEW s, NEW q, s \in Seq(Lexeme), q \in Nat
  PROVE  IsFound(DotFieldAt(s, q), Plain, q, s)
<1> SUFFICES ASSUME LexAt(s, q) = ".", LexAt(s, q + 1) = "name"
             PROVE  IsFound([read |-> <<Field(s[q+1].key)>>, next |-> q + 2], Plain, q, s)
  BY DEF DotFieldAt, IsFound
<1>1. q + 1 <= Len(s) /\ s[q+1] \in Lexeme /\ s[q+1].lex = "name"
 <2>1. q + 1 \in Int /\ LexAt(s, q + 1) # "end"  OBVIOUS
 <2> QED  BY <2>1, LexAtIs
<1>2. s[q+1].key \in DotKey  BY <1>1, LexemeKinds
<1>3. Field(s[q+1].key) \in Plain  BY <1>2 DEF Plain, Key
<1>4. q + 2 \in Nat /\ q + 2 > q /\ q + 2 <= Len(s) + 1  BY <1>1
<1> QED  BY <1>3, <1>4 DEF IsFound

\* So do the alternatives of parseNonTry.
LEMMA PlainFound ==
  ASSUME NEW s, NEW q, s \in Seq(Lexeme), q \in Nat
  PROVE  IsFound(PlainAt(s, q), Plain, q, s)
<1>1. CASE LexAt(s, q) = "bracket"
 <2>1. q <= Len(s) /\ s[q] \in Lexeme /\ s[q].lex = "bracket"
  <3>1. q \in Int /\ LexAt(s, q) # "end"  BY <1>1
  <3> QED  BY <1>1, <3>1, LexAtIs
 <2>2. s[q].filter \in Plain  BY <2>1, LexemeKinds
 <2>3. q + 1 \in Nat /\ q + 1 > q /\ q + 1 <= Len(s) + 1  BY <2>1
 <2>4. PlainAt(s, q) = [read |-> <<s[q].filter>>, next |-> q + 1]
   BY <1>1 DEF PlainAt
 <2> QED  BY <2>2, <2>3, <2>4 DEF IsFound
<1>2. CASE LexAt(s, q) # "bracket"  BY <1>2, DotFieldFound DEF PlainAt
<1> QED  BY <1>1, <1>2

\* The marks end somewhere.
LEMMA AfterMarksIs ==
  ASSUME NEW s, NEW p, s \in Seq(Lexeme), p \in Nat, p <= Len(s) + 1
  PROVE  AfterMarks(s, p) \in Nat /\ p <= AfterMarks(s, p) /\ AfterMarks(s, p) <= Len(s) + 1
<1> DEFINE T == {q \in Nat : q >= p /\ q <= Len(s) + 1 /\ LexAt(s, q) # "?"}
<1>1. Len(s) + 1 \in T
 <2>1. Len(s) \in Nat  OBVIOUS
 <2>2. LexAt(s, Len(s) + 1) = "end"  BY <2>1 DEF LexAt
 <2> QED  BY <2>1, <2>2
<1>2. PICK q \in T : \A m \in T : q <= m
 <2>1. T \in SUBSET Nat /\ T # {}  BY <1>1
 <2> HIDE DEF T
 <2> QED  BY <2>1, LeastNumber
<1>3. q \in p..Len(s) + 1 /\ LexAt(s, q) # "?" /\ \A r \in p..q-1 : LexAt(s, r) = "?"
  BY <1>2
<1>4. AfterMarks(s, p) \in p..Len(s) + 1  BY <1>3 DEF AfterMarks
<1> QED  BY <1>4

\* A plain filter and the marks behind it are a filter.
LEMMA MarkedFound ==
  ASSUME NEW s, NEW x, NEW q, s \in Seq(Lexeme), q \in Nat, IsFound(x, Plain, q, s)
  PROVE  IsFound(Marked(s, x), Filter, q, s)
<1>1. Plain \subseteq Filter /\ \A f \in Plain : Try(f) \in Filter
  BY DEF Filter
<1>2. CASE x = Nothing  BY <1>2 DEF Marked, IsFound
<1>3. CASE x # Nothing
 <2>1. PICK f \in Plain : x.read = <<f>>  BY <1>3 DEF IsFound
 <2>2. x.next \in Nat /\ x.next > q /\ x.next <= Len(s) + 1
   BY <1>3 DEF IsFound
 <2>3. CASE LexAt(s, x.next) # "?"
   BY <1>1, <2>1, <2>2, <2>3 DEF Marked, IsFound
 <2>4. CASE LexAt(s, x.next) = "?"
  <3>1. Marked(s, x) = [read |-> <<Try(f)>>, next |-> AfterMarks(s, x.next)]
    BY <1>3, <2>1, <2>4 DEF Marked
  <3>2. /\ AfterMarks(s, x.next) \in Nat /\ AfterMarks(s, x.next) > q
        /\ AfterMarks(s, x.next) <= Len(s) + 1
    BY <2>2, AfterMarksIs
  <3> QED  BY <1>1, <3>1, <3>2 DEF IsFound
 <2> QED  BY <2>3, <2>4
<1> QED  BY <1>2, <1>3

\* One turn of parseMany fails, or finds a filter and moves on.
LEMMA TurnFound ==
  ASSUME NEW s, NEW q, s \in Seq(Lexeme), q \in Nat
  PROVE  IsFound(Marked(s, PlainAt(s, q)), Filter, q, s)
BY PlainFound, MarkedFound

\* A turn looks only at what comes after it.
LEMMA ManyAtLater ==
  ASSUME NEW s, NEW q, NEW g, NEW h, s \in Seq(Lexeme), q \in Nat,
         \A p \in Nat : p > q /\ p <= Len(s) + 1 => g[p] = h[p]
  PROVE  ManyAt(g, s, q) = ManyAt(h, s, q)
<1> DEFINE one == Marked(s, PlainAt(s, q))
<1>1. IsFound(one, Filter, q, s)  BY TurnFound
<1> HIDE DEF one
<1>2. one = Nothing \/ g[one.next] = h[one.next]  BY <1>1 DEF IsFound
<1> QED  BY <1>2, Zenon DEF ManyAt, one

\* parseMany ends: every turn takes a lexeme.
LEMMA ManyExists ==
  ASSUME NEW s, s \in Seq(Lexeme)
  PROVE  \E many : IsMany(many, s, 1)
<1>1. Len(s) \in Nat  OBVIOUS
<1> DEFINE T == {n \in Nat : n <= Len(s) => \E many : IsMany(many, s, Len(s) + 1 - n)}
<1>2. ASSUME NEW from \in Nat, NEW g, IsMany(g, s, from + 1) \/ from = Len(s) + 1, from <= Len(s) + 1
      PROVE  \E many : IsMany(many, s, from)
 <2> DEFINE v == [q \in from..Len(s) + 1 |-> ManyAt(g, s, q)]
 <2>1. ASSUME NEW p \in Nat, p > from, p <= Len(s) + 1  PROVE v[p] = g[p]
  <3>1. IsMany(g, s, from + 1) /\ p \in from + 1 .. Len(s) + 1 /\ p \in from..Len(s) + 1
    BY <1>1, <1>2, <2>1
  <3>2. g[p] = ManyAt(g, s, p)  BY <3>1, Zenon DEF IsMany
  <3>3. v[p] = ManyAt(g, s, p)  BY <3>1
  <3> QED  BY <3>2, <3>3
 <2>2. v = [q \in from..Len(s) + 1 |-> ManyAt(g, s, q)]  OBVIOUS
 <2> HIDE DEF v
 <2>3. ASSUME NEW q \in from..Len(s) + 1  PROVE ManyAt(g, s, q) = ManyAt(v, s, q)
  <3>1. q \in Nat /\ \A p \in Nat : p > q /\ p <= Len(s) + 1 => g[p] = v[p]
    BY <1>1, <2>1
  <3> QED  BY <3>1, ManyAtLater
 <2>4. IsMany(v, s, from)  BY <2>2, <2>3, Zenon DEF IsMany
 <2> QED  BY <2>4
<1>3. 0 \in T
 <2>1. Len(s) + 1 - 0 = Len(s) + 1 /\ Len(s) + 1 \in Nat  BY <1>1
 <2>2. \E many : IsMany(many, s, Len(s) + 1)  BY <1>2, <2>1
 <2> QED  BY <2>1, <2>2
<1>4. ASSUME NEW n \in Nat, n \in T  PROVE n + 1 \in T
 <2> SUFFICES ASSUME n + 1 <= Len(s)  PROVE \E many : IsMany(many, s, Len(s) + 1 - (n + 1))
   OBVIOUS
 <2> DEFINE from == Len(s) + 1 - (n + 1)
 <2>1. from \in Nat /\ from <= Len(s) + 1 /\ from + 1 = Len(s) + 1 - n /\ n <= Len(s)
   BY <1>1
 <2> HIDE DEF from
 <2>2. PICK g : IsMany(g, s, from + 1)  BY <1>4, <2>1
 <2>3. \E many : IsMany(many, s, from)  BY <1>2, <2>1, <2>2
 <2> QED  BY <2>3 DEF from
<1>5. Nat \subseteq T
 <2> HIDE DEF T
 <2> QED  BY <1>3, <1>4, SetInduction
<1>6. \E many : IsMany(many, s, Len(s) + 1 - Len(s))  BY <1>1, <1>5
<1>7. Len(s) + 1 - Len(s) = 1  BY <1>1
<1> QED  BY <1>6, <1>7

\* parseMany reads filters.
LEMMA ManyReadsFilters ==
  ASSUME NEW s, NEW p, s \in Seq(Lexeme), p \in Nat, 1 <= p, p <= Len(s) + 1
  PROVE  Many(s, p).read \in Seq(Filter)
<1>1. Len(s) \in Nat  OBVIOUS
<1> DEFINE many == CHOOSE f : IsMany(f, s, 1)
<1>2. IsMany(many, s, 1)  BY ManyExists
<1>3. Many(s, p) = many[p]  BY Zenon DEF Many, IsMany, ManyAt
<1> HIDE DEF many
<1>4. \A q \in 1..Len(s) + 1 : many[q] = ManyAt(many, s, q)
  BY <1>2, Zenon DEF IsMany
<1> DEFINE T == {n \in Nat : n <= Len(s) /\ many[Len(s) + 1 - n].read \notin Seq(Filter)}
<1>5. T = {}
 <2> SUFFICES ASSUME T # {}  PROVE FALSE  OBVIOUS
 <2>1. PICK n \in T : \A m \in T : n <= m
  <3>1. T \in SUBSET Nat  OBVIOUS
  <3> HIDE DEF T
  <3> QED  BY <3>1, LeastNumber
 <2> DEFINE q == Len(s) + 1 - n
            one == Marked(s, PlainAt(s, q))
 <2>2. n \in Nat /\ n <= Len(s) /\ many[q].read \notin Seq(Filter)  BY <2>1
 <2>3. q \in Nat /\ q \in 1..Len(s) + 1 /\ n = Len(s) + 1 - q  BY <1>1, <2>2
 <2> HIDE DEF q
 <2>4. IsFound(one, Filter, q, s)  BY <2>3, TurnFound
 <2>5. many[q] = IF one = Nothing THEN [read |-> <<>>, next |-> q]
                 ELSE [read |-> one.read \o many[one.next].read, next |-> many[one.next].next]
   BY <1>4, <2>3 DEF ManyAt
 <2> HIDE DEF one
 <2>6. one # Nothing  BY <2>2, <2>5
 <2>7. PICK f \in Filter : one.read = <<f>>  BY <2>4, <2>6 DEF IsFound
 <2>8. one.next \in Nat /\ one.next > q /\ one.next <= Len(s) + 1
   BY <2>4, <2>6 DEF IsFound
 <2> DEFINE m == Len(s) + 1 - one.next
 <2>9. m \in Nat /\ m < n /\ m <= Len(s) /\ Len(s) + 1 - m = one.next
   BY <1>1, <2>2, <2>3, <2>8
 <2>10. m \notin T  BY <2>1, <2>2, <2>9
 <2>11. many[one.next].read \in Seq(Filter)  BY <2>9, <2>10
 <2>12. many[q].read = <<f>> \o many[one.next].read
  <3> DEFINE rest == many[one.next]
             turn == [read |-> one.read \o rest.read, next |-> rest.next]
  <3>1. many[q] = turn  BY <2>5, <2>6, Zenon
  <3>2. turn.read = one.read \o rest.read  OBVIOUS
  <3> HIDE DEF turn
  <3> QED  BY <2>7, <3>1, <3>2, Zenon
 <2>13. <<f>> \in Seq(Filter)  OBVIOUS
 <2> QED  BY <2>2, <2>11, <2>12, <2>13, ConcatProperties
<1>6. many[p].read \in Seq(Filter)
 <2> DEFINE n == Len(s) + 1 - p
 <2>1. n \in Nat /\ n <= Len(s) /\ Len(s) + 1 - n = p  BY <1>1
 <2>2. n \notin T  BY <1>5
 <2> QED  BY <2>1, <2>2
<1> QED  BY <1>3, <1>6

\* So does the parser, when it does not throw.
LEMMA ParseReadsFilters ==
  ASSUME NEW s, s \in Seq(Lexeme), Parse(s) # <<>>
  PROVE  Parse(s)[1] \in Seq(Filter)
<1> DEFINE first == Marked(s, DotFieldAt(s, 1))
           begin == IF first = Nothing THEN 2 ELSE first.next
           start == AfterMarks(s, begin)
           rest == Many(s, start)
<1>1. LexAt(s, 1) = "." /\ Parse(s) = <<first.read \o rest.read>>  BY DEF Parse
<1>2. IsFound(first, Filter, 1, s)
 <2>1. 1 \in Nat  OBVIOUS
 <2> QED  BY <2>1, DotFieldFound, MarkedFound
<1> HIDE DEF first
<1>3. Len(s) >= 1
 <2>1. 1 \in Int /\ LexAt(s, 1) # "end"  BY <1>1
 <2> QED  BY <2>1, LexAtIs
<1>4. begin \in Nat /\ 1 <= begin /\ begin <= Len(s) + 1
 <2>1. Len(s) \in Nat  OBVIOUS
 <2> QED  BY <1>2, <1>3, <2>1 DEF IsFound
<1> HIDE DEF begin
<1>5. start \in Nat /\ 1 <= start /\ start <= Len(s) + 1
 <2>1. start \in Nat /\ begin <= start /\ start <= Len(s) + 1
   BY <1>4, AfterMarksIs
 <2> QED  BY <1>4, <2>1
<1> HIDE DEF start
<1>6. rest.read \in Seq(Filter)  BY <1>5, ManyReadsFilters
<1> HIDE DEF rest
<1>7. first.read \in Seq(Filter)
 <2>1. CASE first = Nothing  BY <2>1 DEF Nothing
 <2>2. CASE \E f \in Filter : first.read = <<f>>  BY <2>2
 <2> QED  BY <1>2, <2>1, <2>2 DEF IsFound
<1>8. first.read \o rest.read \in Seq(Filter)  BY <1>6, <1>7, ConcatProperties
<1> QED  BY <1>1, <1>8

\* A decoder that finds its own spelling on the wire has found the issuer's
\* filters.
LEMMA AcceptedIsIssued ==
  ASSUME NEW fs, NEW t, fs \in Seq(Filter), Spells(t, fs),
         Parse(t) # <<>>, ToString(Parse(t)[1]) = t
  PROVE  Parse(t)[1] = fs
<1> DEFINE read == Parse(t)[1]
<1>1. t \in Seq(Lexeme)  BY DEF Spells
<1>2. read \in Seq(Filter)  BY <1>1, ParseReadsFilters
<1> HIDE DEF read
<1>3. Spells(ToString(read), read)  BY <1>2, ToStringSpells
<1>4. Spells(t, read)  BY <1>3 DEF read
<1>5. read = fs  BY <1>2, <1>4, OneSelectorPerText DEF Spells
<1> QED  BY <1>5 DEF read

----------------------------------------------------------------------------
(* The selector from issuer to value                                       *)

\* The invariant holds at first.
LEMMA SInvInit == Init => SInv
BY DEF Init, SInv, Selecting

\* What was issued is a sequence of filters, over a value.
LEMMA IssuedIsFilters ==
  ASSUME SInv
  PROVE  issued \in Seq(Filter) /\ IsValue(document)
<1>1. issued \in Selectors /\ document \in Documents  BY DEF SInv
<1> QED  BY <1>1, SelectorAssumption, DataAssumption

\* The loop begins at the document.
LEMMA DecodeBegins ==
  ASSUME SInv, Decode, phase' = "select"
  PROVE  filters' = issued /\ Selecting'
<1>1. phase = "sent" /\ filters' = Parse(text)[1] /\ Parse(text) # <<>> /\ ToString(Parse(text)[1]) = text
  BY DEF Decode, Stop
<1>2. issued \in Seq(Filter) /\ IsValue(document)  BY IssuedIsFilters
<1>3. Spells(text, issued)
  BY <1>1, <1>2, ToStringSpells, SpellingsSpell DEF SInv
<1>4. filters' = issued  BY <1>1, <1>2, <1>3, AcceptedIsIssued
<1>5. /\ at' = 1 /\ current' = document /\ isTry' = FALSE /\ document' = document
  BY <1>1 DEF SInv, Decode
<1> DEFINE fs == issued
<1>6. PICK v : IsWay(v, fs, document, Len(fs)) /\ Meaning(fs, document) = Reached(v, fs)
  BY <1>2, MeaningIsReached
<1>7. v[0] = document  BY <1>2, <1>6, WaySteps
<1>8. OnTheWay(v)'
 <2>1. at' - 1 = 0 /\ 1..at'-1 = {}  BY <1>5
 <2>2. ~isTry' /\ current' = v[at'-1] /\ IsValue(current')
   BY <1>2, <1>5, <1>7, <2>1
 <2> QED  BY <2>1, <2>2 DEF OnTheWay
<1>9. filters' \in Seq(Filter) /\ at' \in 1..Len(filters') + 1
 <2>1. Len(fs) \in Nat  BY <1>2
 <2> QED  BY <1>2, <1>4, <1>5, <2>1
<1> QED  BY <1>4, <1>5, <1>6, <1>8, <1>9 DEF Selecting

\* Every step keeps it.
LEMMA SInvStep ==
  ASSUME SInv, [Next]_vars
  PROVE  SInv'
<1>1. CASE Encode  BY <1>1 DEF Encode, SInv, Selecting
<1>2. CASE EncodeElsewhere  BY <1>2 DEF EncodeElsewhere, SInv, Selecting
<1>3. CASE Decode
 <2>1. CASE phase' = "select"
  <3>1. filters' = issued /\ Selecting'  BY <1>3, <2>1, DecodeBegins
  <3>2. issued' = issued /\ document' = document  BY <1>3 DEF Decode
  <3> QED  BY <2>1, <3>1, <3>2 DEF SInv
 <2>2. CASE phase' # "select"
  <3>1. phase' = "done" /\ outcome' \in {Error("parseError"), Error("notCanonical")}
    BY <1>3, <2>2 DEF Decode, Stop
  <3>2. issued' = issued /\ document' = document  BY <1>3 DEF Decode
  <3> QED  BY <3>1, <3>2 DEF SInv, Selecting, DecodeFailed
 <2> QED  BY <2>1, <2>2
<1>4. CASE SelectOptional
 <2>1. Selecting'  BY <1>4, OptionalTurn
 <2>2. /\ phase = "select" /\ phase' = phase /\ filters' = filters
       /\ issued' = issued /\ document' = document
   BY <1>4 DEF SelectOptional
 <2> QED  BY <2>1, <2>2 DEF SInv
<1>5. CASE SelectPlain
 <2>1. Selecting' /\ (phase' = "done" => outcome' = Meaning(filters, document))
   BY <1>5, PlainTurn
 <2>2. /\ phase = "select" /\ phase' \in {"select", "done"} /\ filters' = filters
       /\ issued' = issued /\ document' = document
   BY <1>5 DEF SelectPlain, Stop
 <2> QED  BY <2>1, <2>2 DEF SInv
<1>6. CASE Select
 <2>1. outcome' = Meaning(filters, document)  BY <1>6, LastTurn
 <2>2. phase' = "done" /\ filters' = filters /\ issued' = issued /\ document' = document
   BY <1>6 DEF Select, Stop
 <2> QED  BY <2>1, <2>2 DEF SInv, Selecting
<1>7. CASE UNCHANGED vars
 <2>1. /\ issued' = issued /\ text' = text /\ filters' = filters /\ document' = document /\ phase' = phase
       /\ at' = at /\ current' = current /\ isTry' = isTry /\ outcome' = outcome
   BY <1>7 DEF vars
 <2>2. Selecting'  BY <2>1 DEF SInv, Selecting, OnTheWay
 <2>3. (phase = "done" /\ ~DecodeFailed => outcome = Meaning(filters, document))'
   BY <2>1 DEF SInv, DecodeFailed
 <2> QED  BY <2>1, <2>2, <2>3 DEF SInv
<1> QED  BY <1>1, <1>2, <1>3, <1>4, <1>5, <1>6, <1>7 DEF Next

\* It always holds.
LEMMA SInvHolds == Spec => []SInv
<1>1. Init => SInv  BY SInvInit
<1>2. SInv /\ [Next]_vars => SInv'  BY SInvStep
<1> QED  BY <1>1, <1>2, PTL DEF Spec

\* The loop gives every selector its meaning, whatever its filters and
\* whatever the document.
THEOREM LoopSelectsByMeaning == Spec => []SelectsByMeaning
<1>1. SInv => SelectsByMeaning  BY DEF SInv, SelectsByMeaning
<1> QED  BY <1>1, SInvHolds, PTL

\* A selector that the decoder accepts is the one that was issued, however it
\* was spelled on the wire.
THEOREM AcceptedMeansTheSame == Spec => []DecodedIsIssued
<1>1. SInv => DecodedIsIssued  BY DEF SInv, DecodedIsIssued
<1> QED  BY <1>1, SInvHolds, PTL

----------------------------------------------------------------------------
(* Globs                                                                   *)

\* The characters of f stand in s after n others.
StandsAt(s, f, n) == n >= 0 /\ n + Len(f) <= Len(s) /\ \A j \in 1..Len(f) : s[n + j] = f[j]

\* A fragment occurs where its characters are.
LEMMA OccursIs ==
  ASSUME NEW C, NEW s \in Seq(C), NEW f \in Seq(C), NEW n \in Int
  PROVE  OccursAfter(s, f, n) <=> StandsAt(s, f, n)
<1> DEFINE L == Len(f)  N == Len(s)
<1>1. L \in Nat /\ N \in Nat  OBVIOUS
<1>2. CASE n >= 0 /\ n + L <= N
 <2> DEFINE t == SubSeq(s, n + 1, n + L)
 <2>1. /\ t \in Seq(C) /\ Len(t) = L /\ \A j \in 1..L : t[j] = s[n + j]
  <3>1. n + 1 \in 1..N + 1 /\ n + L \in n..N /\ (n + L) - (n + 1) + 1 = L
    BY <1>1, <1>2
  <3> HIDE DEF L, N
  <3>2. n + 1 <= n + L + 1  BY <1>1
  <3> QED  BY <1>1, <1>2, <3>1, SubSeqProperties DEF N
 <2>2. t = f <=> \A j \in 1..L : t[j] = f[j]
  <3> HIDE DEF t
  <3> QED  BY <2>1, SeqEqual
 <2> QED  BY <1>2, <2>1, <2>2 DEF OccursAfter, StandsAt
<1>3. CASE ~(n >= 0 /\ n + L <= N)  BY <1>3 DEF OccursAfter, StandsAt
<1> QED  BY <1>2, <1>3

\* The fragments with one more can be placed if they can before it.
LEMMA LastPlaced ==
  ASSUME NEW C, NEW s \in Seq(C), NEW frs \in Seq(Seq(C)), NEW w \in Seq(C), NEW k \in 0..Len(s)
  PROVE  Places(s, Append(frs, w), k) <=>
           OccursAfter(s, w, k - Len(w)) /\ Ready(s, frs, k - Len(w))
<1> DEFINE all == Append(frs, w)  N == Len(s)  L == Len(frs)  n == k - Len(w)
<1>1. /\ Len(all) = L + 1 /\ L \in Nat /\ N \in Nat /\ Len(w) \in Nat /\ n \in Int
      /\ all[L + 1] = w /\ \A i \in 1..L : all[i] = frs[i]
      /\ \A i \in 1..L : Len(frs[i]) \in Nat
      /\ frs = <<>> <=> L = 0
 <2>1. \A i \in 1..L : frs[i] \in Seq(C)  OBVIOUS
 <2>2. \A i \in 1..L : Len(frs[i]) \in Nat  BY <2>1
 <2>3. Len(all) = L + 1 /\ all[L + 1] = w /\ \A i \in 1..L : all[i] = frs[i]
   BY AppendProperties
 <2> QED  BY <2>2, <2>3, EmptySeq
<1> HIDE DEF all, N, L
<1>2. ASSUME NEW pos, Placed(s, all, k, pos)  PROVE OccursAfter(s, w, n) /\ Ready(s, frs, n)
 <2>1. /\ pos \in [1..L+1 -> 0..N] /\ pos[1] = Len(all[1]) /\ pos[L+1] = k
       /\ \A i \in 1..L+1 : OccursAfter(s, all[i], pos[i] - Len(all[i]))
       /\ \A i \in 2..L+1 : pos[i-1] <= pos[i] - Len(all[i])
   BY <1>1, <1>2 DEF Placed, N
 <2>2. OccursAfter(s, w, n)  BY <1>1, <2>1
 <2>3. CASE L = 0  BY <1>1, <2>1, <2>2, <2>3 DEF Ready
 <2>4. CASE L # 0
  <3> DEFINE front == [i \in 1..L |-> pos[i]]
  <3>1. /\ front \in [1..L -> 0..N] /\ front[1] = Len(frs[1])
        /\ \A i \in 1..L : OccursAfter(s, frs[i], front[i] - Len(frs[i]))
        /\ \A i \in 2..L : front[i-1] <= front[i] - Len(frs[i])
   <4>1. \A i \in 1..L : i \in 1..L+1 /\ front[i] = pos[i] /\ all[i] = frs[i]
     BY <1>1
   <4>2. \A i \in 2..L : i \in 2..L+1 /\ i \in 1..L /\ i - 1 \in 1..L
     BY <1>1
   <4>3. 1 \in 1..L  BY <1>1, <2>4
   <4>4. \A i \in 1..L : pos[i] \in 0..N  BY <2>1, <4>1
   <4> HIDE DEF front
   <4>5. front \in [1..L -> 0..N]  BY <4>4 DEF front
   <4>6. \A i \in 2..L : front[i-1] <= front[i] - Len(frs[i])
     BY <2>1, <4>1, <4>2
   <4> QED  BY <2>1, <4>1, <4>3, <4>5, <4>6
  <3>2. front[L] \in 0..n
   <4>1. L \in 1..L /\ L + 1 \in 2..L+1 /\ (L + 1) - 1 = L  BY <1>1, <2>4
   <4> QED  BY <1>1, <2>1, <4>1
  <3>3. Placed(s, frs, front[L], front)
   <4> HIDE DEF front
   <4> QED  BY <3>1 DEF Placed, N, L
  <3>4. Places(s, frs, front[L])  BY <3>3 DEF Places
  <3> QED  BY <1>1, <2>2, <2>4, <3>2, <3>4 DEF Ready
 <2> QED  BY <2>3, <2>4
<1>3. ASSUME OccursAfter(s, w, n), Ready(s, frs, n)  PROVE \E pos : Placed(s, all, k, pos)
 <2>1. CASE L = 0
  <3> DEFINE pos == [i \in 1..1 |-> k]
  <3>1. n = 0 /\ k = Len(w)  BY <1>1, <1>3, <2>1 DEF Ready
  <3>2. Placed(s, all, k, pos)
   <4>1. pos \in [1..1 -> 0..N] /\ pos[1] = k  BY DEF N
   <4> HIDE DEF pos
   <4> QED  BY <1>1, <1>3, <2>1, <3>1, <4>1 DEF Placed, N
  <3> QED  BY <3>2
 <2>2. CASE L # 0
  <3>1. PICK j \in 0..n : Places(s, frs, j)  BY <1>1, <1>3, <2>2 DEF Ready
  <3>2. PICK front : Placed(s, frs, j, front)  BY <3>1 DEF Places
  <3>3. /\ front \in [1..L -> 0..N] /\ front[1] = Len(frs[1]) /\ front[L] = j
        /\ \A i \in 1..L : OccursAfter(s, frs[i], front[i] - Len(frs[i]))
        /\ \A i \in 2..L : front[i-1] <= front[i] - Len(frs[i])
    BY <3>2 DEF Placed, N, L
  <3> DEFINE pos == [i \in 1..L+1 |-> IF i = L+1 THEN k ELSE front[i]]
  <3>4. \A i \in 1..L : i \in 1..L+1 /\ i # L+1 /\ pos[i] = front[i]  BY <1>1
  <3>5. pos[L+1] = k  BY <1>1
  <3>6. pos \in [1..L+1 -> 0..N]
   <4>1. \A i \in 1..L+1 : i # L+1 => i \in 1..L  BY <1>1
   <4>2. k \in 0..N  BY DEF N
   <4> QED  BY <3>3, <4>1, <4>2
  <3> HIDE DEF pos
  <3>7. 1 \in 1..L /\ pos[1] = Len(all[1])  BY <1>1, <2>2, <3>3, <3>4
  <3>8. ASSUME NEW i \in 1..L+1  PROVE OccursAfter(s, all[i], pos[i] - Len(all[i]))
   <4>1. CASE i = L+1  BY <1>1, <1>3, <3>5, <4>1
   <4>2. CASE i # L+1
    <5>1. i \in 1..L  BY <1>1, <4>2
    <5> QED  BY <1>1, <3>3, <3>4, <5>1
   <4> QED  BY <4>1, <4>2
  <3>9. ASSUME NEW i \in 2..L+1  PROVE pos[i-1] <= pos[i] - Len(all[i])
   <4>1. CASE i = L+1
    <5>1. L \in 1..L /\ i - 1 = L  BY <1>1, <2>2, <4>1
    <5> QED  BY <1>1, <3>1, <3>3, <3>4, <3>5, <4>1, <5>1
   <4>2. CASE i # L+1
    <5>1. i \in 1..L /\ i - 1 \in 1..L /\ i \in 2..L  BY <1>1, <4>2
    <5> QED  BY <1>1, <3>3, <3>4, <5>1
   <4> QED  BY <4>1, <4>2
  <3> QED  BY <1>1, <3>5, <3>6, <3>7, <3>8, <3>9 DEF Placed, N
 <2> QED  BY <2>1, <2>2
<1> QED  BY <1>2, <1>3 DEF Places, all

\* Every pattern has its states.
LEMMA ScanExists ==
  ASSUME NEW pattern, NEW length \in Nat
  PROVE  \E sc : IsScan(sc, pattern, length)
<1> DEFINE T == {n \in Nat : \E sc : IsScan(sc, pattern, n)}
<1>1. 0 \in T
 <2>1. IsScan([n \in 0..0 |-> Fresh], pattern, 0)  BY DEF IsScan
 <2> QED  BY <2>1
<1>2. ASSUME NEW n \in Nat, n \in T  PROVE n + 1 \in T
 <2>1. PICK w : IsScan(w, pattern, n)  BY <1>2
 <2> DEFINE v == [k \in 0..n+1 |-> IF k = 0 THEN Fresh ELSE ScanChar(w[k-1], pattern[k])]
 <2>2. \A k \in 0..n : v[k] = w[k]  BY <2>1 DEF IsScan
 <2>3. \A k \in 0..n+1 : k # 0 => v[k-1] = w[k-1]
  <3>1. \A k \in 0..n+1 : k # 0 => k - 1 \in 0..n  OBVIOUS
  <3> HIDE DEF v
  <3> QED  BY <2>2, <3>1
 <2>4. v = [k \in 0..n+1 |-> IF k = 0 THEN Fresh ELSE ScanChar(v[k-1], pattern[k])]
   BY <2>3, Zenon
 <2> HIDE DEF v
 <2>5. IsScan(v, pattern, n + 1)  BY <2>4 DEF IsScan
 <2> QED  BY <2>5
<1> HIDE DEF T
<1>3. length \in T  BY <1>1, <1>2, SetInduction
<1> QED  BY <1>3 DEF T

\* A turn of the loop of glob does to the fragments what TurnsTo says.
LEMMA ScanTurn ==
  ASSUME NEW C, NEW p, NEW st, NEW n, p \in Seq(C), Backslash \in C,
         n \in 1..Len(p), Scanned(st, C, p, n - 1)
  PROVE  TurnsTo(ScanChar(st, p[n]), st, C, p, n)
<1> DEFINE c == p[n]  new == ScanChar(st, c)
           kept == IF st.escape THEN Append(st.working, Backslash) ELSE st.working
           before == Working(st, p, n - 1)
<1>1. /\ n \in Nat /\ n > 0 /\ n <= Len(p) /\ Len(p) \in Nat /\ n - 1 \in Nat /\ (n - 1) + 1 = n
      /\ c \in C
  OBVIOUS
<1>2. /\ st \in ScanState(C) /\ st.frags \in Seq(Seq(C)) /\ st.working \in Seq(C)
      /\ st.escape \in BOOLEAN /\ st.leading \in BOOLEAN /\ st.trailing \in BOOLEAN
  BY DEF Scanned, ScanState
<1>3. st.escape <=> EscapedAt(p, n)  BY <1>1 DEF Scanned, EscapedAt
<1>4. Star # Backslash  BY PredicatesAssumption
<1>5. kept \in Seq(C) /\ before \in Seq(C) /\ Append(kept, c) \in Seq(C)
 <2>1. kept \in Seq(C)  BY <1>2
 <2>2. before \in Seq(C)  BY <1>2 DEF Working
 <2>3. Append(kept, c) \in Seq(C)
  <3> HIDE DEF kept, c
  <3> QED  BY <1>1, <2>1, AppendProperties
 <2> QED  BY <2>1, <2>2, <2>3
<1>6. before = IF st.escape /\ c # Star THEN Append(st.working, Backslash) ELSE st.working
 <2>1. VanishesAt(p, n - 1) <=> p[n - 1] = Backslash /\ c = Star
   BY <1>1 DEF VanishesAt
 <2>2. st.escape => p[n - 1] = Backslash  BY <1>1 DEF Scanned
 <2> QED  BY <2>1, <2>2 DEF Working
<1> HIDE DEF before
<1>7. CASE c = Star /\ st.escape
 <2>1. new = [st EXCEPT !.working = Append(st.working, Star), !.escape = FALSE, !.trailing = FALSE]
   BY <1>4, <1>7, Zenon DEF ScanChar
 <2>2. Append(st.working, Star) \in Seq(C)  BY <1>1, <1>2, <1>7
 <2>3. /\ new \in ScanState(C) /\ new.frags = st.frags /\ new.working = Append(st.working, Star)
       /\ new.escape = FALSE /\ new.leading = st.leading /\ new.trailing = FALSE
  <3> DEFINE w == Append(st.working, Star)
  <3> HIDE DEF w
  <3> QED  BY <1>2, <2>1, <2>2 DEF ScanState, w
 <2> HIDE DEF new
 <2>4. Scanned(new, C, p, n)  BY <1>1, <1>4, <1>7, <2>3 DEF Scanned
 <2>5. Working(new, p, n) = Append(st.working, Star) /\ before = st.working
   BY <1>6, <1>7, <2>3 DEF Working
 <2>6. EscapedAt(p, n) /\ ~VanishesAt(p, n)  BY <1>3, <1>4, <1>7 DEF VanishesAt
 <2> HIDE DEF c
 <2> QED  BY <1>5, <1>7, <2>3, <2>4, <2>5, <2>6 DEF before, new, c, TurnsTo
<1>8. CASE c = Star /\ ~st.escape
 <2>1. new = [st EXCEPT !.leading = st.leading \/ (st.frags = <<>> /\ st.working = <<>>),
                        !.frags = Append(st.frags, st.working), !.working = <<>>, !.trailing = TRUE]
   BY <1>4, <1>8, Zenon DEF ScanChar
 <2>2. /\ Append(st.frags, st.working) \in Seq(Seq(C)) /\ Append(st.frags, st.working) # <<>>
       /\ <<>> \in Seq(C)
       /\ Append(st.frags, st.working)[1] = IF st.frags = <<>> THEN st.working ELSE st.frags[1]
  <3> DEFINE fs == st.frags  w == st.working  S == Seq(C)
  <3>1. fs \in Seq(S) /\ w \in S /\ <<>> \in Seq(C)  BY <1>2
  <3>2. fs # <<>> => 1 \in 1..Len(fs)  BY <3>1, EmptySeq
  <3>3. fs = <<>> => Len(fs) + 1 = 1  OBVIOUS
  <3> HIDE DEF fs, w, S
  <3>4. /\ Append(fs, w) \in Seq(S) /\ Append(fs, w) # <<>>
        /\ \A i \in 1..Len(fs) : Append(fs, w)[i] = fs[i]
        /\ Append(fs, w)[Len(fs)+1] = w
    BY <3>1, AppendProperties
  <3> QED  BY <3>1, <3>2, <3>3, <3>4 DEF fs, w, S
 <2>3. /\ new \in ScanState(C) /\ new.frags = Append(st.frags, st.working) /\ new.working = <<>>
       /\ new.escape = FALSE /\ new.trailing = TRUE
       /\ new.leading = (st.leading \/ (st.frags = <<>> /\ st.working = <<>>))
  <3> DEFINE w == Append(st.frags, st.working)  l == st.leading \/ (st.frags = <<>> /\ st.working = <<>>)
  <3>1. l \in BOOLEAN  OBVIOUS
  <3>2. w \in Seq(Seq(C))  BY <2>2
  <3>3. new = [st EXCEPT !.leading = l, !.frags = w, !.working = <<>>, !.trailing = TRUE]
    BY <2>1
  <3>4. st.escape = FALSE  BY <1>2, <1>8
  <3> HIDE DEF w, l, new
  <3>5. /\ new \in ScanState(C) /\ new.frags = w /\ new.working = <<>>
        /\ new.escape = FALSE /\ new.trailing = TRUE /\ new.leading = l
    BY <1>2, <2>2, <3>1, <3>2, <3>3, <3>4 DEF ScanState
  <3> QED  BY <3>5 DEF w, l
 <2> HIDE DEF new
 <2>4. Scanned(new, C, p, n)  BY <1>1, <1>4, <1>8, <2>2, <2>3 DEF Scanned
 <2>5. Working(new, p, n) = <<>> /\ before = st.working
   BY <1>6, <1>8, <2>3 DEF Working
 <2>6. ~EscapedAt(p, n)  BY <1>3, <1>8
 <2>7. new.frags = Append(st.frags, before)  BY <2>3, <2>5, Zenon
 <2>8. before \in Seq(C) /\ p[n] = Star /\ Working(new, p, n) = <<>>
   BY <1>5, <1>8, <2>5
 <2> HIDE DEF c
 <2> QED  BY <2>4, <2>6, <2>7, <2>8, Zenon DEF before, new, c, TurnsTo
<1>9. CASE c = Backslash
 <2>1. new = [st EXCEPT !.working = kept, !.escape = TRUE, !.trailing = FALSE]
   BY <1>4, <1>9, Zenon DEF ScanChar
 <2>2. before = kept  BY <1>4, <1>6, <1>9
 <2>3. /\ new \in ScanState(C) /\ new.frags = st.frags /\ new.working = kept
       /\ new.escape = TRUE /\ new.leading = st.leading /\ new.trailing = FALSE
  <3> HIDE DEF kept
  <3> QED  BY <1>2, <1>5, <2>1 DEF ScanState
 <2> HIDE DEF new, kept
 <2>4. Scanned(new, C, p, n)  BY <1>1, <1>9, <2>3 DEF Scanned
 <2>5. Working(new, p, n) = IF VanishesAt(p, n) THEN before ELSE Append(before, c)
   BY <1>9, <2>2, <2>3 DEF Working
 <2>6. c # Star  BY <1>4, <1>9
 <2> HIDE DEF c
 <2> QED  BY <1>5, <2>3, <2>4, <2>5, <2>6 DEF before, new, c, TurnsTo
<1>10. CASE c \notin {Star, Backslash}
 <2>1. new = [st EXCEPT !.working = Append(kept, c), !.escape = FALSE, !.trailing = FALSE]
   BY <1>10, Zenon DEF ScanChar
 <2>2. before = kept  BY <1>6, <1>10
 <2> DEFINE w == Append(kept, c)
 <2>3. /\ new \in ScanState(C) /\ new.frags = st.frags /\ new.working = w
       /\ new.escape = FALSE /\ new.leading = st.leading /\ new.trailing = FALSE
  <3>1. w \in Seq(C)  BY <1>5
  <3> HIDE DEF w, kept
  <3> QED  BY <1>2, <2>1, <3>1 DEF ScanState, w
 <2> HIDE DEF new, kept
 <2>4. Scanned(new, C, p, n)  BY <1>1, <1>10, <2>3 DEF Scanned
 <2>5. Working(new, p, n) = Append(before, c)  BY <2>2, <2>3 DEF Working
 <2>6. c # Star /\ ~VanishesAt(p, n)  BY <1>10 DEF VanishesAt
 <2> HIDE DEF c
 <2> QED  BY <1>5, <2>3, <2>4, <2>5, <2>6 DEF before, new, c, TurnsTo
<1> QED  BY <1>7, <1>8, <1>9, <1>10

\* Every two strings have the rows that GlobMatches is computed by.
LEMMA MatchingExists ==
  ASSUME NEW s, NEW p, NEW length \in Nat
  PROVE  \E m : IsMatching(m, s, p, length)
<1> DEFINE T == {n \in Nat : \E m : IsMatching(m, s, p, n)}
<1>1. 0 \in T
 <2>1. IsMatching([n \in 0..0 |-> {0}], s, p, 0)  BY DEF IsMatching
 <2> QED  BY <2>1
<1>2. ASSUME NEW n \in Nat, n \in T  PROVE n + 1 \in T
 <2>1. PICK w : IsMatching(w, s, p, n)  BY <1>2
 <2> DEFINE v == [k \in 0..n+1 |-> IF k = 0 THEN {0} ELSE MatchTurn(w[k-1], s, p, k)]
 <2>2. ASSUME NEW k \in 0..n  PROVE v[k] = w[k]
  <3>1. w[k] = IF k = 0 THEN {0} ELSE MatchTurn(w[k-1], s, p, k)
    BY <2>1, Zenon DEF IsMatching
  <3>2. k \in 0..n+1  OBVIOUS
  <3> QED  BY <3>1, <3>2, Zenon
 <2>3. \A k \in 0..n+1 : k # 0 => v[k-1] = w[k-1]
  <3>1. \A k \in 0..n+1 : k # 0 => k - 1 \in 0..n  OBVIOUS
  <3> HIDE DEF v
  <3> QED  BY <2>2, <3>1
 <2>4. v = [k \in 0..n+1 |-> IF k = 0 THEN {0} ELSE MatchTurn(v[k-1], s, p, k)]
   BY <2>3, Zenon
 <2> HIDE DEF v
 <2>5. IsMatching(v, s, p, n + 1)  BY <2>4 DEF IsMatching
 <2> QED  BY <2>5
<1> HIDE DEF T
<1>3. length \in T  BY <1>1, <1>2, SetInduction
<1> QED  BY <1>3 DEF T

\* GlobMatches looks at the last of it.
LEMMA GlobMatchesIs ==
  ASSUME NEW C, NEW s, NEW p \in Seq(C)
  PROVE  \E m : IsMatching(m, s, p, Len(p)) /\ (GlobMatches(s, p) <=> Len(s) \in m[Len(p)])
<1> DEFINE m == CHOOSE w : IsMatching(w, s, p, Len(p))
<1>1. IsMatching(m, s, p, Len(p))
 <2>1. Len(p) \in Nat  OBVIOUS
 <2> QED  BY <2>1, MatchingExists
<1>2. GlobMatches(s, p) <=> Len(s) \in m[Len(p)]
  BY Zenon DEF GlobMatches, IsMatching, MatchTurn, EscapedAt, VanishesAt
<1> QED  BY <1>1, <1>2

\* A fragment with a character more.
LEMMA OccursMore ==
  ASSUME NEW C, NEW s \in Seq(C), NEW f \in Seq(C), NEW c \in C, NEW n \in Int
  PROVE  /\ Len(Append(f, c)) = Len(f) + 1
         /\ OccursAfter(s, Append(f, c), n) <=>
              /\ OccursAfter(s, f, n)
              /\ n + Len(f) + 1 <= Len(s) /\ s[n + Len(f) + 1] = c
<1> DEFINE g == Append(f, c)  L == Len(f)
<1>1. /\ g \in Seq(C) /\ Len(g) = L + 1 /\ L \in Nat /\ Len(s) \in Nat
      /\ g[L + 1] = c /\ \A i \in 1..L : g[i] = f[i]
  BY AppendProperties
<1> HIDE DEF g
<1>2. OccursAfter(s, g, n) <=> n >= 0 /\ n + Len(g) <= Len(s) /\ \A j \in 1..Len(g) : s[n + j] = g[j]
 <2> HIDE DEF L
 <2>1. g \in Seq(C)  BY <1>1
 <2>2. OccursAfter(s, g, n) <=> StandsAt(s, g, n)
   BY <2>1, OccursIs
 <2> QED  BY <2>2, Zenon DEF StandsAt
<1>3. OccursAfter(s, f, n) <=> n >= 0 /\ n + L <= Len(s) /\ \A j \in 1..L : s[n + j] = f[j]
 <2>1. OccursAfter(s, f, n) <=> StandsAt(s, f, n)
   BY OccursIs
 <2> QED  BY <2>1, Zenon DEF StandsAt
<1> HIDE DEF L
<1>4. (\A j \in 1..L+1 : s[n + j] = g[j]) <=> (\A j \in 1..L : s[n + j] = f[j]) /\ s[n + L + 1] = c
 <2>1. \A j \in 1..L+1 : j = L + 1 \/ j \in 1..L  BY <1>1
 <2>2. n + (L + 1) = n + L + 1 /\ L + 1 \in 1..L+1 /\ \A j \in 1..L : j \in 1..L+1
   BY <1>1
 <2>3. ASSUME \A j \in 1..L+1 : s[n + j] = g[j]
       PROVE  (\A j \in 1..L : s[n + j] = f[j]) /\ s[n + L + 1] = c
  <3>1. s[n + (L + 1)] = g[L + 1]  BY <2>2, <2>3
  <3> QED  BY <1>1, <2>2, <2>3, <3>1
 <2>4. ASSUME \A j \in 1..L : s[n + j] = f[j], s[n + L + 1] = c
       PROVE  \A j \in 1..L+1 : s[n + j] = g[j]
  <3> TAKE j \in 1..L+1
  <3>1. CASE j = L + 1  BY <1>1, <2>2, <2>4, <3>1
  <3>2. CASE j \in 1..L  BY <1>1, <2>4, <3>2
  <3> QED  BY <2>1, <3>1, <3>2
 <2> QED  BY <2>3, <2>4
<1> QED  BY <1>1, <1>2, <1>3, <1>4 DEF g, L

\* The empty fragment occurs everywhere.
LEMMA OccursNothing ==
  ASSUME NEW C, NEW s \in Seq(C), NEW n \in Int
  PROVE  OccursAfter(s, <<>>, n) <=> n >= 0 /\ n <= Len(s)
<1>1. <<>> \in Seq(C) /\ Len(<<>>) = 0 /\ n + 0 = n /\ 1..0 = {}  OBVIOUS
<1>2. OccursAfter(s, <<>>, n) <=> StandsAt(s, <<>>, n)
  BY <1>1, OccursIs
<1> QED  BY <1>1, <1>2 DEF StandsAt

----------------------------------------------------------------------------
(* The loop over the pattern, and the matching                             *)

\* The steps of a scan.
LEMMA ScanSteps ==
  ASSUME NEW p, NEW length \in Nat, NEW sc, IsScan(sc, p, length)
  PROVE  /\ sc[0] = Fresh
         /\ \A n \in 1..length : sc[n] = ScanChar(sc[n-1], p[n])
<1>1. 0 \in 0..length /\ \A n \in 1..length : n \in 0..length /\ n # 0  OBVIOUS
<1> QED  BY <1>1, Zenon DEF IsScan

\* The rows of a match.
LEMMA MatchSteps ==
  ASSUME NEW s, NEW p, NEW length \in Nat, NEW m, IsMatching(m, s, p, length)
  PROVE  /\ m[0] = {0}
         /\ \A n \in 1..length : m[n] = MatchTurn(m[n-1], s, p, n)
<1>1. 0 \in 0..length /\ \A n \in 1..length : n \in 0..length /\ n # 0  OBVIOUS
<1> QED  BY <1>1, Zenon DEF IsMatching

\* The rows track the fragments at first.
LEMMA TrackFresh ==
  ASSUME NEW C, NEW s \in Seq(C), NEW p
  PROVE  Tracks(Fresh, {0}, s, p, 0)
<1>1. Fresh.frags = <<>> /\ Working(Fresh, p, 0) = <<>>  BY DEF Fresh, Working
<1>2. <<>> \in Seq(C) /\ <<>> \in Seq(Seq(C)) /\ Len(<<>>) = 0 /\ Len(s) \in Nat
  OBVIOUS
<1>3. ASSUME NEW k \in 0..Len(s)  PROVE Places(s, Append(<<>>, <<>>), k) <=> k = 0
 <2>1. k - 0 = k /\ k \in Int /\ k >= 0 /\ k <= Len(s)  BY <1>2
 <2>2. OccursAfter(s, <<>>, k)  BY <2>1, OccursNothing
 <2>3. Ready(s, <<>>, k) <=> k = 0  BY DEF Ready
 <2>4. Places(s, Append(<<>>, <<>>), k) <=> OccursAfter(s, <<>>, k - Len(<<>>)) /\ Ready(s, <<>>, k - Len(<<>>))
   BY <1>2, LastPlaced
 <2> QED  BY <1>2, <2>1, <2>2, <2>3, <2>4
<1>4. Fragments(Fresh, p, 0) = Append(<<>>, <<>>)  BY <1>1 DEF Fragments
<1> QED  BY <1>2, <1>3, <1>4 DEF Tracks

\* They do after a star.
LEMMA TrackStar ==
  ASSUME NEW C, NEW s \in Seq(C), NEW all \in Seq(Seq(C)), all # <<>>, NEW row, row \subseteq 0..Len(s),
         \A k \in 0..Len(s) : k \in row <=> Places(s, all, k)
  PROVE  \A k \in 0..Len(s) : (\E j \in row : j <= k) <=> Places(s, Append(all, <<>>), k)
<1> SUFFICES ASSUME NEW k \in 0..Len(s)
             PROVE  (\E j \in row : j <= k) <=> Places(s, Append(all, <<>>), k)
  OBVIOUS
<1>1. <<>> \in Seq(C) /\ Len(<<>>) = 0 /\ k - 0 = k /\ k \in Int /\ k >= 0 /\ k <= Len(s)
  OBVIOUS
<1>2. OccursAfter(s, <<>>, k)  BY <1>1, OccursNothing
<1>3. Places(s, Append(all, <<>>), k) <=> OccursAfter(s, <<>>, k - Len(<<>>)) /\ Ready(s, all, k - Len(<<>>))
  BY <1>1, LastPlaced
<1>4. Ready(s, all, k) <=> \E j \in 0..k : Places(s, all, j)  BY DEF Ready
<1>5. (\E j \in 0..k : Places(s, all, j)) <=> (\E j \in row : j <= k)
 <2>1. \A j \in 0..k : j \in 0..Len(s) /\ j <= k  BY <1>1
 <2>2. \A j \in row : j <= k => j \in 0..k  BY <1>1
 <2> QED  BY <2>1, <2>2
<1> QED  BY <1>1, <1>2, <1>3, <1>4, <1>5

\* And after a character that stands for itself.
LEMMA TrackLiteral ==
  ASSUME NEW C, NEW s \in Seq(C), NEW frs \in Seq(Seq(C)), NEW w \in Seq(C), NEW c \in C, NEW row,
         \A k \in 0..Len(s) : k \in row <=> Places(s, Append(frs, w), k)
  PROVE  \A k \in 0..Len(s) :
           (k \in 1..Len(s) /\ s[k] = c /\ k - 1 \in row) <=> Places(s, Append(frs, Append(w, c)), k)
<1> SUFFICES ASSUME NEW k \in 0..Len(s)
             PROVE  (k \in 1..Len(s) /\ s[k] = c /\ k - 1 \in row) <=> Places(s, Append(frs, Append(w, c)), k)
  OBVIOUS
<1> DEFINE g == Append(w, c)  n == k - Len(g)  L == Len(w)
<1>1. g \in Seq(C) /\ Len(g) = L + 1 /\ L \in Nat /\ Len(s) \in Nat
  BY AppendProperties
<1> HIDE DEF g, L
<1>2. n \in Int /\ n = k - 1 - L /\ n + L + 1 = k  BY <1>1
<1>3. OccursAfter(s, g, n) <=> OccursAfter(s, w, n) /\ n + L + 1 <= Len(s) /\ s[n + L + 1] = c
  BY <1>2, OccursMore DEF g, L
<1>4. Places(s, Append(frs, g), k) <=> OccursAfter(s, g, n) /\ Ready(s, frs, n)
  BY <1>1, LastPlaced
<1> HIDE DEF n
<1>5. OccursAfter(s, w, n) => n >= 0  BY DEF OccursAfter
<1>6. CASE k = 0  BY <1>1, <1>2, <1>3, <1>4, <1>5, <1>6 DEF g
<1>7. CASE k # 0
 <2>1. k - 1 \in 0..Len(s) /\ k \in 1..Len(s) /\ k <= Len(s)  BY <1>1, <1>7
 <2>2. k - 1 \in row <=> Places(s, Append(frs, w), k - 1)  BY <2>1
 <2>3. Places(s, Append(frs, w), k - 1) <=> OccursAfter(s, w, k - 1 - Len(w)) /\ Ready(s, frs, k - 1 - Len(w))
   BY <2>1, LastPlaced
 <2>4. k - 1 - Len(w) = n  BY <1>2 DEF L
 <2>5. Places(s, Append(frs, w), k - 1) <=> OccursAfter(s, w, n) /\ Ready(s, frs, n)
   BY <2>3, <2>4
 <2> QED  BY <1>2, <1>3, <1>4, <2>1, <2>2, <2>5 DEF g
<1> QED  BY <1>6, <1>7

\* A turn of both loops.
LEMMA TrackTurn ==
  ASSUME NEW C, NEW s, NEW p, NEW st, NEW row, NEW n, s \in Seq(C), p \in Seq(C), Backslash \in C,
         n \in 1..Len(p), Scanned(st, C, p, n - 1), Tracks(st, row, s, p, n - 1)
  PROVE  /\ Scanned(ScanChar(st, p[n]), C, p, n)
         /\ Tracks(ScanChar(st, p[n]), MatchTurn(row, s, p, n), s, p, n)
<1> DEFINE new == ScanChar(st, p[n])
           before == Working(st, p, n - 1)
           row2 == MatchTurn(row, s, p, n)
<1>0. TurnsTo(new, st, C, p, n)  BY ScanTurn
<1>1. /\ Scanned(new, C, p, n)
      /\ before \in Seq(C)
      /\ p[n] = Star /\ ~EscapedAt(p, n) =>
           new.frags = Append(st.frags, before) /\ Working(new, p, n) = <<>>
      /\ ~(p[n] = Star /\ ~EscapedAt(p, n)) =>
           /\ new.frags = st.frags
           /\ Working(new, p, n) = IF VanishesAt(p, n) THEN before ELSE Append(before, p[n])
  BY <1>0, Zenon DEF TurnsTo
<1>2. st.frags \in Seq(Seq(C)) /\ p[n] \in C  BY DEF Scanned, ScanState
<1>3. row \subseteq 0..Len(s) /\ \A k \in 0..Len(s) : k \in row <=> Places(s, Append(st.frags, before), k)
  BY DEF Tracks, Fragments
<1> HIDE DEF new, before, row2
<1>4. CASE p[n] = Star /\ ~EscapedAt(p, n)
 <2> DEFINE all == Append(st.frags, before)
 <2>1. all \in Seq(Seq(C)) /\ all # <<>>
  <3> DEFINE S == Seq(C)  fs == st.frags
  <3>1. fs \in Seq(S) /\ before \in S  BY <1>1, <1>2
  <3> HIDE DEF S, fs
  <3>2. Append(fs, before) \in Seq(S) /\ Append(fs, before) # <<>>
    BY <3>1, AppendProperties
  <3> QED  BY <3>2 DEF S, fs
 <2> HIDE DEF all
 <2>2. \A k \in 0..Len(s) : (\E j \in row : j <= k) <=> Places(s, Append(all, <<>>), k)
   BY <1>3, <2>1, TrackStar DEF all
 <2>3. row2 = {k \in 0..Len(s) : \E j \in row : j <= k}
   BY <1>4, Zenon DEF row2, MatchTurn
 <2>4. Fragments(new, p, n) = Append(all, <<>>)
   BY <1>1, <1>4, Zenon DEF Fragments, all
 <2>5. Tracks(new, row2, s, p, n)  BY <2>2, <2>3, <2>4, Zenon DEF Tracks
 <2> QED  BY <1>1, <2>5 DEF new, row2
<1>5. CASE ~(p[n] = Star /\ ~EscapedAt(p, n)) /\ VanishesAt(p, n)
 <2>1. row2 = row  BY <1>5, Zenon DEF row2, MatchTurn
 <2>2. Fragments(new, p, n) = Append(st.frags, before)
   BY <1>1, <1>5, Zenon DEF Fragments
 <2>3. Tracks(new, row2, s, p, n)  BY <1>3, <2>1, <2>2, Zenon DEF Tracks
 <2> QED  BY <1>1, <2>3 DEF new, row2
<1>6. CASE ~(p[n] = Star /\ ~EscapedAt(p, n)) /\ ~VanishesAt(p, n)
 <2>1. row2 = {k \in 1..Len(s) : s[k] = p[n] /\ k - 1 \in row}
   BY <1>6, Zenon DEF row2, MatchTurn
 <2>2. Fragments(new, p, n) = Append(st.frags, Append(before, p[n]))
   BY <1>1, <1>6, Zenon DEF Fragments
 <2>3. \A k \in 0..Len(s) :
          (k \in 1..Len(s) /\ s[k] = p[n] /\ k - 1 \in row) <=> Places(s, Append(st.frags, Append(before, p[n])), k)
   BY <1>1, <1>2, <1>3, TrackLiteral
 <2>4. row2 \subseteq 0..Len(s)  BY <2>1
 <2>5. Tracks(new, row2, s, p, n)  BY <2>1, <2>2, <2>3, <2>4, Zenon DEF Tracks
 <2> QED  BY <1>1, <2>5 DEF new, row2
<1> QED  BY <1>4, <1>5, <1>6

\* A pattern matches a string that its fragments can be placed in.
LEMMA MatchesPlaces ==
  ASSUME NEW C, NEW s \in Seq(C), NEW p \in Seq(C), Backslash \in C
  PROVE  /\ Split(Scan(p), C)
         /\ GlobMatches(s, p) <=> Places(s, Scan(p).frags, Len(s))
<1> DEFINE N == Len(p)
<1>1. N \in Nat /\ Len(s) \in Nat  OBVIOUS
<1>2. PICK m : IsMatching(m, s, p, N) /\ (GlobMatches(s, p) <=> Len(s) \in m[N])
  BY GlobMatchesIs
<1> DEFINE sc == CHOOSE w : IsScan(w, p, N)
<1>3. IsScan(sc, p, N)  BY <1>1, ScanExists
<1> DEFINE end == sc[N]
<1>4. Scan(p) = [end EXCEPT !.frags = Append(@, IF end.escape THEN Append(end.working, Backslash)
                                               ELSE end.working)]
  BY Zenon DEF Scan, IsScan
<1> HIDE DEF sc
<1>16. IsMatching(m, s, p, N)  BY <1>2
<1>17. sc[0] = Fresh /\ \A k \in 1..N : sc[k] = ScanChar(sc[k-1], p[k])
  BY <1>1, <1>3, ScanSteps
<1>18. m[0] = {0} /\ \A k \in 1..N : m[k] = MatchTurn(m[k-1], s, p, k)
  BY <1>1, <1>16, MatchSteps
<1> DEFINE T == {n \in Nat : n <= N => Scanned(sc[n], C, p, n) /\ Tracks(sc[n], m[n], s, p, n)}
<1>5. 0 \in T
 <2>1. sc[0] = Fresh /\ m[0] = {0}  BY <1>17, <1>18
 <2>2. Scanned(Fresh, C, p, 0)
  <3>1. <<>> \in Seq(C) /\ <<>> \in Seq(Seq(C))  OBVIOUS
  <3> QED  BY <3>1 DEF Scanned, ScanState, Fresh
 <2> QED  BY <2>1, <2>2, TrackFresh
<1>6. ASSUME NEW n \in Nat, n \in T  PROVE n + 1 \in T
 <2> SUFFICES ASSUME n + 1 <= N
              PROVE  Scanned(sc[n+1], C, p, n+1) /\ Tracks(sc[n+1], m[n+1], s, p, n+1)
   OBVIOUS
 <2> DEFINE i == n + 1
 <2>1. i \in 1..N /\ i - 1 = n /\ n <= N  BY <1>1
 <2>2. Scanned(sc[i-1], C, p, i-1) /\ Tracks(sc[i-1], m[i-1], s, p, i-1)
   BY <1>6, <2>1
 <2> HIDE DEF i
 <2>3. sc[i] = ScanChar(sc[i-1], p[i]) /\ m[i] = MatchTurn(m[i-1], s, p, i)
   BY <1>17, <1>18, <2>1, Zenon
 <2>4. Scanned(sc[i], C, p, i) /\ Tracks(sc[i], m[i], s, p, i)
   BY <2>1, <2>2, <2>3, TrackTurn
 <2> QED  BY <2>4 DEF i
<1>7. Scanned(end, C, p, N) /\ Tracks(end, m[N], s, p, N)
 <2>1. Nat \subseteq T
  <3> HIDE DEF T
  <3> QED  BY <1>5, <1>6, SetInduction
 <2> QED  BY <1>1, <2>1
<1> HIDE DEF end
<1> DEFINE w == Working(end, p, N)
<1>8. w = IF end.escape THEN Append(end.working, Backslash) ELSE end.working
  BY <1>1 DEF Working, VanishesAt
<1>9. /\ end.frags \in Seq(Seq(C)) /\ end.working \in Seq(C) /\ end \in ScanState(C)
      /\ end.leading \in BOOLEAN /\ end.trailing \in BOOLEAN /\ end.escape \in BOOLEAN
  BY <1>7 DEF Scanned, ScanState
<1>10. w \in Seq(C)  BY <1>8, <1>9
<1>11. Scan(p) = [end EXCEPT !.frags = Append(end.frags, w)]
  BY <1>4, <1>8, Zenon
<1> HIDE DEF w
<1> DEFINE all == Append(end.frags, w)  S == Seq(C)  fs == end.frags
<1>12. /\ all \in Seq(S) /\ Len(all) = Len(fs) + 1 /\ all[Len(all)] = w
       /\ \A k \in 1..Len(fs) : all[k] = fs[k]
       /\ Len(fs) \in Nat /\ (fs = <<>> <=> Len(fs) = 0)
 <2>1. fs \in Seq(S) /\ w \in S  BY <1>9, <1>10
 <2> HIDE DEF S, fs
 <2>2. /\ Append(fs, w) \in Seq(S) /\ Len(Append(fs, w)) = Len(fs) + 1 /\ Append(fs, w)[Len(fs) + 1] = w
       /\ \A k \in 1..Len(fs) : Append(fs, w)[k] = fs[k]
   BY <2>1, AppendProperties
 <2>3. Len(fs) \in Nat /\ (fs = <<>> <=> Len(fs) = 0)  BY <2>1, EmptySeq
 <2> QED  BY <2>2, <2>3 DEF fs
<1> HIDE DEF all
<1>13. Scan(p).frags = all /\ Scan(p).leading = end.leading /\ Scan(p).trailing = end.trailing
  BY <1>9, <1>11 DEF ScanState, all
<1>14. Split(Scan(p), C)
 <2>1. all # <<>>
  <3>1. Len(all) # 0  BY <1>12
  <3> QED  BY <3>1
 <2>2. end.leading <=> Len(all) > 1 /\ all[1] = <<>>
  <3>1. end.leading <=> fs # <<>> /\ fs[1] = <<>>  BY <1>7 DEF Scanned
  <3>2. fs # <<>> => all[1] = fs[1]  BY <1>12
  <3>3. fs # <<>> <=> Len(all) > 1  BY <1>12
  <3> HIDE DEF fs
  <3> QED  BY <3>1, <3>2, <3>3
 <2>3. end.trailing => Len(all) > 1 /\ all[Len(all)] = <<>>
  <3>1. end.trailing => fs # <<>> /\ w = <<>>  BY <1>7, <1>8, <1>9 DEF Scanned
  <3>2. fs # <<>> <=> Len(all) > 1  BY <1>12
  <3> HIDE DEF fs
  <3> QED  BY <1>12, <3>1, <3>2
 <2> QED  BY <1>9, <1>12, <1>13, <2>1, <2>2, <2>3 DEF Split
<1>15. Len(s) \in m[N] <=> Places(s, all, Len(s))
 <2>1. Len(s) \in 0..Len(s)  BY <1>1
 <2> QED  BY <1>7, <2>1 DEF Tracks, Fragments, all, w
<1> QED  BY <1>2, <1>13, <1>14, <1>15

----------------------------------------------------------------------------
(* The greedy placement                                                    *)

\* The minimum of a set of natural numbers is one of them, and the least.
LEMMA MinInT ==
  ASSUME NEW T \in SUBSET Nat, T # {}
  PROVE  Min(T) \in T /\ \A m \in T : Min(T) <= m
<1>1. PICK n \in T : \A m \in T : n <= m  BY LeastNumber
<1> QED  BY <1>1 DEF Min

\* FirstPlace finds the earliest place.
LEMMA FirstPlaceIs ==
  ASSUME NEW C, NEW s, NEW f, NEW n, NEW end,
         s \in Seq(C), f \in Seq(C), n \in Nat, end \in Int, end <= Len(s)
  PROVE  Earliest(FirstPlace(s, f, n, end), s, f, n, end)
<1> DEFINE found == {k \in n..Len(s) : OccursAfter(s, f, k)}
           x == FirstPlace(s, f, n, end)
           N == Len(s)
           L == Len(f)
<1>1. N \in Nat /\ L \in Nat  OBVIOUS
<1>2. x = IF found = {} \/ Min(found) + L > end THEN N + 1 ELSE Min(found) + L
  BY DEF FirstPlace
<1>3. found \in SUBSET Nat  OBVIOUS
<1>4. ASSUME NEW e \in 0..end, n <= e - L, OccursAfter(s, f, e - L)
      PROVE  e - L \in found
 <2>1. e - L \in n..N  BY <1>1, <1>4
 <2> QED  BY <1>4, <2>1
<1>5. \A k \in found : k \in Nat /\ n <= k /\ k <= N /\ OccursAfter(s, f, k)
  OBVIOUS
<1> HIDE DEF found, x, N, L
<1>6. CASE found = {}
 <2>1. x = N + 1 /\ x \in Nat  BY <1>1, <1>2, <1>6
 <2>2. ASSUME NEW e \in 0..end, n <= e - L, OccursAfter(s, f, e - L)  PROVE x <= e
   BY <1>4, <1>6, <2>2
 <2> QED  BY <1>1, <2>1, <2>2 DEF Earliest, x, N, L
<1>7. CASE found # {}
 <2> DEFINE k == Min(found)
 <2>1. k \in found /\ \A j \in found : k <= j  BY <1>3, <1>7, MinInT, Zenon
 <2> HIDE DEF k
 <2>2. k \in Nat /\ n <= k /\ k <= N /\ OccursAfter(s, f, k)  BY <1>5, <2>1
 <2>3. ASSUME NEW e \in 0..end, n <= e - L, OccursAfter(s, f, e - L)  PROVE k + L <= e /\ e <= end
  <3>1. k <= e - L  BY <1>4, <2>1, <2>3
  <3> QED  BY <1>1, <2>2, <3>1
 <2>4. CASE k + L > end
  <3>1. x = N + 1  BY <1>2, <2>4 DEF k
  <3>2. ASSUME NEW e \in 0..end, n <= e - L, OccursAfter(s, f, e - L)  PROVE FALSE
   <4>1. k + L <= e /\ e <= end  BY <2>3, <3>2
   <4> QED  BY <1>1, <2>2, <2>4, <4>1
  <3> QED  BY <1>1, <3>1, <3>2 DEF Earliest, x, N, L
 <2>5. CASE ~(k + L > end)
  <3>1. x = k + L  BY <1>2, <1>7, <2>5 DEF k
  <3>2. x \in Nat /\ x <= end /\ x - L = k  BY <1>1, <2>2, <2>5, <3>1
  <3>3. \A e \in 0..end : n <= e - L /\ OccursAfter(s, f, e - L) => x <= e
    BY <2>3, <3>1
  <3> QED  BY <2>2, <3>2, <3>3 DEF Earliest, x, L
 <2> QED  BY <2>4, <2>5
<1> QED  BY <1>6, <1>7

\* There always is a cursor.
LEMMA CursorExists ==
  ASSUME NEW s, NEW frags, NEW start, NEW end, NEW from, NEW length \in Nat, from \in Nat, from > 0
  PROVE  \E cursor : IsCursor(cursor, s, frags, start, end, from, length)
<1> DEFINE Is(v, n) == IsCursor(v, s, frags, start, end, from, n)
           T == {n \in Nat : \E v : Is(v, n)}
<1>1. 0 \in T
 <2> DEFINE v == [n \in 0..0 |-> start]
 <2>1. \A n \in 0..0 : n < from  OBVIOUS
 <2>2. v = [n \in 0..0 |-> IF n < from THEN start ELSE PlaceMiddle(s, frags[n], v[n-1], end)]
   BY <2>1, Zenon
 <2> HIDE DEF v
 <2>3. Is(v, 0)  BY <2>2 DEF IsCursor
 <2> QED  BY <2>3
<1>2. ASSUME NEW n \in Nat, n \in T  PROVE n + 1 \in T
 <2>1. PICK w : Is(w, n)  BY <1>2
 <2> DEFINE v == [k \in 0..n+1 |-> IF k < from THEN start ELSE PlaceMiddle(s, frags[k], w[k-1], end)]
 <2>2. ASSUME NEW k \in 0..n  PROVE v[k] = w[k]
  <3>1. w[k] = IF k < from THEN start ELSE PlaceMiddle(s, frags[k], w[k-1], end)
    BY <2>1, Zenon DEF IsCursor
  <3>2. k \in 0..n+1  OBVIOUS
  <3> QED  BY <3>1, <3>2, Zenon
 <2>3. \A k \in 0..n+1 : k < from \/ v[k-1] = w[k-1]
  <3>1. \A k \in 0..n+1 : k < from \/ k - 1 \in 0..n  OBVIOUS
  <3> HIDE DEF v
  <3> QED  BY <2>2, <3>1
 <2>4. v = [k \in 0..n+1 |-> IF k < from THEN start ELSE PlaceMiddle(s, frags[k], v[k-1], end)]
   BY <2>3, Zenon
 <2> HIDE DEF v
 <2>5. Is(v, n + 1)  BY <2>4 DEF IsCursor
 <2> QED  BY <2>5
<1> HIDE DEF T
<1>3. length \in T  BY <1>1, <1>2, SetInduction
<1> QED  BY <1>3 DEF T

\* The steps of a cursor.
LEMMA CursorSteps ==
  ASSUME NEW s, NEW frags, NEW start, NEW end, NEW from, NEW length \in Nat, NEW cursor, 
         IsCursor(cursor, s, frags, start, end, from, length)
  PROVE  \A n \in 0..length :
           cursor[n] = IF n < from THEN start ELSE PlaceMiddle(s, frags[n], cursor[n-1], end)
BY Zenon DEF IsCursor

\* The first n fragments are n fragments, and those.
LEMMA FirstIs ==
  ASSUME NEW S, NEW frags \in Seq(S), NEW n \in 0..Len(frags)
  PROVE  /\ First(frags, n) \in Seq(S) /\ Len(First(frags, n)) = n
         /\ \A i \in 1..n : First(frags, n)[i] = frags[i]
<1>1. Len(frags) \in Nat  OBVIOUS
<1>2. \A i \in 1..n : frags[i] \in S  BY <1>1
<1> QED  BY <1>1, <1>2, SubSeqProperties DEF First

\* One more of them.
LEMMA FirstMore ==
  ASSUME NEW S, NEW frags \in Seq(S), NEW n \in 1..Len(frags)
  PROVE  First(frags, n) = Append(First(frags, n - 1), frags[n])
<1>1. /\ Len(frags) \in Nat /\ n \in 0..Len(frags) /\ n - 1 \in 0..Len(frags) /\ (n - 1) + 1 = n
      /\ frags[n] \in S
  OBVIOUS
<1> DEFINE a == First(frags, n)  b == First(frags, n - 1)  c == frags[n]
<1>2. a \in Seq(S) /\ Len(a) = n /\ \A i \in 1..n : a[i] = frags[i]
  BY <1>1, FirstIs
<1>3. b \in Seq(S) /\ Len(b) = n - 1 /\ \A i \in 1..n-1 : b[i] = frags[i]
  BY <1>1, FirstIs
<1> HIDE DEF a, b
<1> DEFINE d == Append(b, c)
<1>4. d \in Seq(S) /\ Len(d) = n /\ d[n] = c /\ \A i \in 1..n-1 : d[i] = b[i]
  BY <1>1, <1>3, AppendProperties
<1> HIDE DEF d
<1>5. \A i \in 1..n : i = n \/ i \in 1..n-1  BY <1>1
<1>6. \A i \in 1..n : a[i] = d[i]  BY <1>2, <1>3, <1>4, <1>5
<1>7. a = d  BY <1>2, <1>4, <1>6, SeqEqual
<1> QED  BY <1>7 DEF a, d, b

\* The first fragment ends where it ends.
LEMMA GreedyFirst ==
  ASSUME NEW C, NEW s, NEW frags, NEW end, s \in Seq(C), frags \in Seq(Seq(C)), frags # <<>>,
         end \in 0..Len(s)
  PROVE  Greedy(Len(frags[1]), s, frags, 1, end)
<1> DEFINE S == Seq(C)
<1>1. frags \in Seq(S) /\ 1 \in 1..Len(frags) /\ 1 - 1 = 0
 <2>1. frags \in Seq(S)  OBVIOUS
 <2> HIDE DEF S
 <2> QED  BY <2>1, EmptySeq
<1> HIDE DEF S
<1>2. First(frags, 1) = Append(First(frags, 0), frags[1])  BY <1>1, FirstMore
<1>3. First(frags, 0) = <<>>
 <2>1. 0 \in 0..Len(frags)  BY <1>1
 <2>2. First(frags, 0) \in Seq(S) /\ Len(First(frags, 0)) = 0
   BY <1>1, <2>1, FirstIs
 <2> QED  BY <2>2, EmptySeq
<1>4. frags[1] \in Seq(C)  BY <1>1 DEF S
<1> DEFINE f == frags[1]  L == Len(f)
<1>5. L \in Nat /\ Len(s) \in Nat  BY <1>4
<1>6. ASSUME NEW k \in 0..Len(s)
      PROVE  Places(s, First(frags, 1), k) <=> OccursAfter(s, f, 0) /\ k = L
 <2>1. f \in Seq(C) /\ <<>> \in Seq(Seq(C))  BY <1>4
 <2> HIDE DEF f
 <2>2. Places(s, Append(<<>>, f), k) <=> OccursAfter(s, f, k - Len(f)) /\ Ready(s, <<>>, k - Len(f))
   BY <2>1, LastPlaced
 <2>3. Ready(s, <<>>, k - Len(f)) <=> k - Len(f) = 0  BY DEF Ready
 <2>4. k - Len(f) = 0 <=> k = L  BY <1>5
 <2>5. First(frags, 1) = Append(<<>>, f)  BY <1>2, <1>3 DEF f
 <2> QED  BY <2>2, <2>3, <2>4, <2>5
<1> HIDE DEF f, L
<1>7. \A e \in 0..end : e \in 0..Len(s)  BY <1>5
<1> QED  BY <1>5, <1>6, <1>7 DEF Greedy, f, L

\* The next one goes to its first occurrence behind those before it.
LEMMA GreedyNext ==
  ASSUME NEW C, NEW s, NEW frags, NEW end, NEW n, NEW c, NEW d,
         s \in Seq(C), frags \in Seq(Seq(C)), end \in 0..Len(s), n \in 2..Len(frags),
         Greedy(c, s, frags, n - 1, end), Earliest(d, s, frags[n], c, end)
  PROVE  Greedy(d, s, frags, n, end)
<1> DEFINE S == Seq(C)  f == frags[n]  L == Len(f)  N == Len(s)  one == Len(frags[1])
           before == First(frags, n - 1)
<1>1. frags \in Seq(S) /\ n \in 1..Len(frags) /\ n - 1 \in 0..Len(frags) /\ n - 1 # 0
  OBVIOUS
<1>2. f \in Seq(C) /\ frags[1] \in Seq(C)
 <2> HIDE DEF S
 <2>1. f \in S /\ frags[1] \in S  BY <1>1
 <2> QED  BY <2>1 DEF S
<1>3. L \in Nat /\ N \in Nat /\ one \in Nat  BY <1>2
<1> HIDE DEF S
<1>4. before \in Seq(S) /\ before # <<>> /\ First(frags, n) = Append(before, f)
 <2>1. First(frags, n) = Append(before, f)  BY <1>1, FirstMore
 <2>2. before \in Seq(S) /\ Len(before) = n - 1  BY <1>1, FirstIs
 <2> HIDE DEF before, f
 <2> QED  BY <1>1, <2>1, <2>2, EmptySeq
<1> HIDE DEF before, f, L, N, one
<1>5. ASSUME NEW k \in 0..N
      PROVE  Places(s, First(frags, n), k) <=>
               OccursAfter(s, f, k - L) /\ \E j \in 0..k - L : Places(s, before, j)
 <2>1. before \in Seq(Seq(C)) /\ k \in 0..Len(s)  BY <1>4 DEF S, N
 <2>2. Places(s, Append(before, f), k) <=> OccursAfter(s, f, k - Len(f)) /\ Ready(s, before, k - Len(f))
   BY <1>2, <2>1, LastPlaced
 <2>3. Ready(s, before, k - Len(f)) <=> \E j \in 0..k - Len(f) : Places(s, before, j)
   BY <1>4, Zenon DEF Ready
 <2> QED  BY <1>4, <2>2, <2>3 DEF L
<1>6. /\ c \in Nat
      /\ c <= N => one <= c
      /\ c <= N /\ OccursAfter(s, frags[1], 0) /\ one <= end => c <= end /\ Places(s, before, c)
      /\ \A e \in 0..end : Places(s, before, e) => c <= e
  BY DEF Greedy, before, N, one
<1>7. /\ d \in Nat
      /\ d <= N => d <= end /\ c <= d - L /\ OccursAfter(s, f, d - L)
      /\ \A e \in 0..end : c <= e - L /\ OccursAfter(s, f, e - L) => d <= e
  BY DEF Earliest, f, L, N
<1>8. end \in Nat /\ end <= N  BY <1>3 DEF N
<1>9. ASSUME d <= N  PROVE one <= d /\ c <= N /\ c \in 0..d - L
  BY <1>3, <1>6, <1>7, <1>8, <1>9
<1>10. ASSUME d <= N, OccursAfter(s, frags[1], 0), one <= end
       PROVE  d <= end /\ Places(s, First(frags, n), d)
 <2>1. d \in 0..N  BY <1>3, <1>7, <1>10
 <2> QED  BY <1>5, <1>6, <1>7, <1>9, <1>10, <2>1
<1>11. ASSUME NEW e \in 0..end, Places(s, First(frags, n), e)  PROVE d <= e
 <2>1. e \in 0..N  BY <1>3, <1>8
 <2>2. OccursAfter(s, f, e - L)  BY <1>5, <1>11, <2>1
 <2>3. PICK j \in 0..e - L : Places(s, before, j)  BY <1>5, <1>11, <2>1
 <2>4. j \in 0..end /\ j <= e - L  BY <1>3, <1>8
 <2>5. c <= j  BY <1>6, <2>3, <2>4
 <2>6. c <= e - L  BY <1>3, <1>6, <2>4, <2>5
 <2> QED  BY <1>7, <2>2, <2>6
<1> QED  BY <1>7, <1>9, <1>10, <1>11 DEF Greedy, N, one

\* Fragments are placed from the start of s on.
LEMMA PlacesStart ==
  ASSUME NEW C, NEW s, NEW frs, NEW k, s \in Seq(C), frs \in Seq(Seq(C)), frs # <<>>, Places(s, frs, k)
  PROVE  OccursAfter(s, frs[1], 0)
<1> DEFINE S == Seq(C)
<1>1. frs \in Seq(S)  OBVIOUS
<1> HIDE DEF S
<1>2. 1 \in 1..Len(frs) /\ frs[1] \in S  BY <1>1, EmptySeq
<1>3. Len(frs[1]) \in Nat  BY <1>2 DEF S
<1>4. PICK pos : Placed(s, frs, k, pos)  BY DEF Places
<1>5. OccursAfter(s, frs[1], pos[1] - Len(frs[1])) /\ pos[1] = Len(frs[1])
  BY <1>2, <1>4 DEF Placed
<1>6. pos[1] - Len(frs[1]) = 0  BY <1>3, <1>5
<1> QED  BY <1>5, <1>6

\* The last fragment ends s; the others are placed before it if they are when
\* each is put as early as it can be.
LEMMA PlacesByGreed ==
  ASSUME NEW C, NEW s, NEW frags, NEW c, NEW end, s \in Seq(C), frags \in Seq(Seq(C)), Len(frags) > 1,
         end = Len(s) - Len(frags[Len(frags)]), end >= 0, Greedy(c, s, frags, Len(frags) - 1, end)
  PROVE  Places(s, frags, Len(s)) <=>
           /\ OccursAfter(s, frags[1], 0) /\ OccursAfter(s, frags[Len(frags)], end)
           /\ Len(frags[1]) <= end /\ c <= Len(s)
<1> DEFINE S == Seq(C)  last == Len(frags)  f == frags[last]  N == Len(s)  one == Len(frags[1])
           before == First(frags, last - 1)
<1>1. frags \in Seq(S) /\ last \in Nat /\ last > 1 /\ last \in 1..last /\ last - 1 \in 0..last /\ last - 1 # 0
  OBVIOUS
<1>2. f \in Seq(C) /\ frags[1] \in Seq(C)
 <2> HIDE DEF S
 <2>1. f \in S /\ frags[1] \in S  BY <1>1
 <2> QED  BY <2>1 DEF S
<1>3. Len(f) \in Nat /\ N \in Nat /\ one \in Nat  BY <1>2
<1> HIDE DEF S
<1>4. before \in Seq(S) /\ before # <<>> /\ frags = Append(before, f)
 <2>1. First(frags, last) = Append(before, f)  BY <1>1, FirstMore
 <2>2. before \in Seq(S) /\ Len(before) = last - 1  BY <1>1, FirstIs
 <2>3. First(frags, last) = frags
  <3> DEFINE all == First(frags, last)
  <3>1. all \in Seq(S) /\ Len(all) = last /\ \A i \in 1..last : all[i] = frags[i]
   <4>1. last \in 0..Len(frags)  BY <1>1
   <4> QED  BY <1>1, <4>1, FirstIs
  <3> HIDE DEF all
  <3>2. all = frags  BY <1>1, <3>1, SeqEqual
  <3> QED  BY <3>2 DEF all
 <2> HIDE DEF before, f
 <2> QED  BY <1>1, <2>1, <2>2, <2>3, EmptySeq
<1>5. end = N - Len(f) /\ end >= 0 /\ end <= N /\ end \in Nat  BY <1>3
<1>6. /\ c \in Nat
      /\ c <= N => one <= c
      /\ c <= N /\ OccursAfter(s, frags[1], 0) /\ one <= end => c <= end /\ Places(s, before, c)
      /\ \A e \in 0..end : Places(s, before, e) => c <= e
  BY DEF Greedy
<1> HIDE DEF before, f, last, N, one
<1>7. Places(s, frags, N) <=> OccursAfter(s, f, end) /\ \E j \in 0..end : Places(s, before, j)
 <2>1. before \in Seq(Seq(C)) /\ N \in 0..Len(s) /\ N - Len(f) = end
   BY <1>3, <1>4, <1>5 DEF S, N
 <2>2. Places(s, Append(before, f), N) <=> OccursAfter(s, f, N - Len(f)) /\ Ready(s, before, N - Len(f))
   BY <1>2, <2>1, LastPlaced
 <2>3. Ready(s, before, end) <=> \E j \in 0..end : Places(s, before, j)
   BY <1>4, Zenon DEF Ready
 <2> QED  BY <1>4, <2>1, <2>2, <2>3
<1>8. ASSUME Places(s, frags, N)
      PROVE  OccursAfter(s, frags[1], 0) /\ OccursAfter(s, f, end) /\ one <= end /\ c <= N
 <2>1. PICK j \in 0..end : Places(s, before, j)  BY <1>7, <1>8
 <2>2. c <= j /\ j <= end  BY <1>6, <2>1
 <2>3. c <= end /\ end <= N  BY <1>5, <1>6, <2>2
 <2>4. c <= N /\ one <= c
  <3>1. c <= N  BY <1>3, <1>5, <1>6, <2>3
  <3> QED  BY <1>6, <3>1
 <2>5. c <= N /\ one <= end  BY <1>3, <1>5, <1>6, <2>3, <2>4
 <2>6. OccursAfter(s, frags[1], 0)
  <3>1. frags \in Seq(Seq(C)) /\ frags # <<>>
   <4>1. Len(frags) # 0  BY <1>1 DEF last
   <4> QED  BY <4>1
  <3> QED  BY <1>8, <3>1, PlacesStart
 <2> QED  BY <1>7, <1>8, <2>5, <2>6
<1>9. ASSUME OccursAfter(s, frags[1], 0), OccursAfter(s, f, end), one <= end, c <= N
      PROVE  Places(s, frags, N)
 <2>1. c \in 0..end /\ Places(s, before, c)  BY <1>5, <1>6, <1>9
 <2> QED  BY <1>7, <1>9, <2>1
<1> QED  BY <1>8, <1>9 DEF f, last, N, one

\* To be the string is to occur in all of it.
LEMMA OccursWhole ==
  ASSUME NEW C, NEW s, NEW f, s \in Seq(C), f \in Seq(C)
  PROVE  s = f <=> OccursAfter(s, f, 0) /\ Len(s) = Len(f)
<1>1. Len(s) \in Nat /\ Len(f) \in Nat /\ 0 \in Int  OBVIOUS
<1>2. OccursAfter(s, f, 0) <=> 0 >= 0 /\ 0 + Len(f) <= Len(s) /\ \A j \in 1..Len(f) : s[0 + j] = f[j]
 <2>1. OccursAfter(s, f, 0) <=> StandsAt(s, f, 0)
   BY <1>1, OccursIs
 <2> QED  BY <2>1, Zenon DEF StandsAt
<1>3. \A j \in 1..Len(f) : 0 + j = j  BY <1>1
<1>4. ASSUME s = f  PROVE OccursAfter(s, f, 0) /\ Len(s) = Len(f)
  BY <1>1, <1>2, <1>3, <1>4
<1>5. ASSUME OccursAfter(s, f, 0), Len(s) = Len(f)  PROVE s = f
 <2>1. \A j \in 1..Len(f) : s[j] = f[j]  BY <1>2, <1>3, <1>5
 <2> QED  BY <1>5, <2>1, SeqEqual
<1> QED  BY <1>4, <1>5

\* A single fragment is the whole string.
LEMMA PlacesOne ==
  ASSUME NEW C, NEW s, NEW frags, s \in Seq(C), frags \in Seq(Seq(C)), Len(frags) \in {1}
  PROVE  Places(s, frags, Len(s)) <=> s = frags[1]
<1> DEFINE S == Seq(C)  f == frags[1]
<1>0. Len(frags) = 1 /\ 1 \in 1..Len(frags)  OBVIOUS
<1>1. frags \in Seq(S)  OBVIOUS
<1> HIDE DEF S
<1>2. f \in Seq(C)
 <2>1. f \in S  BY <1>0, <1>1, ElementOfSeq, Zenon
 <2> QED  BY <2>1 DEF S
<1>3. Len(f) \in Nat /\ Len(s) \in Nat  BY <1>2
<1> HIDE DEF f
<1>4. s = f <=> OccursAfter(s, f, 0) /\ Len(s) = Len(f)  BY <1>2, OccursWhole
<1>5. ASSUME Places(s, frags, Len(s))  PROVE OccursAfter(s, f, 0) /\ Len(s) = Len(f)
 <2>1. PICK pos : Placed(s, frags, Len(s), pos)  BY <1>5 DEF Places
 <2>2. pos[1] = Len(f) /\ pos[1] = Len(s) /\ OccursAfter(s, f, pos[1] - Len(f))
   BY <1>0, <2>1, Zenon DEF Placed, f
 <2>3. pos[1] - Len(f) = 0  BY <1>3, <2>2
 <2> QED  BY <2>2, <2>3
<1>6. ASSUME OccursAfter(s, f, 0), Len(s) = Len(f)  PROVE Places(s, frags, Len(s))
 <2> DEFINE k == Len(s)  pos == [i \in 1..1 |-> k]
 <2>1. /\ pos \in [1..1 -> 0..k] /\ pos[1] = k /\ k - Len(f) = 0  BY <1>3, <1>6
 <2> HIDE DEF pos, k
 <2>2. 2..1 = {} /\ \A i \in 1..1 : i = 1  OBVIOUS
 <2>3. Placed(s, frags, k, pos)  BY <1>0, <1>6, <2>1, <2>2 DEF Placed, f, k
 <2> QED  BY <2>3 DEF Places, k
<1> QED  BY <1>4, <1>5, <1>6 DEF f

\* The last fragment ends the string.
LEMMA PlacesEnd ==
  ASSUME NEW C, NEW s, NEW frags, NEW k, s \in Seq(C), frags \in Seq(Seq(C)), Len(frags) > 1,
         Places(s, frags, k)
  PROVE  OccursAfter(s, frags[Len(frags)], k - Len(frags[Len(frags)]))
<1>1. Len(frags) \in 1..Len(frags)  OBVIOUS
<1>2. PICK pos : Placed(s, frags, k, pos)  BY DEF Places
<1> QED  BY <1>1, <1>2 DEF Placed

\* Nothing is put where it is looked for.
LEMMA EarliestNothing ==
  ASSUME NEW C, NEW s, NEW x, NEW n, NEW end, s \in Seq(C), n \in Nat, end \in 0..Len(s),
         Earliest(x, s, <<>>, n, end)
  PROVE  /\ x <= Len(s) <=> n <= end
         /\ n <= end => x = n
<1>1. Len(<<>>) = 0 /\ Len(s) \in Nat  OBVIOUS
<1>2. /\ x \in Nat
      /\ x <= Len(s) => x <= end /\ n <= x
      /\ \A e \in 0..end : n <= e /\ OccursAfter(s, <<>>, e) => x <= e
 <2>1. \A e \in 0..end : e - 0 = e  OBVIOUS
 <2>2. x \in Nat => x - 0 = x  OBVIOUS
 <2> QED  BY <1>1, <2>1, <2>2 DEF Earliest
<1>3. CASE n <= end
 <2>1. n \in 0..end /\ n <= n /\ n \in Int /\ n >= 0 /\ n <= Len(s)
   BY <1>1, <1>3
 <2>2. OccursAfter(s, <<>>, n)  BY <2>1, OccursNothing
 <2>3. x <= n  BY <1>2, <2>1, <2>2
 <2> QED  BY <1>1, <1>2, <1>3, <2>1, <2>3
<1>4. CASE ~(n <= end)  BY <1>1, <1>2, <1>4
<1> QED  BY <1>3, <1>4

\* The places that glob puts the fragments at are the earliest.
LEMMA CursorIsGreedy ==
  ASSUME NEW C, NEW s, NEW frags, NEW end, NEW from, NEW cursor,
         s \in Seq(C), frags \in Seq(Seq(C)), Len(frags) > 1, end \in 0..Len(s),
         from \in {1, 2}, from = 1 => frags[1] = <<>>,
         IsCursor(cursor, s, frags, Len(frags[1]), end, from, Len(frags))
  PROVE  \A n \in 1..Len(frags) - 1 : Greedy(cursor[n], s, frags, n, end)
<1> DEFINE S == Seq(C)  last == Len(frags)  start == Len(frags[1])
<1>1. frags \in Seq(S) /\ last \in Nat /\ last > 1 /\ Len(s) \in Nat  OBVIOUS
<1>2. \A n \in 1..last : frags[n] \in Seq(C)  OBVIOUS
<1>3. start \in Nat /\ 1 \in 1..last
 <2>1. 1 \in 1..last  BY <1>1
 <2>2. frags[1] \in Seq(C)  BY <1>2, <2>1
 <2> QED  BY <2>1, <2>2
<1> HIDE DEF S
<1>4. \A n \in 0..last : cursor[n] = IF n < from THEN start ELSE FirstPlace(s, frags[n], cursor[n-1], end)
 <2>1. IsCursor(cursor, s, frags, start, end, from, last) /\ last \in Nat
   BY <1>1
 <2> HIDE DEF start, last
 <2>2. \A n \in 0..last : cursor[n] = IF n < from THEN start ELSE PlaceMiddle(s, frags[n], cursor[n-1], end)
   BY <2>1, Zenon DEF IsCursor
 <2> QED  BY <2>2 DEF PlaceMiddle
<1> HIDE DEF last, start
<1>5. frags # <<>>
 <2>1. Len(frags) # 0  BY <1>1 DEF last
 <2> QED  BY <2>1
<1>6. end \in Int /\ end <= Len(s) /\ end >= 0  BY <1>1
<1>7. cursor[1] = start
 <2>1. CASE from = 2
  <3>1. 1 \in 0..last /\ 1 < from  BY <1>1, <2>1
  <3> QED  BY <1>4, <3>1
 <2>2. CASE from = 1
  <3>1. 0 \in 0..last /\ 1 \in 0..last /\ 0 < from /\ ~(1 < from) /\ 1 - 1 = 0
    BY <1>1, <2>2
  <3>2. cursor[0] = start /\ cursor[1] = FirstPlace(s, frags[1], cursor[0], end)
    BY <1>4, <3>1
  <3>3. frags[1] = <<>> /\ <<>> \in Seq(C)  BY <2>2
  <3>4. start = 0  BY <3>3 DEF start
  <3>5. Earliest(cursor[1], s, <<>>, 0, end)
    BY <1>6, <3>2, <3>3, <3>4, FirstPlaceIs
  <3>6. 0 \in Nat /\ 0 <= end  BY <1>6
  <3> QED  BY <3>4, <3>5, <3>6, EarliestNothing
 <2> QED  BY <2>1, <2>2
<1> DEFINE T == {n \in Nat : n + 1 <= last - 1 => Greedy(cursor[n+1], s, frags, n + 1, end)}
<1>8. 0 \in T
 <2>1. Greedy(Len(frags[1]), s, frags, 1, end)  BY <1>5, GreedyFirst
 <2>2. 0 + 1 = 1 /\ 0 \in Nat  OBVIOUS
 <2> QED  BY <1>7, <2>1, <2>2 DEF start
<1>9. ASSUME NEW n \in Nat, n \in T  PROVE n + 1 \in T
 <2> DEFINE i == n + 1 + 1
 <2> SUFFICES ASSUME i <= last - 1
              PROVE  Greedy(cursor[i], s, frags, i, end)
   OBVIOUS
 <2>1. i \in 2..last /\ i - 1 = n + 1 /\ i \in 0..last /\ i \in 1..last /\ n + 1 <= last - 1 /\ ~(i < from)
   BY <1>1
 <2>2. Greedy(cursor[i-1], s, frags, i - 1, end)  BY <1>9, <2>1
 <2> HIDE DEF i
 <2>3. cursor[i-1] \in Nat  BY <2>2 DEF Greedy
 <2>4. cursor[i] = FirstPlace(s, frags[i], cursor[i-1], end)  BY <1>4, <2>1
 <2>5. frags[i] \in Seq(C)  BY <1>2, <2>1
 <2>6. Earliest(cursor[i], s, frags[i], cursor[i-1], end)
   BY <1>6, <2>3, <2>4, <2>5, FirstPlaceIs
 <2> QED  BY <2>1, <2>2, <2>6, GreedyNext DEF last
<1>10. Nat \subseteq T
 <2> HIDE DEF T
 <2> QED  BY <1>8, <1>9, SetInduction
<1> SUFFICES ASSUME NEW n \in 1..last - 1  PROVE Greedy(cursor[n], s, frags, n, end)
  BY DEF last
<1>11. n - 1 \in Nat /\ (n - 1) + 1 = n /\ n <= last - 1  BY <1>1
<1> QED  BY <1>10, <1>11

\* The greedy algorithm of glob matches exactly the strings that the pattern
\* means: it needs no other attempt, wherever the first one fails.
THEOREM GlobIsMatching ==
  ASSUME NEW C, NEW s, NEW p, s \in Seq(C), p \in Seq(C), Backslash \in C
  PROVE  Glob(s, p) <=> GlobMatches(s, p)
<1> DEFINE scan == Scan(p)
           frags == scan.frags
           last == Len(frags)
           start == IF scan.leading THEN 0 ELSE Len(frags[1])
           end == Len(s) - IF scan.trailing THEN 0 ELSE Len(frags[last])
           from == IF scan.leading THEN 1 ELSE 2
           to == IF scan.trailing THEN last ELSE last - 1
           cursor == CHOOSE w : IsCursor(w, s, frags, start, end, from, last)
<1>1. Split(scan, C) /\ (GlobMatches(s, p) <=> Places(s, frags, Len(s)))
  BY MatchesPlaces
<1>2. Glob(s, p) <=>
        IF last = 1 THEN s = frags[1]
        ELSE /\ scan.leading \/ OccursAfter(s, frags[1], 0)
             /\ scan.trailing \/ OccursAfter(s, frags[last], end)
             /\ start <= end
             /\ cursor[to] <= Len(s)
  BY Zenon DEF Glob, IsCursor
<1> HIDE DEF scan
<1>3. /\ frags \in Seq(Seq(C)) /\ frags # <<>> /\ scan.leading \in BOOLEAN /\ scan.trailing \in BOOLEAN
      /\ scan.leading => frags[1] = <<>>
      /\ scan.trailing => frags[last] = <<>>
  BY <1>1 DEF Split
<1> DEFINE S == Seq(C)  f == frags[1]  e == frags[last]
<1>4. /\ last \in Nat /\ last >= 1 /\ Len(s) \in Nat
      /\ f \in Seq(C) /\ e \in Seq(C) /\ Len(f) \in Nat /\ Len(e) \in Nat
 <2>1. frags \in Seq(S)  BY <1>3
 <2> HIDE DEF S
 <2>2. last \in Nat /\ last >= 1 /\ f \in S /\ e \in S
  <3> HIDE DEF frags
  <3>1. last \in Nat /\ last # 0  BY <1>3, <2>1, EmptySeq
  <3>2. 1 \in 1..last /\ last \in 1..last  BY <3>1
  <3> QED  BY <2>1, <3>1, <3>2
 <2>3. f \in Seq(C) /\ e \in Seq(C)  BY <2>2 DEF S
 <2> HIDE DEF f, e
 <2> QED  BY <2>2, <2>3
<1> HIDE DEF frags
<1>5. CASE last = 1  BY <1>1, <1>2, <1>3, <1>5, PlacesOne
<1>6. CASE last # 1
 <2>1. last > 1
  <3> HIDE DEF last
  <3> QED  BY <1>4, <1>6
 <2>2. scan.leading => f = <<>> /\ Len(f) = 0  BY <1>3
 <2>3. scan.trailing => e = <<>> /\ Len(e) = 0  BY <1>3
 <2>4. start = Len(f) /\ end = Len(s) - Len(e)  BY <1>4, <2>2, <2>3
 <2>5. from \in Nat /\ from > 0 /\ from \in {1, 2} /\ (from = 1 => f = <<>>)
   BY <1>3
 <2>6. IsCursor(cursor, s, frags, start, end, from, last)
  <3> HIDE DEF start, end, from, last
  <3> QED  BY <1>4, <2>5, CursorExists
 <2> HIDE DEF cursor
 <2>7. CASE end < 0
  <3>1. ~(start <= end) /\ end \in Int
   <4> DEFINE a == Len(f)  b == Len(e)  c == Len(s)
   <4>1. a \in Nat /\ b \in Nat /\ c \in Nat /\ start = a /\ end = c - b
     BY <1>4, <2>4
   <4> HIDE DEF start, end, a, b, c
   <4> QED  BY <2>7, <4>1
  <3>2. ASSUME Places(s, frags, Len(s))  PROVE FALSE
   <4>1. OccursAfter(s, e, Len(s) - Len(e))  BY <1>3, <2>1, <3>2, PlacesEnd
   <4>2. OccursAfter(s, e, end)  BY <2>4, <4>1
   <4> HIDE DEF end, e
   <4>3. end >= 0  BY <4>2 DEF OccursAfter
   <4> QED  BY <2>7, <3>1, <4>3
  <3> QED  BY <1>1, <1>2, <1>6, <3>1, <3>2
 <2>8. CASE ~(end < 0)
  <3>1. end \in 0..Len(s)  BY <1>4, <2>4, <2>8
  <3> DEFINE c == cursor[last-1]
  <3>2. \A n \in 1..last - 1 : Greedy(cursor[n], s, frags, n, end)
   <4>1. IsCursor(cursor, s, frags, Len(f), end, from, last)  BY <2>4, <2>6
   <4> HIDE DEF end, from
   <4> QED  BY <1>3, <2>1, <2>5, <3>1, <4>1, CursorIsGreedy
  <3>3. last - 1 \in 1..last - 1  BY <1>4, <2>1
  <3>4. Greedy(c, s, frags, last - 1, end)  BY <3>2, <3>3
  <3>5. c \in Nat  BY <3>4 DEF Greedy
  <3>6. cursor[to] <= Len(s) <=> c <= Len(s)
   <4>1. CASE ~scan.trailing  BY <4>1
   <4>2. CASE scan.trailing
    <5>1. to = last /\ end = Len(s) /\ e = <<>>  BY <1>4, <2>3, <2>4, <4>2
    <5>2. last \in 0..last /\ ~(last < from)  BY <1>4, <2>1
    <5>3. cursor[last] = PlaceMiddle(s, frags[last], cursor[last-1], end)
     <6> HIDE DEF start, end, from, last
     <6> QED  BY <1>4, <2>6, <5>2, CursorSteps
    <5>4. cursor[last] = FirstPlace(s, <<>>, c, end)
      BY <5>1, <5>3 DEF PlaceMiddle
    <5>5. <<>> \in Seq(C) /\ end \in Int /\ end <= Len(s)  BY <3>1
    <5> HIDE DEF end, c
    <5>6. Earliest(cursor[last], s, <<>>, c, end)
      BY <3>5, <5>4, <5>5, FirstPlaceIs
    <5>7. cursor[last] <= Len(s) <=> c <= end
      BY <3>1, <3>5, <5>6, EarliestNothing
    <5> QED  BY <5>1, <5>7
   <4> QED  BY <4>1, <4>2
  <3>7. OccursAfter(s, <<>>, 0) /\ OccursAfter(s, <<>>, Len(s))
   <4>1. 0 \in Int /\ Len(s) \in Int /\ 0 >= 0 /\ Len(s) >= 0 /\ 0 <= Len(s) /\ Len(s) <= Len(s)
     BY <1>4
   <4> QED  BY <4>1, OccursNothing
  <3>8. (scan.leading \/ OccursAfter(s, f, 0)) <=> OccursAfter(s, f, 0)
    BY <2>2, <3>7
  <3>9. (scan.trailing \/ OccursAfter(s, e, end)) <=> OccursAfter(s, e, end)
   <4>1. scan.trailing => end = Len(s) /\ e = <<>>  BY <1>4, <2>3, <2>4
   <4> HIDE DEF end, e
   <4> QED  BY <3>7, <4>1
  <3>10. Places(s, frags, Len(s)) <=>
           OccursAfter(s, f, 0) /\ OccursAfter(s, e, end) /\ Len(f) <= end /\ c <= Len(s)
   <4>1. end = Len(s) - Len(frags[Len(frags)]) /\ end >= 0 /\ Len(frags) > 1
     BY <2>1, <2>4, <3>1
   <4>2. Greedy(c, s, frags, Len(frags) - 1, end)  BY <3>4
   <4> HIDE DEF end, c
   <4> QED  BY <1>3, <4>1, <4>2, PlacesByGreed DEF f, e, last
  <3>11. Glob(s, p) <=> /\ OccursAfter(s, f, 0) /\ OccursAfter(s, e, end)
                       /\ Len(f) <= end /\ c <= Len(s)
   <4> HIDE DEF c, end, to, start, from, last
   <4> QED  BY <1>2, <1>6, <2>4, <3>6, <3>8, <3>9
  <3> QED  BY <1>1, <3>10, <3>11
 <2> QED  BY <2>7, <2>8
<1> QED  BY <1>5, <1>6

----------------------------------------------------------------------------
(* Recursion over a rank                                                   *)

\* Two such functions agree.
LEMMA GoodAgree ==
  ASSUME NEW S, NEW rank, NEW V, NEW G, IsStep(S, rank, V, G),
         NEW n \in Nat, NEW f \in [S -> V], NEW g \in [S -> V],
         Good(f, n, S, rank, G), Good(g, n, S, rank, G)
  PROVE  \A p \in S : rank[p] < n => f[p] = g[p]
<1> DEFINE T == {k \in Nat : \E p \in S : rank[p] = k /\ k < n /\ f[p] # g[p]}
<1>1. \A p \in S : rank[p] \in Nat  BY DEF IsStep
<1>2. T = {}
 <2> SUFFICES ASSUME T # {}  PROVE FALSE  OBVIOUS
 <2>1. PICK k \in T : \A m \in T : k <= m
  <3>1. T \in SUBSET Nat  OBVIOUS
  <3> HIDE DEF T
  <3> QED  BY <3>1, LeastNumber
 <2>2. PICK p \in S : rank[p] = k /\ k < n /\ f[p] # g[p]  BY <2>1
 <2>3. ASSUME NEW q \in S, rank[q] < rank[p]  PROVE f[q] = g[q]
  <3>1. rank[q] \in Nat /\ rank[q] < k /\ rank[q] < n /\ k \in Nat
    BY <1>1, <2>1, <2>2, <2>3
  <3>2. rank[q] \notin T  BY <2>1, <3>1
  <3> QED  BY <3>1, <3>2
 <2>4. G[p][f] = G[p][g]  BY <2>3, Zenon DEF IsStep
 <2> QED  BY <2>2, <2>4 DEF Good
<1> QED  BY <1>1, <1>2

\* So there is one function for all ranks: recursion over a rank defines it.
LEMMA Recursion ==
  ASSUME NEW S, NEW rank, NEW V, NEW G, IsStep(S, rank, V, G)
  PROVE  \E r \in [S -> V] : \A p \in S : r[p] = G[p][r]
<1> DEFINE T == {n \in Nat : \E g \in [S -> V] : Good(g, n, S, rank, G)}
<1>1. \A p \in S : rank[p] \in Nat  BY DEF IsStep
<1>2. 0 \in T
 <2>1. PICK v \in V : TRUE  BY DEF IsStep
 <2>2. [p \in S |-> v] \in [S -> V]  OBVIOUS
 <2>3. \A p \in S : ~(rank[p] < 0)  BY <1>1
 <2> QED  BY <2>2, <2>3 DEF Good
<1>3. ASSUME NEW n \in Nat, n \in T  PROVE n + 1 \in T
 <2>1. PICK g \in [S -> V] : Good(g, n, S, rank, G)  BY <1>3
 <2> DEFINE h == [p \in S |-> G[p][g]]
 <2>2. h \in [S -> V]  BY DEF IsStep
 <2>3. ASSUME NEW p \in S, rank[p] < n + 1  PROVE h[p] = G[p][h]
  <3>1. ASSUME NEW q \in S, rank[q] < rank[p]  PROVE g[q] = h[q]
   <4>1. rank[q] < n  BY <1>1, <2>3, <3>1
   <4> QED  BY <2>1, <4>1 DEF Good
  <3> HIDE DEF h
  <3>2. G[p][g] = G[p][h]  BY <2>2, <3>1, Zenon DEF IsStep
  <3> QED  BY <3>2 DEF h
 <2> HIDE DEF h
 <2>4. Good(h, n + 1, S, rank, G)  BY <2>3 DEF Good
 <2> QED  BY <2>2, <2>4
<1>4. Nat \subseteq T
 <2> HIDE DEF T
 <2> QED  BY <1>2, <1>3, SetInduction
<1> DEFINE At(n) == CHOOSE g \in [S -> V] : Good(g, n, S, rank, G)
           r == [p \in S |-> At(rank[p] + 1)[p]]
<1>5. \A n \in Nat : At(n) \in [S -> V] /\ Good(At(n), n, S, rank, G)  BY <1>4
<1> HIDE DEF T, At
<1>6. r \in [S -> V]
 <2>1. ASSUME NEW p \in S  PROVE At(rank[p] + 1)[p] \in V
  <3>1. At(rank[p] + 1) \in [S -> V]  BY <1>1, <1>5
  <3> QED  BY <3>1
 <2> QED  BY <2>1
<1>7. ASSUME NEW p \in S  PROVE r[p] = G[p][r]
 <2> DEFINE f == At(rank[p] + 1)
 <2>1. f \in [S -> V] /\ Good(f, rank[p] + 1, S, rank, G)  BY <1>1, <1>5
 <2>2. r[p] = f[p] /\ f[p] = G[p][f]
  <3>1. rank[p] < rank[p] + 1  BY <1>1
  <3> QED  BY <2>1, <3>1 DEF Good
 <2>3. ASSUME NEW q \in S, rank[q] < rank[p]  PROVE f[q] = r[q]
  <3> DEFINE g == At(rank[q] + 1)
  <3>1. g \in [S -> V] /\ Good(g, rank[q] + 1, S, rank, G) /\ r[q] = g[q]
    BY <1>1, <1>5
  <3>2. rank[q] + 1 \in Nat /\ rank[q] < rank[q] + 1 /\ \A a \in S : rank[a] < rank[q] + 1 => rank[a] < rank[p] + 1
    BY <1>1, <2>3
  <3> HIDE DEF f, g, r
  <3>3. Good(f, rank[q] + 1, S, rank, G)  BY <2>1, <3>2 DEF Good
  <3>4. \A a \in S : rank[a] < rank[q] + 1 => f[a] = g[a]
    BY <2>1, <3>1, <3>2, <3>3, GoodAgree
  <3> QED  BY <3>1, <3>2, <3>4
 <2> HIDE DEF f, r
 <2>4. G[p][f] = G[p][r]  BY <1>6, <2>1, <2>3, Zenon DEF IsStep
 <2> QED  BY <2>2, <2>4
<1> HIDE DEF r
<1> QED  BY <1>6, <1>7

\* What holds of an element when it holds of all those of lower rank, holds of all.
LEMMA RankInduction ==
  ASSUME NEW S, NEW rank \in [S -> Nat], NEW T,
         \A p \in S : (\A q \in S : rank[q] < rank[p] => q \in T) => p \in T
  PROVE  S \subseteq T
<1> DEFINE R == {k \in Nat : \E p \in S : rank[p] = k /\ p \notin T}
<1> SUFFICES ASSUME R # {}  PROVE FALSE  OBVIOUS
<1>1. PICK k \in R : \A m \in R : k <= m
 <2>1. R \in SUBSET Nat  OBVIOUS
 <2> HIDE DEF R
 <2> QED  BY <2>1, LeastNumber
<1>2. PICK p \in S : rank[p] = k /\ p \notin T  BY <1>1
<1>3. ASSUME NEW q \in S, rank[q] < rank[p]  PROVE q \in T
 <2>1. rank[q] \in Nat /\ ~(k <= rank[q]) /\ k \in Nat  BY <1>1, <1>2, <1>3
 <2> QED  BY <1>1, <2>1
<1> QED  BY <1>2, <1>3

----------------------------------------------------------------------------
(* What a selector gives a predicate                                       *)

\* A selector gives a value or an error.
LEMMA MeaningTyped ==
  ASSUME NEW fs \in Seq(Filter), NEW root \in Data
  PROVE  Meaning(fs, root).kind = "error" \/ Meaning(fs, root) \in Data
<1>1. PICK v : IsWay(v, fs, root, Len(fs)) /\ Meaning(fs, root) = Reached(v, fs)
  BY MeaningIsReached
<1>2. Len(fs) \in Nat  OBVIOUS
<1>3. v[0] = root /\ \A n \in 1..Len(fs) :
        v[n] = IF v[n-1].kind = "error" THEN v[n-1] ELSE Picks(v[n-1], InnerOf(fs[n]))
 <2>1. 0 \in 0..Len(fs) /\ \A n \in 1..Len(fs) : n \in 0..Len(fs) /\ n # 0
   BY <1>2
 <2>2. IsWay(v, fs, root, Len(fs))  BY <1>1
 <2> QED  BY <2>1, <2>2, Zenon DEF IsWay
<1> DEFINE Typed(x) == x.kind = "error" \/ x \in Data
           T == {n \in Nat : n <= Len(fs) => Typed(v[n])}
<1>4. 0 \in T  BY <1>3
<1>5. ASSUME NEW n \in Nat, n \in T  PROVE n + 1 \in T
 <2> SUFFICES ASSUME n + 1 <= Len(fs)  PROVE Typed(v[n+1])  OBVIOUS
 <2> DEFINE i == n + 1  f == InnerOf(fs[i])
 <2>1. i \in 1..Len(fs) /\ i - 1 = n /\ n <= Len(fs)  BY <1>2
 <2>2. Typed(v[n])  BY <1>5, <2>1
 <2>3. fs[i] \in Filter  BY <2>1, ElementOfSeq, Zenon
 <2>4. f \in Plain  BY <2>3, InnerIsPlain
 <2>5. v[i] = IF v[n].kind = "error" THEN v[n] ELSE Picks(v[n], f)
  <3> HIDE DEF i, f
  <3>1. v[i] = IF v[i-1].kind = "error" THEN v[i-1] ELSE Picks(v[i-1], f)
    BY <1>3, <2>1, Zenon DEF f
  <3> QED  BY <2>1, <3>1
 <2> HIDE DEF i, f
 <2>6. CASE v[n].kind = "error"  BY <2>5, <2>6 DEF i
 <2>7. CASE v[n].kind # "error"
  <3>1. v[n] \in Data /\ IsValue(v[n])  BY <2>2, <2>7, DataAssumption
  <3>2. v[i] = ApplyFilter(v[n], f)  BY <2>4, <2>5, <2>7, <3>1, FilterPicks
  <3>3. Typed(v[i])  BY <2>4, <3>1, <3>2, PredicatesAssumption
  <3> QED  BY <3>3 DEF i
 <2> QED  BY <2>6, <2>7
<1>6. \A n \in 0..Len(fs) : Typed(v[n])
 <2>1. Nat \subseteq T
  <3> HIDE DEF T
  <3> QED  BY <1>4, <1>5, SetInduction
 <2> QED  BY <1>2, <2>1
<1> DEFINE misses == {n \in 1..Len(fs) : v[n].kind = "error"}
<1>7. misses \in SUBSET Nat /\ Len(fs) \in 0..Len(fs)  BY <1>2
<1>8. Reached(v, fs) = IF misses = {} THEN v[Len(fs)]
      ELSE IF fs[Min(misses)].kind = "try" THEN Null ELSE v[Min(misses)]
  BY DEF Reached
<1>9. misses # {} => v[Min(misses)].kind = "error"
 <2>1. misses # {} => Min(misses) \in misses
  <3> HIDE DEF misses
  <3> QED  BY <1>7, MinInT
 <2> QED  BY <2>1
<1> HIDE DEF misses
<1> QED  BY <1>1, <1>6, <1>7, <1>8, <1>9, PredicatesAssumption

----------------------------------------------------------------------------
(* The parts of a predicate                                                *)

\* The selector of a predicate gives it a value that fits, or an error.
LEMMA SelectedFits ==
  ASSUME NEW op \in Orderings \cup {"==", "like", "all", "any"}, NEW fs \in Seq(Filter), NEW data \in Data
  PROVE  Selected(op, fs, data).kind = "error" \/ Fits(op, Selected(op, fs, data))
<1> DEFINE m == Meaning(fs, data)
<1>1. m.kind = "error" \/ m \in Data  BY MeaningTyped
<1>2. \A why : Error(why).kind = "error"  BY DEF Error
<1> HIDE DEF m
<1>3. Fitting(op, m).kind = "error" \/ Fits(op, Fitting(op, m))
  BY <1>1, <1>2 DEF Fitting, Fits, Orderings, IsNumber
<1> QED  BY <1>3 DEF Selected, m

\* What a quantifier looks at are values.
LEMMA VecTyped ==
  ASSUME NEW v \in Data, v.kind \in {"list", "map"}
  PROVE  ToVec(v) \in Seq(Data)
<1>1. IsValue(v)  BY DataAssumption
<1>2. CASE v.kind = "list"  BY <1>1, <1>2 DEF ToVec, IsValue
<1>3. CASE v.kind = "map"
 <2>1. v.order \in Seq(DOMAIN v.entries) /\ \A k \in DOMAIN v.entries : v.entries[k] \in Data
   BY <1>1, <1>3 DEF IsValue
 <2>2. Len(v.order) \in Nat /\ \A n \in 1..Len(v.order) : v.entries[v.order[n]] \in Data
   BY <2>1
 <2>3. ToVec(v) = [n \in 1..Len(v.order) |-> v.entries[v.order[n]]]
   BY <1>3 DEF ToVec
 <2> QED  BY <2>2, <2>3
<1> QED  BY <1>2, <1>3

\* Each of the verdicts in p is about a lower predicate, and a value.
LEMMA SubsAre ==
  ASSUME NEW p \in Predicate, NEW data \in Data
  PROVE  /\ Count(p, data) \in Nat
         /\ \A n \in 1..Count(p, data) : \E q, d : IsNth(n, q, d, p, data)
         /\ \A f : Subs(f, p, data) = [n \in 1..Count(p, data) |-> Subs(f, p, data)[n]]
<1>1. IsPredicate(p)  BY PredicatesAssumption
<1>2. CASE p.op = "not"
 <2>1. Lower(p, p.inner)  BY <1>1, <1>2 DEF IsPredicate, Orderings
 <2>2. Count(p, data) = 1  BY <1>2 DEF Count
 <2>3. \A f : Subs(f, p, data) = [n \in 1..1 |-> f[p.inner][data]]
   BY <1>2 DEF Subs
 <2>4. \A n \in 1..1 : IsNth(n, p.inner, data, p, data)
   BY <2>1, <2>3 DEF IsNth
 <2> QED  BY <2>2, <2>3, <2>4
<1>3. CASE p.op \in Connectives
 <2>0. p.op # "not"  BY <1>3 DEF Connectives
 <2>1. p.inner \in Seq(Predicate) /\ \A n \in DOMAIN p.inner : Lower(p, p.inner[n])
   BY <1>1, <1>3 DEF IsPredicate, Orderings, Connectives
 <2>2. Len(p.inner) \in Nat /\ DOMAIN p.inner = 1..Len(p.inner)  BY <2>1
 <2>3. Count(p, data) = Len(p.inner)  BY <1>3, <2>0 DEF Count
 <2>4. \A f : Subs(f, p, data) = [n \in DOMAIN p.inner |-> f[p.inner[n]][data]]
   BY <1>3, <2>0 DEF Subs
 <2>5. \A n \in DOMAIN p.inner : IsNth(n, p.inner[n], data, p, data)
   BY <2>1, <2>4 DEF IsNth
 <2> QED  BY <2>2, <2>3, <2>4, <2>5
<1>4. CASE Looks(p, data)
 <2> DEFINE v == Selected(p.op, p.select, data)  vec == ToVec(v)
 <2>0. p.op \notin Connectives /\ p.op # "not"
   BY <1>4 DEF Connectives, Quantifiers, Looks
 <2>1. Lower(p, p.inner) /\ p.select \in Seq(Filter) /\ p.op \in Quantifiers /\ v.kind # "error"
   BY <1>1, <1>4 DEF IsPredicate, Orderings, Quantifiers, Looks
 <2>2. vec \in Seq(Data)
  <3>1. Fits(p.op, v)  BY <2>1, SelectedFits DEF Quantifiers
  <3> HIDE DEF v
  <3>2. v \in Data /\ v.kind \in {"list", "map"}
    BY <2>1, <3>1 DEF Fits, Quantifiers
  <3> QED  BY <3>2, VecTyped
 <2>3. Count(p, data) = Len(vec)  BY <1>4, <2>0 DEF Count
 <2>4. \A f : Subs(f, p, data) = [n \in DOMAIN vec |-> f[p.inner][vec[n]]]
   BY <1>4, <2>0 DEF Subs
 <2> HIDE DEF vec
 <2>5. Len(vec) \in Nat /\ DOMAIN vec = 1..Len(vec) /\ \A n \in DOMAIN vec : vec[n] \in Data
   BY <2>2
 <2>6. \A n \in DOMAIN vec : IsNth(n, p.inner, vec[n], p, data)
   BY <2>1, <2>4, <2>5 DEF IsNth
 <2> QED  BY <2>3, <2>4, <2>5, <2>6
<1>5. CASE p.op # "not" /\ p.op \notin Connectives /\ ~Looks(p, data)
 <2>1. Count(p, data) = 0  BY <1>5 DEF Count
 <2>2. \A f : Subs(f, p, data) = [n \in 1..0 |-> f[p.inner][data]]
   BY <1>5 DEF Subs
 <2>3. 1..0 = {}  OBVIOUS
 <2> QED  BY <2>1, <2>2, <2>3
<1> QED  BY <1>2, <1>3, <1>4, <1>5

\* What they are of functions that agree on lower predicates.
LEMMA SubsLower ==
  ASSUME NEW p \in Predicate, NEW data \in Data, NEW f, NEW g,
         \A q \in Predicate : Size[q] < Size[p] => f[q] = g[q]
  PROVE  Subs(f, p, data) = Subs(g, p, data)
<1> DEFINE N == Count(p, data)
<1>1. ASSUME NEW n \in 1..N  PROVE Subs(f, p, data)[n] = Subs(g, p, data)[n]
 <2>1. PICK q, d : IsNth(n, q, d, p, data)  BY SubsAre
 <2>2. f[q] = g[q]  BY <2>1 DEF IsNth, Lower
 <2> QED  BY <2>1, <2>2 DEF IsNth
<1>2. Subs(f, p, data) = [n \in 1..N |-> Subs(f, p, data)[n]]  BY SubsAre
<1>3. Subs(g, p, data) = [n \in 1..N |-> Subs(g, p, data)[n]]  BY SubsAre
<1> HIDE DEF N
<1> QED  BY <1>1, <1>2, <1>3, Zenon

\* And of functions into V.
LEMMA SubsTyped ==
  ASSUME NEW p \in Predicate, NEW data \in Data, NEW V, NEW f \in [Predicate -> [Data -> V]]
  PROVE  Subs(f, p, data) \in [1..Count(p, data) -> V]
<1> DEFINE N == Count(p, data)
<1>1. ASSUME NEW n \in 1..N  PROVE Subs(f, p, data)[n] \in V
 <2>1. PICK q, d : IsNth(n, q, d, p, data)  BY SubsAre
 <2>2. f[q][d] \in V  BY <2>1 DEF IsNth, Lower
 <2> QED  BY <2>1, <2>2 DEF IsNth
<1>2. Subs(f, p, data) = [n \in 1..N |-> Subs(f, p, data)[n]]  BY SubsAre
<1> HIDE DEF N
<1> QED  BY <1>1, <1>2 DEF N

----------------------------------------------------------------------------
(* One turn of runPredicate, and of its meaning                            *)

\* runPredicate only looks at its parts through their verdicts.
LEMMA RunBodyIs ==
  ASSUME NEW f, NEW p, NEW data
  PROVE  RunBody(f, p, data) = RunFrom(p, data, Subs(f, p, data))
<1> DEFINE v == Selected(p.op, p.select, data)
           vec == ToVec(v)
           subs == Subs(f, p, data)
<1>1. CASE p.op = "not"
 <2>1. p.op \notin {"and", "or"} /\ p.op \notin {"all", "any"}  BY <1>1
 <2>2. subs = [n \in 1..1 |-> f[p.inner][data]]  BY <1>1 DEF Subs
 <2>3. RunBody(f, p, data) = Negated(f[p.inner][data])
   BY <1>1, <2>1 DEF RunBody
 <2> HIDE DEF subs
 <2>4. RunFrom(p, data, subs) = Negated(subs[1])  BY <1>1 DEF RunFrom
 <2>5. DOMAIN subs = 1..1 /\ subs[1] = f[p.inner][data]  BY <2>2
 <2>6. Negated(subs[1]) = Negated(f[p.inner][data])  BY <2>5
 <2> QED  BY <2>3, <2>4, <2>6 DEF subs
<1>2. CASE p.op \in Connectives
 <2>1. p.op # "not" /\ p.op \in {"and", "or"} /\ p.op \notin {"all", "any"}
   BY <1>2 DEF Connectives
 <2>2. subs = [n \in DOMAIN p.inner |-> f[p.inner[n]][data]]
   BY <1>2, <2>1 DEF Subs
 <2>3. RunBody(f, p, data) = RunMany(p.op, [n \in DOMAIN p.inner |-> f[p.inner[n]][data]])
   BY <2>1 DEF RunBody
 <2> HIDE DEF subs
 <2>4. RunFrom(p, data, subs) = RunMany(p.op, subs)
   BY <1>2, <2>1 DEF RunFrom, Joins
 <2>5. RunMany(p.op, subs) = RunMany(p.op, [n \in DOMAIN p.inner |-> f[p.inner[n]][data]])
   BY <2>2, Zenon
 <2> QED  BY <2>3, <2>4, <2>5 DEF subs
<1>3. CASE Looks(p, data)
 <2>1. /\ p.op # "not" /\ p.op \notin {"and", "or"} /\ p.op \notin Connectives
       /\ p.op \in {"all", "any"} /\ v.kind # "error"
   BY <1>3 DEF Connectives, Quantifiers, Looks
 <2>2. subs = [n \in DOMAIN vec |-> f[p.inner][vec[n]]]  BY <1>3, <2>1 DEF Subs
 <2>3. RunBody(f, p, data) = RunMany(p.op, [n \in DOMAIN vec |-> f[p.inner][vec[n]]])
   BY <2>1 DEF RunBody
 <2> HIDE DEF subs, vec
 <2>4. RunFrom(p, data, subs) = RunMany(p.op, subs)
   BY <1>3, <2>1 DEF RunFrom, Joins
 <2>5. RunMany(p.op, subs) = RunMany(p.op, [n \in DOMAIN vec |-> f[p.inner][vec[n]]])
   BY <2>2, Zenon
 <2> QED  BY <2>3, <2>4, <2>5 DEF subs
<1>4. CASE p.op # "not" /\ ~Joins(p, data)
 <2>1. /\ p.op # "not" /\ p.op \notin {"and", "or"}
       /\ ~(p.op \in {"all", "any"} /\ v.kind # "error")
   BY <1>4 DEF Connectives, Quantifiers, Looks, Joins
 <2>2. RunBody(f, p, data) = (IF v.kind = "error" THEN "error" ELSE RunCompare(p.op, v, p.value))
   BY <2>1 DEF RunBody
 <2>3. RunFrom(p, data, subs) = (IF v.kind = "error" THEN "error" ELSE RunCompare(p.op, v, p.value))
  <3> HIDE DEF subs
  <3> QED  BY <1>4 DEF RunFrom
 <2> HIDE DEF v, vec, subs
 <2> QED  BY <2>2, <2>3 DEF subs
<1> HIDE DEF subs
<1> QED  BY <1>1, <1>2, <1>3, <1>4 DEF Joins, subs

\* So does what it means.
LEMMA JudgeBodyIs ==
  ASSUME NEW f, NEW p, NEW data
  PROVE  JudgeBody(f, p, data) = JudgeFrom(p, data, Subs(f, p, data))
<1> DEFINE v == Selected(p.op, p.select, data)
           vec == ToVec(v)
           subs == Subs(f, p, data)
<1>1. CASE p.op = "not"
 <2>1. p.op \notin {"and", "or"} /\ p.op \notin {"all", "any"}  BY <1>1
 <2>2. subs = [n \in 1..1 |-> f[p.inner][data]]  BY <1>1 DEF Subs
 <2>3. JudgeBody(f, p, data) = Negated(f[p.inner][data])
   BY <1>1, <2>1 DEF JudgeBody
 <2> HIDE DEF subs
 <2>4. JudgeFrom(p, data, subs) = Negated(subs[1])  BY <1>1 DEF JudgeFrom
 <2>5. DOMAIN subs = 1..1 /\ subs[1] = f[p.inner][data]  BY <2>2
 <2>6. Negated(subs[1]) = Negated(f[p.inner][data])  BY <2>5
 <2> QED  BY <2>3, <2>4, <2>6 DEF subs
<1>2. CASE p.op \in Connectives
 <2>1. p.op # "not" /\ p.op \in {"and", "or"} /\ p.op \notin {"all", "any"}
   BY <1>2 DEF Connectives
 <2>2. subs = [n \in DOMAIN p.inner |-> f[p.inner[n]][data]]
   BY <1>2, <2>1 DEF Subs
 <2>3. JudgeBody(f, p, data) = JudgeMany(p.op, {f[p.inner[n]][data] : n \in DOMAIN p.inner})
   BY <2>1 DEF JudgeBody
 <2> HIDE DEF subs
 <2>4. JudgeFrom(p, data, subs) = JudgeMany(p.op, {subs[n] : n \in DOMAIN subs})
   BY <1>2, <2>1 DEF JudgeFrom, Joins
 <2>5. JudgeMany(p.op, {subs[n] : n \in DOMAIN subs}) = JudgeMany(p.op, {f[p.inner[n]][data] : n \in DOMAIN p.inner})
  <3>1. {subs[n] : n \in DOMAIN subs} = {f[p.inner[n]][data] : n \in DOMAIN p.inner}
    BY <2>2
  <3> QED  BY <3>1, Zenon
 <2> QED  BY <2>3, <2>4, <2>5 DEF subs
<1>3. CASE Looks(p, data)
 <2>1. /\ p.op # "not" /\ p.op \notin {"and", "or"} /\ p.op \notin Connectives
       /\ p.op \in {"all", "any"} /\ v.kind # "error"
   BY <1>3 DEF Connectives, Quantifiers, Looks
 <2>2. subs = [n \in DOMAIN vec |-> f[p.inner][vec[n]]]  BY <1>3, <2>1 DEF Subs
 <2>3. JudgeBody(f, p, data) = JudgeMany(p.op, {f[p.inner][vec[n]] : n \in DOMAIN vec})
   BY <2>1 DEF JudgeBody
 <2> HIDE DEF subs, vec
 <2>4. JudgeFrom(p, data, subs) = JudgeMany(p.op, {subs[n] : n \in DOMAIN subs})
   BY <1>3, <2>1 DEF JudgeFrom, Joins
 <2>5. JudgeMany(p.op, {subs[n] : n \in DOMAIN subs}) = JudgeMany(p.op, {f[p.inner][vec[n]] : n \in DOMAIN vec})
  <3>1. {subs[n] : n \in DOMAIN subs} = {f[p.inner][vec[n]] : n \in DOMAIN vec}
    BY <2>2
  <3> QED  BY <3>1, Zenon
 <2> QED  BY <2>3, <2>4, <2>5 DEF subs
<1>4. CASE p.op # "not" /\ ~Joins(p, data)
 <2>1. /\ p.op # "not" /\ p.op \notin {"and", "or"}
       /\ ~(p.op \in {"all", "any"} /\ v.kind # "error")
   BY <1>4 DEF Connectives, Quantifiers, Looks, Joins
 <2>2. JudgeBody(f, p, data) = Judgement(p, v)  BY <2>1 DEF JudgeBody
 <2>3. JudgeFrom(p, data, subs) = Judgement(p, v)
  <3> HIDE DEF subs
  <3> QED  BY <1>4 DEF JudgeFrom
 <2> HIDE DEF v, vec, subs
 <2> QED  BY <2>2, <2>3 DEF subs
<1> HIDE DEF subs
<1> QED  BY <1>1, <1>2, <1>3, <1>4 DEF Joins, subs

\* And whether it may throw.
LEMMA ThrowBodyIs ==
  ASSUME NEW f, NEW p, NEW data
  PROVE  ThrowBody(f, p, data) <=> ThrowFrom(p, data, Subs(f, p, data))
<1> DEFINE v == Selected(p.op, p.select, data)
           vec == ToVec(v)
           subs == Subs(f, p, data)
<1>1. CASE p.op = "not"
 <2>1. p.op \notin {"and", "or"} /\ p.op \notin {"all", "any"}  BY <1>1
 <2>2. subs = [n \in 1..1 |-> f[p.inner][data]]  BY <1>1 DEF Subs
 <2>3. ThrowBody(f, p, data) <=> f[p.inner][data]  BY <1>1, <2>1 DEF ThrowBody
 <2> HIDE DEF subs
 <2>4. ThrowFrom(p, data, subs) <=> (\E n \in DOMAIN subs : subs[n])
   BY <1>1 DEF ThrowFrom
 <2>5. DOMAIN subs = 1..1 /\ subs[1] = f[p.inner][data]  BY <2>2
 <2>6. (\E n \in DOMAIN subs : subs[n]) <=> f[p.inner][data]  BY <2>5
 <2> QED  BY <2>3, <2>4, <2>6 DEF subs
<1>2. CASE p.op \in Connectives
 <2>1. p.op # "not" /\ p.op \in {"and", "or"} /\ p.op \notin {"all", "any"}
   BY <1>2 DEF Connectives
 <2>2. subs = [n \in DOMAIN p.inner |-> f[p.inner[n]][data]]
   BY <1>2, <2>1 DEF Subs
 <2>3. ThrowBody(f, p, data) <=> (\E n \in DOMAIN p.inner : f[p.inner[n]][data])
   BY <2>1 DEF ThrowBody
 <2> HIDE DEF subs
 <2>4. ThrowFrom(p, data, subs) <=> (\E n \in DOMAIN subs : subs[n])
   BY <1>2, <2>1 DEF ThrowFrom, Joins
 <2>5. (\E n \in DOMAIN subs : subs[n]) <=> (\E n \in DOMAIN p.inner : f[p.inner[n]][data])
   BY <2>2
 <2> QED  BY <2>3, <2>4, <2>5 DEF subs
<1>3. CASE Looks(p, data)
 <2>1. /\ p.op # "not" /\ p.op \notin {"and", "or"} /\ p.op \notin Connectives
       /\ p.op \in {"all", "any"} /\ v.kind # "error"
   BY <1>3 DEF Connectives, Quantifiers, Looks
 <2>2. subs = [n \in DOMAIN vec |-> f[p.inner][vec[n]]]  BY <1>3, <2>1 DEF Subs
 <2>3. ThrowBody(f, p, data) <=> (\E n \in DOMAIN vec : f[p.inner][vec[n]])
   BY <2>1 DEF ThrowBody
 <2> HIDE DEF subs, vec
 <2>4. ThrowFrom(p, data, subs) <=> (\E n \in DOMAIN subs : subs[n])
   BY <1>3, <2>1 DEF ThrowFrom, Joins
 <2>5. (\E n \in DOMAIN subs : subs[n]) <=> (\E n \in DOMAIN vec : f[p.inner][vec[n]])
   BY <2>2
 <2> QED  BY <2>3, <2>4, <2>5 DEF subs
<1>4. CASE p.op # "not" /\ ~Joins(p, data)
 <2>1. /\ p.op # "not" /\ p.op \notin {"and", "or"}
       /\ ~(p.op \in {"all", "any"} /\ v.kind # "error")
   BY <1>4 DEF Connectives, Quantifiers, Looks, Joins
 <2>2. ThrowBody(f, p, data) <=> (Judgement(p, v) = "error")
   BY <2>1 DEF ThrowBody
 <2>3. ThrowFrom(p, data, subs) <=> (Judgement(p, v) = "error")
  <3> HIDE DEF subs
  <3> QED  BY <1>4 DEF ThrowFrom
 <2> HIDE DEF v, vec, subs
 <2> QED  BY <2>2, <2>3 DEF subs
<1> HIDE DEF subs
<1> QED  BY <1>1, <1>2, <1>3, <1>4 DEF Joins, subs

----------------------------------------------------------------------------
(* Recursion over predicates                                               *)

\* There is an r with the value H for all predicates.
LEMMA Unfolds ==
  ASSUME NEW H, NEW V, V # {}, Makes(H, V)
  PROVE  \E r \in [Predicate -> [Data -> V]] : Follows(r, H)
<1> DEFINE Row(p, f) == [data \in Data |-> H[p][data][Subs(f, p, data)]]
           G == [p \in Predicate |-> [f \in [Predicate -> Rows(V)] |-> Row(p, f)]]
<1>1. \A p \in Predicate : \A f \in [Predicate -> Rows(V)] : Row(p, f) \in Rows(V)
 <2> SUFFICES ASSUME NEW p \in Predicate, NEW f \in [Predicate -> Rows(V)], NEW data \in Data
              PROVE  H[p][data][Subs(f, p, data)] \in V
   BY DEF Rows
 <2>1. Subs(f, p, data) \in [1..Count(p, data) -> V]  BY SubsTyped DEF Rows
 <2> QED  BY <2>1 DEF Makes
<1>2. ASSUME NEW p \in Predicate, NEW f, NEW g, \A q \in Predicate : Size[q] < Size[p] => f[q] = g[q]
      PROVE  Row(p, f) = Row(p, g)
 <2>1. \A data \in Data : Subs(f, p, data) = Subs(g, p, data)
   BY <1>2, SubsLower
 <2> QED  BY <2>1
<1>3. \A p \in Predicate : \A f \in [Predicate -> Rows(V)] : G[p][f] = Row(p, f)
  OBVIOUS
<1>4. G \in [Predicate -> [[Predicate -> Rows(V)] -> Rows(V)]]  BY <1>1
<1>5. Rows(V) # {}
 <2>1. PICK x \in V : TRUE  OBVIOUS
 <2>2. [data \in Data |-> x] \in [Data -> V]  BY <2>1
 <2> QED  BY <2>2 DEF Rows
<1> HIDE DEF Row, G
<1>6. IsStep(Predicate, Size, Rows(V), G)
 <2>1. Size \in [Predicate -> Nat]  BY PredicatesAssumption
 <2>2. ASSUME NEW p \in Predicate, NEW f \in [Predicate -> Rows(V)], NEW g \in [Predicate -> Rows(V)],
              \A q \in Predicate : Size[q] < Size[p] => f[q] = g[q]
       PROVE  G[p][f] = G[p][g]
  <3>1. Row(p, f) = Row(p, g)  BY <1>2, <2>2
  <3> QED  BY <1>3, <3>1
 <2> QED  BY <1>4, <1>5, <2>1, <2>2 DEF IsStep
<1>7. PICK r \in [Predicate -> Rows(V)] : \A p \in Predicate : r[p] = G[p][r]
  BY <1>6, Recursion
<1>8. Follows(r, H)
 <2>1. ASSUME NEW p \in Predicate, NEW data \in Data  PROVE r[p][data] = H[p][data][Subs(r, p, data)]
  <3>1. r[p] = Row(p, r)  BY <1>3, <1>7
  <3> QED  BY <3>1 DEF Row
 <2> QED  BY <2>1 DEF Follows
<1> QED  BY <1>7, <1>8 DEF Rows

----------------------------------------------------------------------------
(* Verdicts                                                                *)

\* What a connective or a quantifier comes to.
LEMMA RunManyTyped ==
  ASSUME NEW op, NEW count \in Nat, NEW subs \in [1..count -> Verdicts]
  PROVE  RunMany(op, subs) \in Verdicts
<1>1. ASSUME NEW unit \in Verdicts  PROVE FirstOther(subs, unit) \in Verdicts
 <2> DEFINE others == {n \in DOMAIN subs : subs[n] # unit}
 <2>1. others \in SUBSET Nat /\ others \subseteq 1..count  OBVIOUS
 <2> HIDE DEF others
 <2>2. others # {} => Min(others) \in 1..count  BY <2>1, MinInT
 <2> QED  BY <2>2 DEF FirstOther, others
<1> QED  BY <1>1 DEF RunMany, Reduce, Verdicts

\* A comparison.
LEMMA RunCompareTyped ==
  ASSUME NEW op \in Orderings \cup {"==", "like"}, NEW v, NEW value
  PROVE  RunCompare(op, v, value) \in Verdicts
<1>1. \A b : Verdict(b) \in Verdicts  BY DEF Verdict, Verdicts
<1>2. CASE op = "=="
 <2>1. RunCompare(op, v, value) = RunEqual(v, value)
   BY <1>2 DEF RunCompare, Orderings
 <2> QED  BY <1>1, <2>1 DEF RunEqual, Verdicts
<1>3. CASE op \in Orderings
 <2>1. RunCompare(op, v, value) = RunOrdering(op, v, value)
   BY <1>3 DEF RunCompare, Orderings
 <2> QED  BY <1>1, <2>1 DEF RunOrdering
<1>4. CASE op = "like"
 <2>1. RunCompare(op, v, value) = Verdict(Glob(v.text, value.text))
   BY <1>4 DEF RunCompare, Orderings
 <2> QED  BY <1>1, <2>1
<1> QED  BY <1>2, <1>3, <1>4

\* And what a comparison means.
LEMMA JudgementTyped ==
  ASSUME NEW p, NEW v, p.op \in Orderings \cup {"==", "like"} \/ v.kind = "error"
  PROVE  Judgement(p, v) \in Verdicts
<1>1. \A b : Verdict(b) \in Verdicts  BY DEF Verdict, Verdicts
<1>2. CASE v.kind = "error"  BY <1>2 DEF Judgement, Verdicts
<1>3. CASE v.kind # "error" /\ p.op = "=="
 <2>1. Judgement(p, v) = (IF {v.kind, p.value.kind} = {"number", "bigint"} /\ ~(Whole(v.halves) /\ Whole(p.value.halves))
             THEN "error" ELSE Verdict(SameValue[v][p.value]))
   BY <1>3, Zenon DEF Judgement
 <2> QED  BY <1>1, <2>1 DEF Verdicts
<1>4. CASE v.kind # "error" /\ p.op \in Orderings \cup {"like"}
  BY <1>1, <1>4 DEF Judgement, Orderings
<1> QED  BY <1>2, <1>3, <1>4

\* And what a connective or a quantifier means.
LEMMA JudgeManyTyped ==
  ASSUME NEW op, NEW parts
  PROVE  JudgeMany(op, parts) \in Verdicts
BY DEF JudgeMany, Verdicts, Negated

\* What a predicate that has no parts does.
LEMMA Leaf ==
  ASSUME NEW p \in Predicate, NEW data \in Data, p.op # "not", ~Joins(p, data)
  PROVE  LET v == Selected(p.op, p.select, data) IN
         \/ v.kind = "error"
         \/ /\ p.op \in Orderings \cup {"==", "like"} /\ Fits(p.op, v)
            /\ p.value \in Data
            /\ p.op = "like" => p.value.kind = "string"
            /\ p.op \in Orderings => IsNumber(p.value)
<1> DEFINE v == Selected(p.op, p.select, data)
<1> SUFFICES ASSUME v.kind # "error"
             PROVE  /\ p.op \in Orderings \cup {"==", "like"} /\ Fits(p.op, v)
                    /\ p.value \in Data
                    /\ p.op = "like" => p.value.kind = "string"
                    /\ p.op \in Orderings => IsNumber(p.value)
  OBVIOUS
<1>1. IsPredicate(p)  BY PredicatesAssumption
<1>2. p.op # "not" /\ p.op \notin {"and", "or"} /\ p.op \notin {"all", "any"}
  BY DEF Joins, Looks, Connectives, Quantifiers
<1>3. /\ p.select \in Seq(Filter) /\ p.value \in Data
      /\ \/ p.op = "=="
         \/ p.op = "like" /\ p.value.kind = "string"
         \/ p.op \in Orderings /\ IsNumber(p.value)
 <2> HIDE DEF v
 <2> QED  BY <1>1, <1>2 DEF IsPredicate
<1>4. Fits(p.op, v)  BY <1>3, SelectedFits
<1> HIDE DEF v
<1> QED  BY <1>3, <1>4 DEF Orderings

\* One turn gives a verdict when the turns before did.
LEMMA RunFromTyped ==
  ASSUME NEW p \in Predicate, NEW data \in Data, NEW subs \in [1..Count(p, data) -> Verdicts]
  PROVE  RunFrom(p, data, subs) \in Verdicts
<1>1. CASE p.op = "not"
 <2>1. Count(p, data) = 1  BY <1>1 DEF Count
 <2>2. subs[1] \in Verdicts  BY <2>1
 <2> QED  BY <1>1, <2>2 DEF RunFrom, Negated, Verdicts
<1>2. CASE p.op # "not" /\ Joins(p, data)
 <2>1. RunMany(p.op, subs) \in Verdicts  BY SubsAre, RunManyTyped
 <2> QED  BY <1>2, <2>1 DEF RunFrom
<1>3. CASE p.op # "not" /\ ~Joins(p, data)
 <2> DEFINE v == Selected(p.op, p.select, data)
 <2>1. v.kind = "error" \/ p.op \in Orderings \cup {"==", "like"}
   BY <1>3, Leaf
 <2>2. RunFrom(p, data, subs) = (IF v.kind = "error" THEN "error" ELSE RunCompare(p.op, v, p.value))
   BY <1>3 DEF RunFrom
 <2> HIDE DEF v
 <2> QED  BY <2>1, <2>2, RunCompareTyped DEF Verdicts
<1> QED  BY <1>1, <1>2, <1>3

\* So does the meaning,
LEMMA JudgeFromTyped ==
  ASSUME NEW p \in Predicate, NEW data \in Data, NEW subs \in [1..Count(p, data) -> Verdicts]
  PROVE  JudgeFrom(p, data, subs) \in Verdicts
<1>1. CASE p.op = "not"
 <2>1. Count(p, data) = 1  BY <1>1 DEF Count
 <2>2. subs[1] \in Verdicts  BY <2>1
 <2> QED  BY <1>1, <2>2 DEF JudgeFrom, Negated, Verdicts
<1>2. CASE p.op # "not" /\ Joins(p, data)
 <2>1. JudgeMany(p.op, {subs[n] : n \in DOMAIN subs}) \in Verdicts
   BY JudgeManyTyped
 <2> QED  BY <1>2, <2>1 DEF JudgeFrom
<1>3. CASE p.op # "not" /\ ~Joins(p, data)
 <2> DEFINE v == Selected(p.op, p.select, data)
 <2>1. v.kind = "error" \/ p.op \in Orderings \cup {"==", "like"}
   BY <1>3, Leaf
 <2>2. JudgeFrom(p, data, subs) = Judgement(p, v)  BY <1>3 DEF JudgeFrom
 <2> HIDE DEF v
 <2> QED  BY <2>1, <2>2, JudgementTyped
<1> QED  BY <1>1, <1>2, <1>3

\* and whether one may throw is a truth value.
LEMMA ThrowFromTyped ==
  ASSUME NEW p, NEW data, NEW subs
  PROVE  ThrowFrom(p, data, subs) \in BOOLEAN
BY DEF ThrowFrom

----------------------------------------------------------------------------
(* Runs, meanings and errors unfold                                        *)

\* runPredicate gives a predicate its verdict from those of its parts.
LEMMA RunUnfolds ==
  \A p \in Predicate, data \in Data :
    RunPredicate[p][data] = RunFrom(p, data, Subs(RunPredicate, p, data))
<1> DEFINE V == Verdicts
           H == [p \in Predicate |-> [data \in Data |->
                  [subs \in [1..Count(p, data) -> V] |-> RunFrom(p, data, subs)]]]
<1>1. \A p \in Predicate, data \in Data : \A subs \in [1..Count(p, data) -> V] :
        H[p][data][subs] = RunFrom(p, data, subs) /\ RunFrom(p, data, subs) \in V
  BY RunFromTyped
<1> HIDE DEF H
<1>2. V # {} /\ Makes(H, V)
 <2>1. V # {}  BY DEF Verdicts
 <2> QED  BY <1>1, <2>1 DEF Makes
<1>3. PICK r \in [Predicate -> [Data -> V]] : Follows(r, H)
 <2> HIDE DEF V
 <2> QED  BY <1>2, Unfolds
<1>4. IsRun(r)
 <2>1. ASSUME NEW p \in Predicate, NEW data \in Data  PROVE r[p][data] = RunBody(r, p, data)
  <3>1. Subs(r, p, data) \in [1..Count(p, data) -> V]  BY SubsTyped
  <3>2. r[p][data] = H[p][data][Subs(r, p, data)]  BY <1>3 DEF Follows
  <3>3. RunBody(r, p, data) = RunFrom(p, data, Subs(r, p, data))  BY RunBodyIs
  <3>4. r[p][data] = RunFrom(p, data, Subs(r, p, data))  BY <1>1, <3>1, <3>2
  <3> QED  BY <3>3, <3>4
 <2> HIDE DEF V
 <2>2. r = [p \in Predicate |-> [data \in Data |-> r[p][data]]]  BY <1>3
 <2>3. ASSUME NEW p \in Predicate  PROVE r[p] = [data \in Data |-> RunBody(r, p, data)]
   BY <1>3, <2>1
 <2>4. r = [p \in Predicate |-> [data \in Data |-> RunBody(r, p, data)]]
   BY <1>3, <2>3
 <2> QED  BY <2>4 DEF IsRun
<1>5. RunPredicate = CHOOSE f : IsRun(f)
  BY Zenon DEF RunPredicate, IsRun, RunBody
<1>6. IsRun(RunPredicate)  BY <1>4, <1>5, Zenon
<1>7. ASSUME NEW p \in Predicate, NEW data \in Data
      PROVE  RunPredicate[p][data] = RunBody(RunPredicate, p, data)
 <2>1. \A f : f = [q \in Predicate |-> [d \in Data |-> RunBody(f, q, d)]]
         => (f[p][data] = RunBody(f, p, data))
   OBVIOUS
 <2> QED  BY <1>6, <2>1, Zenon DEF IsRun
<1>8. \A p, data : RunBody(RunPredicate, p, data) = RunFrom(p, data, Subs(RunPredicate, p, data))
  BY RunBodyIs, Zenon
<1> QED  BY <1>7, <1>8, Zenon

\* So does its meaning.
LEMMA JudgeUnfolds ==
  \A p \in Predicate, data \in Data :
    Judge[p][data] = JudgeFrom(p, data, Subs(Judge, p, data))
<1> DEFINE V == Verdicts
           H == [p \in Predicate |-> [data \in Data |->
                  [subs \in [1..Count(p, data) -> V] |-> JudgeFrom(p, data, subs)]]]
<1>1. \A p \in Predicate, data \in Data : \A subs \in [1..Count(p, data) -> V] :
        H[p][data][subs] = JudgeFrom(p, data, subs) /\ JudgeFrom(p, data, subs) \in V
  BY JudgeFromTyped
<1> HIDE DEF H
<1>2. V # {} /\ Makes(H, V)
 <2>1. V # {}  BY DEF Verdicts
 <2> QED  BY <1>1, <2>1 DEF Makes
<1>3. PICK r \in [Predicate -> [Data -> V]] : Follows(r, H)
 <2> HIDE DEF V
 <2> QED  BY <1>2, Unfolds
<1>4. IsJudge(r)
 <2>1. ASSUME NEW p \in Predicate, NEW data \in Data  PROVE r[p][data] = JudgeBody(r, p, data)
  <3>1. Subs(r, p, data) \in [1..Count(p, data) -> V]  BY SubsTyped
  <3>2. r[p][data] = H[p][data][Subs(r, p, data)]  BY <1>3 DEF Follows
  <3>3. JudgeBody(r, p, data) = JudgeFrom(p, data, Subs(r, p, data))
    BY JudgeBodyIs
  <3>4. r[p][data] = JudgeFrom(p, data, Subs(r, p, data))  BY <1>1, <3>1, <3>2
  <3> QED  BY <3>3, <3>4
 <2> HIDE DEF V
 <2>2. r = [p \in Predicate |-> [data \in Data |-> r[p][data]]]  BY <1>3
 <2>3. ASSUME NEW p \in Predicate  PROVE r[p] = [data \in Data |-> JudgeBody(r, p, data)]
   BY <1>3, <2>1
 <2>4. r = [p \in Predicate |-> [data \in Data |-> JudgeBody(r, p, data)]]
   BY <1>3, <2>3
 <2> QED  BY <2>4 DEF IsJudge
<1>5. Judge = CHOOSE f : IsJudge(f)  BY Zenon DEF Judge, IsJudge, JudgeBody
<1>6. IsJudge(Judge)  BY <1>4, <1>5, Zenon
<1>7. ASSUME NEW p \in Predicate, NEW data \in Data
      PROVE  Judge[p][data] = JudgeBody(Judge, p, data)
 <2>1. \A f : f = [q \in Predicate |-> [d \in Data |-> JudgeBody(f, q, d)]]
         => (f[p][data] = JudgeBody(f, p, data))
   OBVIOUS
 <2> QED  BY <1>6, <2>1, Zenon DEF IsJudge
<1>8. \A p, data : JudgeBody(Judge, p, data) = JudgeFrom(p, data, Subs(Judge, p, data))
  BY JudgeBodyIs, Zenon
<1> QED  BY <1>7, <1>8, Zenon

\* And it may throw where they may.
LEMMA ThrowUnfolds ==
  \A p \in Predicate, data \in Data :
    MayThrow[p][data] <=> ThrowFrom(p, data, Subs(MayThrow, p, data))
<1> DEFINE V == BOOLEAN
           H == [p \in Predicate |-> [data \in Data |->
                  [subs \in [1..Count(p, data) -> V] |-> ThrowFrom(p, data, subs)]]]
<1>1. \A p \in Predicate, data \in Data : \A subs \in [1..Count(p, data) -> V] :
        H[p][data][subs] = ThrowFrom(p, data, subs) /\ ThrowFrom(p, data, subs) \in V
  BY ThrowFromTyped
<1> HIDE DEF H
<1>2. V # {} /\ Makes(H, V)
 <2>1. V # {}  BY DEF Verdicts
 <2> QED  BY <1>1, <2>1 DEF Makes
<1>3. PICK r \in [Predicate -> [Data -> V]] : Follows(r, H)
 <2> HIDE DEF V
 <2> QED  BY <1>2, Unfolds
<1>4. IsThrow(r)
 <2>1. ASSUME NEW p \in Predicate, NEW data \in Data  PROVE r[p][data] = ThrowBody(r, p, data)
  <3>1. Subs(r, p, data) \in [1..Count(p, data) -> V]  BY SubsTyped
  <3>2. r[p][data] = H[p][data][Subs(r, p, data)]  BY <1>3 DEF Follows
  <3>3. ThrowBody(r, p, data) <=> ThrowFrom(p, data, Subs(r, p, data))
    BY ThrowBodyIs
  <3>4. r[p][data] = ThrowFrom(p, data, Subs(r, p, data))  BY <1>1, <3>1, <3>2
  <3>5. ThrowBody(r, p, data) \in BOOLEAN
   <4>1. p.op = "not" => r[p.inner][data] \in BOOLEAN
    <5>1. IsPredicate(p)  BY PredicatesAssumption
    <5>2. p.op = "not" => p.inner \in Predicate
      BY <5>1 DEF IsPredicate, Lower, Orderings
    <5> QED  BY <1>3, <5>2
   <4> HIDE DEF H, V
   <4> QED  BY <4>1 DEF ThrowBody
  <3>6. ThrowFrom(p, data, Subs(r, p, data)) \in BOOLEAN  BY ThrowFromTyped
  <3> HIDE DEF H, V
  <3> QED  BY <3>3, <3>4, <3>5, <3>6
 <2> HIDE DEF V
 <2>2. r = [p \in Predicate |-> [data \in Data |-> r[p][data]]]  BY <1>3
 <2>3. ASSUME NEW p \in Predicate  PROVE r[p] = [data \in Data |-> ThrowBody(r, p, data)]
   BY <1>3, <2>1
 <2>4. r = [p \in Predicate |-> [data \in Data |-> ThrowBody(r, p, data)]]
   BY <1>3, <2>3
 <2> QED  BY <2>4 DEF IsThrow
<1>5. MayThrow = CHOOSE f : IsThrow(f)
  BY Zenon DEF MayThrow, IsThrow, ThrowBody
<1>6. IsThrow(MayThrow)  BY <1>4, <1>5, Zenon
<1>7. ASSUME NEW p \in Predicate, NEW data \in Data
      PROVE  MayThrow[p][data] <=> ThrowBody(MayThrow, p, data)
 <2>1. \A f : f = [q \in Predicate |-> [d \in Data |-> ThrowBody(f, q, d)]]
         => (f[p][data] <=> ThrowBody(f, p, data))
   OBVIOUS
 <2> QED  BY <1>6, <2>1, Zenon DEF IsThrow
<1>8. \A p, data : ThrowBody(MayThrow, p, data) <=> ThrowFrom(p, data, Subs(MayThrow, p, data))
  BY ThrowBodyIs, Zenon
<1> QED  BY <1>7, <1>8, Zenon

----------------------------------------------------------------------------
(* Equality                                                                *)

\* The values in a value are of lower depth.
LEMMA ItemsBelow ==
  ASSUME NEW a \in Data, a.kind = "list", NEW n \in DOMAIN a.items
  PROVE  a.items[n] \in Data /\ Depth[a.items[n]] < Depth[a]
<1>1. a.items \in Seq(Data)  BY DataAssumption DEF IsValue
<1>2. a.items[n] \in Parts(a)  BY DEF Parts
<1> QED  BY <1>1, <1>2, DataAssumption

\* And those in a map.
LEMMA EntriesBelow ==
  ASSUME NEW a \in Data, a.kind = "map", NEW k \in DOMAIN a.entries
  PROVE  a.entries[k] \in Data /\ Depth[a.entries[k]] < Depth[a]
<1>1. a.entries \in [DOMAIN a.entries -> Data]
 <2>1. IsValue(a)  BY DataAssumption
 <2>2. a.entries \in [DOMAIN a.entries -> Data]  BY <2>1 DEF IsValue
 <2> QED  BY <2>2
<1>2. a.entries[k] \in Data  BY <1>1
<1>3. a.entries[k] \in Parts(a)  BY DEF Parts
<1> QED  BY <1>2, <1>3, DataAssumption

\* ipldEquals compares values by comparing their parts.
LEMMA EqualUnfolds ==
  \A a \in Data, b \in Data : IpldEquals[a][b] <=> EqualBody(IpldEquals, a, b)
<1> DEFINE V == [Data -> BOOLEAN]
           Row(a, f) == [b \in Data |-> EqualBody(f, a, b)]
           G == [a \in Data |-> [f \in [Data -> V] |-> Row(a, f)]]
<1>1. \A f, a, b : EqualBody(f, a, b) \in BOOLEAN  BY DEF EqualBody, Safe, Whole
<1>2. \A a \in Data : \A f \in [Data -> V] : Row(a, f) \in V  BY <1>1
<1>3. ASSUME NEW a \in Data, NEW f, NEW g, \A c \in Data : Depth[c] < Depth[a] => f[c] = g[c]
      PROVE  Row(a, f) = Row(a, g)
 <2>1. ASSUME NEW b \in Data  PROVE EqualBody(f, a, b) <=> EqualBody(g, a, b)
  <3>1. CASE a.kind = "list"
   <4>1. \A n \in DOMAIN a.items : f[a.items[n]] = g[a.items[n]]
     BY <1>3, <3>1, ItemsBelow
   <4>2. a.items \in Seq(Data)  BY <3>1, DataAssumption DEF IsValue
   <4>3. DOMAIN a.items = 1..Len(a.items)  BY <4>2
   <4> QED  BY <3>1, <4>1, <4>3, Zenon DEF EqualBody, IsNumber
  <3>2. CASE a.kind = "map"
   <4>1. \A k \in DOMAIN a.entries : f[a.entries[k]] = g[a.entries[k]]
     BY <1>3, <3>2, EntriesBelow
   <4> QED  BY <3>2, <4>1, Zenon DEF EqualBody, IsNumber
  <3>3. CASE a.kind \notin {"list", "map"}  BY <3>3 DEF EqualBody
  <3> QED  BY <3>1, <3>2, <3>3
 <2>2. \A b \in Data : EqualBody(f, a, b) = EqualBody(g, a, b)  BY <1>1, <2>1
 <2> QED  BY <2>2
<1>4. \A a \in Data : \A f \in [Data -> V] : G[a][f] = Row(a, f)  OBVIOUS
<1>5. G \in [Data -> [[Data -> V] -> V]]  BY <1>2
<1>6. V # {}
 <2>1. [b \in Data |-> TRUE] \in [Data -> BOOLEAN]  OBVIOUS
 <2> QED  BY <2>1
<1>7. Depth \in [Data -> Nat]  BY DataAssumption
<1> HIDE DEF V, Row, G
<1>8. IsStep(Data, Depth, V, G)
 <2>1. ASSUME NEW a \in Data, NEW f \in [Data -> V], NEW g \in [Data -> V],
              \A c \in Data : Depth[c] < Depth[a] => f[c] = g[c]
       PROVE  G[a][f] = G[a][g]
  <3>1. Row(a, f) = Row(a, g)  BY <1>3, <2>1
  <3> QED  BY <1>4, <3>1
 <2> QED  BY <1>5, <1>6, <1>7, <2>1 DEF IsStep
<1>9. PICK r \in [Data -> V] : \A a \in Data : r[a] = G[a][r]
  BY <1>8, Recursion
<1>10. IsEqual(r)
 <2>1. \A a \in Data : r[a] = [b \in Data |-> EqualBody(r, a, b)]
   BY <1>4, <1>9 DEF Row
 <2>2. r = [a \in Data |-> [b \in Data |-> EqualBody(r, a, b)]]  BY <1>9, <2>1
 <2> QED  BY <2>2 DEF IsEqual
<1>11. IpldEquals = CHOOSE f : IsEqual(f)
  BY Zenon DEF IpldEquals, IsEqual, EqualBody
<1>12. IsEqual(IpldEquals)  BY <1>10, <1>11, Zenon
<1>13. ASSUME NEW a \in Data, NEW b \in Data  PROVE IpldEquals[a][b] <=> EqualBody(IpldEquals, a, b)
 <2>1. \A f : f = [x \in Data |-> [y \in Data |-> EqualBody(f, x, y)]]
         => (f[a][b] <=> EqualBody(f, a, b))
   OBVIOUS
 <2> QED  BY <1>12, <2>1, Zenon DEF IsEqual
<1> QED  BY <1>13, Zenon

\* So does its meaning.
LEMMA SameUnfolds ==
  \A a \in Data, b \in Data : SameValue[a][b] <=> SameBody(SameValue, a, b)
<1> DEFINE V == [Data -> BOOLEAN]
           Row(a, f) == [b \in Data |-> SameBody(f, a, b)]
           G == [a \in Data |-> [f \in [Data -> V] |-> Row(a, f)]]
<1>1. \A f, a, b : SameBody(f, a, b) \in BOOLEAN
 <2> SUFFICES ASSUME NEW f, NEW a, NEW b  PROVE SameBody(f, a, b) \in BOOLEAN
   OBVIOUS
 <2> DEFINE lists == a.kind = "list" /\ b.kind = "list"
            maps == a.kind = "map" /\ b.kind = "map"
            numbers == IsNumber(a) /\ IsNumber(b)
 <2>1. CASE lists  BY <2>1 DEF SameBody
 <2>2. CASE ~lists /\ maps  BY <2>2 DEF SameBody
 <2>3. CASE ~lists /\ ~maps /\ numbers  BY <2>3 DEF SameBody
 <2>4. CASE ~lists /\ ~maps /\ ~numbers  BY <2>4 DEF SameBody
 <2> QED  BY <2>1, <2>2, <2>3, <2>4
<1>2. \A a \in Data : \A f \in [Data -> V] : Row(a, f) \in V  BY <1>1
<1>3. ASSUME NEW a \in Data, NEW f, NEW g, \A c \in Data : Depth[c] < Depth[a] => f[c] = g[c]
      PROVE  Row(a, f) = Row(a, g)
 <2>1. ASSUME NEW b \in Data  PROVE SameBody(f, a, b) <=> SameBody(g, a, b)
  <3>1. CASE a.kind = "list"
   <4>1. \A n \in DOMAIN a.items : f[a.items[n]] = g[a.items[n]]
     BY <1>3, <3>1, ItemsBelow
   <4>2. a.items \in Seq(Data)  BY <3>1, DataAssumption DEF IsValue
   <4>3. DOMAIN a.items = 1..Len(a.items)  BY <4>2
   <4> QED  BY <3>1, <4>1, <4>3, Zenon DEF SameBody, IsNumber
  <3>2. CASE a.kind = "map"
   <4>1. \A k \in DOMAIN a.entries : f[a.entries[k]] = g[a.entries[k]]
     BY <1>3, <3>2, EntriesBelow
   <4> QED  BY <3>2, <4>1, Zenon DEF SameBody, IsNumber
  <3>3. CASE a.kind \notin {"list", "map"}  BY <3>3 DEF SameBody
  <3> QED  BY <3>1, <3>2, <3>3
 <2>2. \A b \in Data : SameBody(f, a, b) = SameBody(g, a, b)  BY <1>1, <2>1
 <2> QED  BY <2>2
<1>4. \A a \in Data : \A f \in [Data -> V] : G[a][f] = Row(a, f)  OBVIOUS
<1>5. G \in [Data -> [[Data -> V] -> V]]  BY <1>2
<1>6. V # {}
 <2>1. [b \in Data |-> TRUE] \in [Data -> BOOLEAN]  OBVIOUS
 <2> QED  BY <2>1
<1>7. Depth \in [Data -> Nat]  BY DataAssumption
<1> HIDE DEF V, Row, G
<1>8. IsStep(Data, Depth, V, G)
 <2>1. ASSUME NEW a \in Data, NEW f \in [Data -> V], NEW g \in [Data -> V],
              \A c \in Data : Depth[c] < Depth[a] => f[c] = g[c]
       PROVE  G[a][f] = G[a][g]
  <3>1. Row(a, f) = Row(a, g)  BY <1>3, <2>1
  <3> QED  BY <1>4, <3>1
 <2> QED  BY <1>5, <1>6, <1>7, <2>1 DEF IsStep
<1>9. PICK r \in [Data -> V] : \A a \in Data : r[a] = G[a][r]
  BY <1>8, Recursion
<1>10. IsSame(r)
 <2>1. \A a \in Data : r[a] = [b \in Data |-> SameBody(r, a, b)]
   BY <1>4, <1>9 DEF Row
 <2>2. r = [a \in Data |-> [b \in Data |-> SameBody(r, a, b)]]  BY <1>9, <2>1
 <2> QED  BY <2>2 DEF IsSame
<1>11. SameValue = CHOOSE f : IsSame(f)
  BY Zenon DEF SameValue, IsSame, SameBody
<1>12. IsSame(SameValue)  BY <1>10, <1>11, Zenon
<1>13. ASSUME NEW a \in Data, NEW b \in Data  PROVE SameValue[a][b] <=> SameBody(SameValue, a, b)
 <2>1. \A f : f = [x \in Data |-> [y \in Data |-> SameBody(f, x, y)]]
         => (f[a][b] <=> SameBody(f, a, b))
   OBVIOUS
 <2> QED  BY <1>12, <2>1, Zenon DEF IsSame
<1> QED  BY <1>13, Zenon

\* Within lists and maps, a float that meets an equal integer is safe.
LEMMA PartsSafe ==
  ASSUME SafeWithin, NEW a \in Data, NEW b \in Data, NEW x \in Parts(a), NEW y \in Parts(b),
         x \in Data, y \in Data
  PROVE  SafeMixed(x, y)
<1> SUFFICES ASSUME Mixed(x, y), x.halves = y.halves  PROVE Safe(x.halves)
  BY DEF SafeMixed
<1>1. (x.kind = "number" /\ y.kind = "bigint") \/ (x.kind = "bigint" /\ y.kind = "number")
  BY DEF Mixed
<1>2. Whole(x.halves)  BY <1>1, DataAssumption DEF IsValue
<1> QED  BY <1>1, <1>2 DEF SafeWithin

\* ipldEquals finds the values equal that are equal by value.
LEMMA EqualIsSame ==
  ASSUME SafeWithin, NEW x \in Data, NEW y \in Data, SafeMixed(x, y)
  PROVE  IpldEquals[x][y] <=> SameValue[x][y]
<1> DEFINE T == {a \in Data : Agree(a)}
<1>1. ASSUME NEW a \in Data, \A c \in Data : Depth[c] < Depth[a] => c \in T
      PROVE  a \in T
 <2> SUFFICES ASSUME NEW b \in Data, SafeMixed(a, b)
              PROVE  IpldEquals[a][b] <=> SameValue[a][b]
   BY DEF Agree
 <2>1. IpldEquals[a][b] <=> EqualBody(IpldEquals, a, b)  BY EqualUnfolds
 <2>2. SameValue[a][b] <=> SameBody(SameValue, a, b)  BY SameUnfolds
 <2> SUFFICES EqualBody(IpldEquals, a, b) <=> SameBody(SameValue, a, b)
   BY <2>1, <2>2
 <2>3. IsValue(a) /\ IsValue(b)  BY DataAssumption
 <2>4. CASE a.kind = "list" /\ b.kind = "list"
  <3>1. a.items \in Seq(Data) /\ b.items \in Seq(Data)
    BY <2>3, <2>4 DEF IsValue
  <3>2. /\ DOMAIN a.items = 1..Len(a.items) /\ DOMAIN b.items = 1..Len(b.items)
        /\ Len(a.items) \in Nat /\ Len(b.items) \in Nat
    BY <3>1
  <3>3. (Len(a.items) = Len(b.items)) <=> (DOMAIN a.items = DOMAIN b.items)
    BY <3>1, <3>2
  <3>4. ASSUME Len(a.items) = Len(b.items), NEW n \in DOMAIN a.items
        PROVE  IpldEquals[a.items[n]][b.items[n]] <=> SameValue[a.items[n]][b.items[n]]
   <4>1. a.items[n] \in T /\ a.items[n] \in Parts(a) /\ b.items[n] \in Parts(b) /\ b.items[n] \in Data
     BY <1>1, <2>4, <3>2, <3>4, ItemsBelow DEF Parts
   <4>2. SafeMixed(a.items[n], b.items[n])  BY <4>1, PartsSafe
   <4> QED  BY <4>1, <4>2 DEF Agree
  <3>5. EqualBody(IpldEquals, a, b) <=>
          Len(a.items) = Len(b.items) /\ \A n \in 1..Len(a.items) : IpldEquals[a.items[n]][b.items[n]]
    BY <2>4 DEF EqualBody
  <3>6. SameBody(SameValue, a, b) <=>
          DOMAIN a.items = DOMAIN b.items /\ \A n \in DOMAIN a.items : SameValue[a.items[n]][b.items[n]]
    BY <2>4, Zenon DEF SameBody, IsNumber
  <3> HIDE DEF T
  <3> QED  BY <3>2, <3>3, <3>4, <3>5, <3>6, Zenon
 <2>5. CASE a.kind = "map" /\ b.kind = "map"
  <3>1. ASSUME DOMAIN a.entries = DOMAIN b.entries, NEW k \in DOMAIN a.entries
        PROVE  IpldEquals[a.entries[k]][b.entries[k]] <=> SameValue[a.entries[k]][b.entries[k]]
   <4>1. a.entries[k] \in T /\ a.entries[k] \in Parts(a) /\ b.entries[k] \in Parts(b) /\ b.entries[k] \in Data
     BY <1>1, <2>5, <3>1, EntriesBelow DEF Parts
   <4>2. SafeMixed(a.entries[k], b.entries[k])  BY <4>1, PartsSafe
   <4> QED  BY <4>1, <4>2 DEF Agree
  <3>2. EqualBody(IpldEquals, a, b) <=>
          DOMAIN a.entries = DOMAIN b.entries /\ \A k \in DOMAIN a.entries : IpldEquals[a.entries[k]][b.entries[k]]
    BY <2>5 DEF EqualBody
  <3>3. SameBody(SameValue, a, b) <=>
          DOMAIN a.entries = DOMAIN b.entries /\ \A k \in DOMAIN a.entries : SameValue[a.entries[k]][b.entries[k]]
    BY <2>5, Zenon DEF SameBody, IsNumber
  <3> HIDE DEF T
  <3> QED  BY <3>1, <3>2, <3>3, Zenon
 <2>6. CASE IsNumber(a) /\ IsNumber(b)
  <3>1. /\ a.kind \in {"number", "bigint"} /\ b.kind \in {"number", "bigint"}
        /\ a.kind \notin {"list", "map"} /\ b.kind \notin {"list", "map"}
    BY <2>6 DEF IsNumber
  <3>2. SameBody(SameValue, a, b) <=> a.halves = b.halves /\ a.halves # NaN
    BY <2>6, <3>1 DEF SameBody
  <3>3. CASE Mixed(a, b)
   <4>1. EqualBody(IpldEquals, a, b) <=> a.halves = b.halves /\ Safe(a.halves)
     BY <3>3, Zenon DEF EqualBody, Mixed
   <4>2. Safe(a.halves) => a.halves # NaN  BY IpldAssumption DEF Safe, Whole
   <4>3. a.halves = b.halves => Safe(a.halves)  BY <3>3 DEF SafeMixed
   <4> QED  BY <3>2, <4>1, <4>2, <4>3
  <3>4. CASE ~Mixed(a, b)
   <4>1. a.kind = b.kind  BY <3>1, <3>4 DEF Mixed
   <4>2. CASE a.kind = "number"  BY <3>2, <4>1, <4>2 DEF EqualBody
   <4>3. CASE a.kind = "bigint"
    <5>1. EqualBody(IpldEquals, a, b) <=> a = b  BY <4>1, <4>3 DEF EqualBody
    <5>2. /\ a = [kind |-> "bigint", halves |-> a.halves] /\ b = [kind |-> "bigint", halves |-> b.halves]
          /\ a.halves \in Int
      BY <2>3, <4>1, <4>3 DEF IsValue, Whole
    <5>3. a.halves # NaN  BY <5>2, IpldAssumption
    <5> QED  BY <3>2, <5>1, <5>2, <5>3
   <4> QED  BY <3>1, <4>2, <4>3
  <3> QED  BY <3>3, <3>4
 <2>7. CASE /\ ~(a.kind = "list" /\ b.kind = "list") /\ ~(a.kind = "map" /\ b.kind = "map")
            /\ ~(IsNumber(a) /\ IsNumber(b))
  <3>1. SameBody(SameValue, a, b) <=> a = b  BY <2>7 DEF SameBody
  <3>2. ~({a.kind, b.kind} = {"number", "bigint"})  BY <2>7 DEF IsNumber
  <3>3. CASE a.kind # b.kind
   <4>1. a # b  BY <3>3
   <4> QED  BY <3>1, <3>2, <3>3, <4>1, Zenon DEF EqualBody
  <3>4. CASE a.kind = b.kind
   <4>1. a.kind \notin {"list", "map", "number"}  BY <2>7, <3>4 DEF IsNumber
   <4> QED  BY <3>1, <3>2, <3>4, <4>1 DEF EqualBody
  <3> QED  BY <3>3, <3>4
 <2> QED  BY <2>4, <2>5, <2>6, <2>7
<1>2. Depth \in [Data -> Nat]  BY DataAssumption
<1>3. Data \subseteq T
 <2> HIDE DEF T
 <2> QED  BY <1>1, <1>2, RankInduction
<1> QED  BY <1>3 DEF Agree

----------------------------------------------------------------------------
(* Order                                                                   *)

\* A float and an integer: floor first, then the fraction.
LEMMA Halving ==
  ASSUME NEW f \in Int, NEW n \in Int, n % 2 = 0
  PROVE  /\ f \div 2 < n \div 2 => f < n
         /\ f \div 2 > n \div 2 => f > n
         /\ f \div 2 = n \div 2 => f - n = f % 2
         /\ f \div 2 \in Int /\ n \div 2 \in Int /\ f % 2 \in {0, 1}
<1>1. f = (2 * (f \div 2)) + (f % 2) /\ f % 2 \in 0..1 /\ f \div 2 \in Int
  OBVIOUS
<1>2. n = (2 * (n \div 2)) + (n % 2) /\ n \div 2 \in Int  OBVIOUS
<1> QED  BY <1>1, <1>2

\* numberCompare finds the order of two numbers, however they are held.
LEMMA CompareIs ==
  ASSUME NEW a \in Data, NEW b \in Data, IsNumber(a), IsNumber(b)
  PROVE  Orders(NumberCompare(a, b), a.halves, b.halves)
<1> DEFINE x == a.halves
           y == b.halves
           o == NumberCompare(a, b)
           Order(i, j) == IF i < j THEN -1 ELSE IF i > j THEN 1 ELSE 0
           Mix(f, n) ==
             IF f = Infinity THEN 1 ELSE IF f = MinusInfinity THEN -1
             ELSE IF Order(f \div 2, n \div 2) # 0 THEN Order(f \div 2, n \div 2) ELSE f % 2
           Rank(h) == IF h = Infinity THEN 1 ELSE IF h = MinusInfinity THEN -1 ELSE 0
           Floats(i, j) == IF i \in Int /\ j \in Int THEN Order(i, j) ELSE Order(Rank(i), Rank(j))
           Halves == Int \cup {Infinity, MinusInfinity, NaN}
<1>1. o = (IF NaN \in {x, y} THEN NaN
           ELSE IF a.kind = b.kind THEN Floats(x, y)
           ELSE IF a.kind = "number" THEN Mix(x, y) ELSE -Mix(y, x))
  BY DEF NumberCompare
<1>2. /\ Infinity \notin Int /\ MinusInfinity \notin Int /\ NaN \notin Int
      /\ Infinity # MinusInfinity /\ Infinity # NaN /\ MinusInfinity # NaN
  BY IpldAssumption
<1>3. /\ a.kind = "number" \/ a.kind = "bigint"
      /\ b.kind = "number" \/ b.kind = "bigint"
  BY DEF IsNumber
<1>4. /\ x \in Halves /\ y \in Halves
      /\ a.kind = "bigint" => x \in Int /\ x % 2 = 0
      /\ b.kind = "bigint" => y \in Int /\ y % 2 = 0
  BY <1>3, DataAssumption DEF IsValue, Whole
<1> SUFFICES Orders(o, x, y)  OBVIOUS
<1> HIDE DEF x, y, o
<1>5. CASE NaN \in {x, y}  BY <1>1, <1>2, <1>5 DEF Orders, Below
<1>6. ASSUME NEW i \in Halves, NEW j \in Halves, NaN \notin {i, j}
      PROVE  Orders(Floats(i, j), i, j)
 <2>1. CASE i \in Int /\ j \in Int  BY <1>2, <2>1 DEF Orders, Below
 <2>2. CASE ~(i \in Int /\ j \in Int)  BY <1>2, <1>6, <2>2 DEF Orders, Below
 <2> QED  BY <2>1, <2>2
<1>7. ASSUME NEW f \in Halves, NEW n \in Int, f # NaN, n % 2 = 0
      PROVE  Orders(Mix(f, n), f, n) /\ Mix(f, n) \in {-1, 0, 1}
 <2>1. CASE f \in Int
  <3>1. /\ f \div 2 < n \div 2 => f < n
        /\ f \div 2 > n \div 2 => f > n
        /\ f \div 2 = n \div 2 => f - n = f % 2
        /\ f \div 2 \in Int /\ n \div 2 \in Int /\ f % 2 \in {0, 1}
    BY <1>7, <2>1, Halving
  <3> DEFINE u == f \div 2  w == n \div 2  r == f % 2
  <3>2. Mix(f, n) = (IF u < w THEN -1 ELSE IF u > w THEN 1 ELSE r)
   <4> HIDE DEF u, w, r
   <4>1. u \in Int /\ w \in Int  BY <3>1 DEF u, w
   <4>2. Mix(f, n) = (IF Order(u, w) # 0 THEN Order(u, w) ELSE r)
    <5>1. f # Infinity /\ f # MinusInfinity  BY <1>2, <2>1
    <5> QED  BY <5>1, Zenon DEF u, w, r
   <4>3. Order(u, w) = IF u < w THEN -1 ELSE IF u > w THEN 1 ELSE 0  OBVIOUS
   <4> HIDE DEF Mix, Order
   <4>4. CASE u < w  BY <4>2, <4>3, <4>4
   <4>5. CASE ~(u < w) /\ u > w  BY <4>2, <4>3, <4>5
   <4>6. CASE ~(u < w) /\ ~(u > w)  BY <4>2, <4>3, <4>6
   <4> QED  BY <4>4, <4>5, <4>6
  <3> HIDE DEF u, w, r, Mix
  <3>3. /\ u < w => f < n
        /\ u > w => f > n
        /\ u = w => f - n = r
        /\ u \in Int /\ w \in Int /\ r \in {0, 1}
    BY <3>1 DEF u, w, r
  <3>4. Mix(f, n) \in {-1, 0, 1} /\ (Mix(f, n) = 1 <=> f > n) /\ (Mix(f, n) = -1 <=> f < n)
    BY <2>1, <3>2, <3>3
  <3> QED  BY <1>2, <2>1, <3>4 DEF Orders, Below
 <2>2. CASE f = Infinity  BY <1>2, <2>2 DEF Orders, Below
 <2>3. CASE f = MinusInfinity  BY <1>2, <2>3 DEF Orders, Below
 <2> QED  BY <1>7, <2>1, <2>2, <2>3
<1> HIDE DEF Floats, Mix
<1>8. CASE NaN \notin {x, y} /\ a.kind = b.kind  BY <1>1, <1>4, <1>6, <1>8
<1>9. CASE NaN \notin {x, y} /\ a.kind = "number" /\ b.kind = "bigint"
  BY <1>1, <1>4, <1>7, <1>9
<1>10. CASE NaN \notin {x, y} /\ a.kind = "bigint" /\ b.kind = "number"
 <2>1. Orders(Mix(y, x), y, x) /\ Mix(y, x) \in {-1, 0, 1} /\ o = -Mix(y, x)
   BY <1>1, <1>4, <1>7, <1>10
 <2> QED  BY <1>10, <2>1 DEF Orders
<1> QED  BY <1>3, <1>5, <1>8, <1>9, <1>10

----------------------------------------------------------------------------
(* Comparisons                                                             *)

\* Equivalent conditions give the same verdict.
LEMMA VerdictIs ==
  ASSUME NEW b, NEW c, b <=> c
  PROVE  Verdict(b) = Verdict(c)
BY DEF Verdict

\* A comparison, when it does not throw, gives its meaning, and throws when it has none.
LEMMA ComparisonIsMeant ==
  ASSUME SafeWithin, NEW p, NEW v, p.op \in Orderings \cup {"==", "like"}, v.kind # "error", Fits(p.op, v),
         p.value \in Data, p.op = "like" => p.value.kind = "string", p.op \in Orderings => IsNumber(p.value)
  PROVE  RunCompare(p.op, v, p.value) = Judgement(p, v)
<1> DEFINE w == p.value
           a == v.halves
           b == p.value.halves
<1>1. CASE p.op \in Orderings
 <2> DEFINE o == NumberCompare(v, w)
 <2>1. Orders(o, a, b)  BY <1>1, CompareIs DEF Fits
 <2>2. RunCompare(p.op, v, w) = Verdict(CASE p.op = ">"  -> o = 1
               [] p.op = ">=" -> o \in {0, 1}
               [] p.op = "<"  -> o = -1
               [] p.op = "<=" -> o \in {-1, 0})
   BY <1>1 DEF RunCompare, RunOrdering, Orderings
 <2> HIDE DEF o, a, b
 <2>3. Judgement(p, v) = CASE p.op = ">"  -> Verdict(Below(b, a))
        [] p.op = "<"  -> Verdict(Below(a, b))
        [] p.op = ">=" -> Verdict(Below(b, a) \/ (a = b /\ a # NaN))
        [] p.op = "<=" -> Verdict(Below(a, b) \/ (a = b /\ a # NaN))
   BY <1>1 DEF Judgement, Orderings, a, b
 <2> QED  BY <1>1, <2>1, <2>2, <2>3 DEF Orders, Orderings, Verdict
<1>2. CASE p.op = "like"
 <2>1. RunCompare(p.op, v, w) = Verdict(Glob(v.text, w.text))
   BY <1>2 DEF RunCompare, Orderings
 <2>2. Judgement(p, v) = Verdict(GlobMatches(v.text, w.text))
   BY <1>2 DEF Judgement
 <2>3. Glob(v.text, w.text) <=> GlobMatches(v.text, w.text)
  <3> DEFINE C == {v.text[n] : n \in DOMAIN v.text} \cup {w.text[n] : n \in DOMAIN w.text} \cup {Backslash}
  <3>1. /\ v.text \in Seq({v.text[n] : n \in DOMAIN v.text})
        /\ w.text \in Seq({w.text[n] : n \in DOMAIN w.text})
    BY <1>2, DataAssumption DEF Fits, IsValue
  <3>2. \A S, T : S \subseteq T => \A s \in Seq(S) : s \in Seq(T)  OBVIOUS
  <3>3. v.text \in Seq(C) /\ w.text \in Seq(C) /\ Backslash \in C
   <4>1. /\ {v.text[n] : n \in DOMAIN v.text} \subseteq C
         /\ {w.text[n] : n \in DOMAIN w.text} \subseteq C
     OBVIOUS
   <4> HIDE DEF C
   <4>2. Backslash \in C  BY DEF C
   <4> QED  BY <3>1, <3>2, <4>1, <4>2
  <3> HIDE DEF C
  <3> QED  BY <3>3, GlobIsMatching
 <2> QED  BY <2>1, <2>2, <2>3, VerdictIs
<1>3. CASE p.op = "=="
 <2>1. RunCompare(p.op, v, w) = RunEqual(v, w)
   BY <1>3 DEF RunCompare, Orderings
 <2>2. Judgement(p, v) = (IF {v.kind, w.kind} = {"number", "bigint"} /\ ~(Whole(a) /\ Whole(b))
             THEN "error" ELSE Verdict(SameValue[v][w]))
   BY <1>3, Zenon DEF Judgement
 <2>3. v \in Data /\ w \in Data /\ IsValue(v) /\ IsValue(w)
   BY DataAssumption DEF Fits
 <2>4. CASE Mixed(v, w)
  <3> DEFINE float == IF v.kind = "number" THEN a ELSE b
  <3>1. RunEqual(v, w) = (IF Whole(float) THEN Verdict(a = b) ELSE "error")
    BY <2>4 DEF RunEqual, Mixed
  <3>2. (v.kind = "number" /\ w.kind = "bigint") \/ (v.kind = "bigint" /\ w.kind = "number")
    BY <2>4 DEF Mixed
  <3>3. Whole(float) <=> Whole(a) /\ Whole(b)  BY <2>3, <3>2 DEF IsValue
  <3>4. Whole(a) => a # NaN  BY IpldAssumption DEF Whole
  <3>5. SameValue[v][w] <=> a = b /\ a # NaN
   <4>1. SameValue[v][w] <=> SameBody(SameValue, v, w)  BY <2>3, SameUnfolds
   <4>2. SameBody(SameValue, v, w) <=> a = b /\ a # NaN
     BY <3>2 DEF SameBody, IsNumber
   <4> QED  BY <4>1, <4>2
  <3>6. Judgement(p, v) = IF Whole(a) /\ Whole(b) THEN Verdict(SameValue[v][w]) ELSE "error"
    BY <2>2, <2>4 DEF Mixed
  <3> HIDE DEF float
  <3>7. Whole(a) => (SameValue[v][w] <=> a = b)  BY <3>4, <3>5
  <3>8. Whole(a) => Verdict(SameValue[v][w]) = Verdict(a = b)
    BY <3>7, VerdictIs
  <3> QED  BY <2>1, <3>1, <3>3, <3>6, <3>8
 <2>5. CASE ~Mixed(v, w)
  <3>1. RunEqual(v, w) = Verdict(IpldEquals[v][w])
    BY <2>5 DEF RunEqual, Mixed
  <3>2. Judgement(p, v) = Verdict(SameValue[v][w])  BY <2>2, <2>5 DEF Mixed
  <3>3. IpldEquals[v][w] <=> SameValue[v][w]
    BY <2>3, <2>5, EqualIsSame DEF SafeMixed
  <3>4. Verdict(IpldEquals[v][w]) = Verdict(SameValue[v][w])
    BY <3>3, VerdictIs
  <3> QED  BY <2>1, <3>1, <3>2, <3>4
 <2> QED  BY <2>4, <2>5
<1> QED  BY <1>1, <1>2, <1>3

----------------------------------------------------------------------------
(* Connectives and quantifiers                                             *)

\* Stopping at the first part that decides gives a fair verdict.
LEMMA FirstIsFair ==
  ASSUME NEW N \in Nat, NEW R \in [1..N -> Verdicts], NEW J \in [1..N -> Verdicts], NEW M, DOMAIN M = 1..N,
         \A n \in 1..N : Fair(R[n], J[n], M[n]),
         NEW unit \in {"true", "false"}, NEW parts, parts = {J[n] : n \in 1..N}
  PROVE  Says(FirstOther(R, unit), unit, Negated(unit), parts, M)
<1> DEFINE others == {n \in DOMAIN R : R[n] # unit}
           verdict == FirstOther(R, unit)
           decides == Negated(unit)
<1>1. decides \in {"true", "false"} /\ decides # unit /\ Verdicts = {unit, decides, "error"}
  BY DEF Negated, Verdicts
<1> SUFFICES Says(verdict, unit, decides, parts, M)  OBVIOUS
<1> HIDE DEF decides
<1>2. CASE others = {}
 <2>1. verdict = unit  BY <1>2 DEF FirstOther
 <2>2. \A n \in 1..N : J[n] = unit  BY <1>2 DEF Fair
 <2> HIDE DEF verdict
 <2> QED  BY <1>1, <2>1, <2>2 DEF Says
<1>3. CASE others # {}
 <2>1. others \in SUBSET Nat  OBVIOUS
 <2> DEFINE k == Min(others)
 <2>2. verdict = R[k]  BY <1>3 DEF FirstOther
 <2>3. k \in others
  <3> HIDE DEF others
  <3> QED  BY <1>3, <2>1, MinInT
 <2> HIDE DEF k, verdict
 <2>4. k \in 1..N /\ R[k] # unit  BY <2>3
 <2>5. Fair(R[k], J[k], M[k]) /\ k \in DOMAIN M  BY <2>4
 <2>6. J[k] \in parts  BY <2>4
 <2> QED  BY <1>1, <2>2, <2>4, <2>5, <2>6 DEF Fair, Says
<1> HIDE DEF verdict, others
<1> QED  BY <1>2, <1>3

\* So and, or, all and any are fair when all their parts are.
LEMMA ManyIsFair ==
  ASSUME NEW op \in {"and", "or", "all", "any"},
         NEW N \in Nat, NEW R \in [1..N -> Verdicts], NEW J \in [1..N -> Verdicts], NEW M, DOMAIN M = 1..N,
         \A n \in 1..N : Fair(R[n], J[n], M[n])
  PROVE  Fair(RunMany(op, R), JudgeMany(op, {J[n] : n \in DOMAIN J}), \E n \in DOMAIN M : M[n])
<1> DEFINE parts == {J[n] : n \in DOMAIN J}
           throws == \E n \in DOMAIN M : M[n]
           meant == JudgeMany(op, parts)
           unit == IF op \in {"and", "all"} THEN "true" ELSE "false"
           decides == IF op \in {"and", "all"} THEN "false" ELSE "true"
           first == FirstOther(R, unit)
<1>1. parts = {J[n] : n \in 1..N}  OBVIOUS
<1>2. RunMany(op, R) \in Verdicts /\ meant \in Verdicts
  BY RunManyTyped, JudgeManyTyped
<1>3. /\ unit \in {"true", "false"} /\ decides \in {"true", "false"} /\ unit # decides
      /\ decides = Negated(unit) /\ unit = Negated(decides)
  BY DEF Negated
<1>4. meant = (IF parts = {} THEN "true" ELSE IF decides \in parts THEN decides
               ELSE IF "error" \in parts THEN "error" ELSE unit)
 <2> HIDE DEF parts
 <2> QED  BY <1>3, Zenon DEF JudgeMany
<1>5. CASE N = 0
 <2>1. parts = {} /\ DOMAIN R = {}  BY <1>1, <1>5
 <2>2. R = <<>>  BY <1>5
 <2>3. RunMany(op, R) = "true"  BY <2>1, <2>2 DEF RunMany, Reduce, FirstOther
 <2> HIDE DEF parts, throws, meant
 <2>4. meant = "true"  BY <1>4, <2>1
 <2> QED  BY <1>1, <1>2, <2>3, <2>4 DEF Fair, meant, throws, parts
<1>6. CASE N # 0
 <2>1. 1 \in 1..N /\ R # <<>>
  <3>1. 1 \in 1..N /\ 1 \in DOMAIN R  BY <1>6
  <3> QED  BY <3>1
 <2>2. parts # {}  BY <1>1, <2>1
 <2>3. RunMany(op, R) = first  BY <2>1 DEF RunMany, Reduce
 <2>4. /\ first \in {unit, decides, "error"}
       /\ first = unit => parts \subseteq {unit}
       /\ first = decides => decides \in parts
       /\ first = "error" => throws
  <3> HIDE DEF unit, decides
  <3>1. Says(first, unit, Negated(unit), parts, M)
   <4> HIDE DEF parts, meant
   <4> QED  BY <1>1, <1>3, FirstIsFair
  <3> QED  BY <1>3, <3>1 DEF Says
 <2> HIDE DEF parts, throws, meant, first, unit, decides
 <2>5. first = unit => meant = unit  BY <1>3, <1>4, <2>2, <2>4
 <2>6. first = decides => meant = decides  BY <1>4, <2>2, <2>4
 <2> QED  BY <1>1, <1>2, <1>3, <2>3, <2>4, <2>5, <2>6 DEF Fair, meant, throws, parts
<1> QED  BY <1>5, <1>6

----------------------------------------------------------------------------
(* Predicates of any depth                                                 *)

\* Every verdict on p is fair when those on its parts are.
LEMMA JudgedByParts ==
  ASSUME SafeWithin, NEW p \in Predicate, NEW data \in Data, \A q \in Predicate : Size[q] < Size[p] => Judged(q)
  PROVE  LET R == Subs(RunPredicate, p, data)
             J == Subs(Judge, p, data)
             M == Subs(MayThrow, p, data)
         IN  Fair(RunFrom(p, data, R), JudgeFrom(p, data, J), ThrowFrom(p, data, M))
<1> DEFINE R == Subs(RunPredicate, p, data)
           J == Subs(Judge, p, data)
           M == Subs(MayThrow, p, data)
           N == Count(p, data)
<1>1. \A n \in 1..N : Fair(R[n], J[n], M[n])
 <2> SUFFICES ASSUME NEW n \in 1..N  PROVE Fair(R[n], J[n], M[n])  OBVIOUS
 <2>1. PICK q, d : IsNth(n, q, d, p, data)  BY SubsAre
 <2>2. R[n] = RunPredicate[q][d] /\ J[n] = Judge[q][d] /\ M[n] = MayThrow[q][d]
   BY <2>1 DEF IsNth
 <2>3. Fair(RunPredicate[q][d], Judge[q][d], MayThrow[q][d])
   BY <2>1 DEF IsNth, Lower, Judged
 <2> HIDE DEF R, J, M
 <2> QED  BY <2>2, <2>3
<1>2. /\ R = [n \in 1..N |-> R[n]] /\ J = [n \in 1..N |-> J[n]] /\ M = [n \in 1..N |-> M[n]]
      /\ N \in Nat
  BY SubsAre
<1> HIDE DEF R, J, M, N
<1>3. R \in [1..N -> Verdicts] /\ J \in [1..N -> Verdicts] /\ DOMAIN M = 1..N
 <2>1. \A n \in 1..N : R[n] \in Verdicts /\ J[n] \in Verdicts  BY <1>1 DEF Fair
 <2>2. R \in [1..N -> Verdicts]  BY <1>2, <2>1
 <2>3. J \in [1..N -> Verdicts]  BY <1>2, <2>1
 <2>4. DOMAIN M = 1..N  BY <1>2
 <2> QED  BY <2>2, <2>3, <2>4
<1> SUFFICES Fair(RunFrom(p, data, R), JudgeFrom(p, data, J), ThrowFrom(p, data, M))
  BY DEF R, J, M
<1>5. CASE p.op = "not"
 <2>1. N = 1  BY <1>5 DEF N, Count
 <2>2. Fair(R[1], J[1], M[1]) /\ 1 \in DOMAIN M  BY <1>1, <1>3, <2>1
 <2>3. RunFrom(p, data, R) = Negated(R[1]) /\ JudgeFrom(p, data, J) = Negated(J[1])
   BY <1>5 DEF RunFrom, JudgeFrom
 <2>4. ThrowFrom(p, data, M) <=> \E n \in DOMAIN M : M[n]
   BY <1>5 DEF ThrowFrom
 <2>5. M[1] => ThrowFrom(p, data, M)  BY <2>2, <2>4
 <2>6. Negated(R[1]) = (IF R[1] = "true" THEN "false" ELSE IF R[1] = "false" THEN "true" ELSE R[1])
   BY DEF Negated
 <2>7. Negated(J[1]) = (IF J[1] = "true" THEN "false" ELSE IF J[1] = "false" THEN "true" ELSE J[1])
   BY DEF Negated
 <2> QED  BY <2>2, <2>3, <2>5, <2>6, <2>7 DEF Fair, Verdicts
<1>6. CASE p.op # "not" /\ Joins(p, data)
 <2>1. p.op \in {"and", "or", "all", "any"}
   BY <1>6 DEF Joins, Looks, Connectives, Quantifiers
 <2>2. Fair(RunMany(p.op, R), JudgeMany(p.op, {J[n] : n \in DOMAIN J}), \E n \in DOMAIN M : M[n])
  <3>1. N \in Nat /\ \A n \in 1..N : Fair(R[n], J[n], M[n])
    BY <1>1, <1>2
  <3> QED  BY <1>3, <2>1, <3>1, ManyIsFair, Zenon
 <2>3. RunFrom(p, data, R) = RunMany(p.op, R)  BY <1>6 DEF RunFrom
 <2>4. JudgeFrom(p, data, J) = JudgeMany(p.op, {J[n] : n \in DOMAIN J})
   BY <1>6 DEF JudgeFrom
 <2>5. ThrowFrom(p, data, M) <=> \E n \in DOMAIN M : M[n]
   BY <1>6 DEF ThrowFrom
 <2> QED  BY <2>2, <2>3, <2>4, <2>5, Zenon DEF Fair
<1>7. CASE p.op # "not" /\ ~Joins(p, data)
 <2> DEFINE v == Selected(p.op, p.select, data)
 <2>1. RunFrom(p, data, R) = (IF v.kind = "error" THEN "error" ELSE RunCompare(p.op, v, p.value))
   BY <1>7 DEF RunFrom
 <2>2. JudgeFrom(p, data, J) = Judgement(p, v)  BY <1>7 DEF JudgeFrom
 <2>3. ThrowFrom(p, data, M) <=> Judgement(p, v) = "error"
   BY <1>7 DEF ThrowFrom
 <2>4. \/ v.kind = "error"
       \/ /\ p.op \in Orderings \cup {"==", "like"} /\ Fits(p.op, v)
          /\ p.value \in Data
          /\ p.op = "like" => p.value.kind = "string"
          /\ p.op \in Orderings => IsNumber(p.value)
   BY <1>7, Leaf
 <2> HIDE DEF v
 <2>5. CASE v.kind = "error"
  <3>1. Judgement(p, v) = "error"  BY <2>5 DEF Judgement
  <3> QED  BY <2>1, <2>2, <2>3, <2>5, <3>1 DEF Fair, Verdicts
 <2>6. CASE v.kind # "error"
  <3>1. RunCompare(p.op, v, p.value) = Judgement(p, v)
    BY <2>4, <2>6, ComparisonIsMeant
  <3>2. Judgement(p, v) \in Verdicts  BY <2>4, <2>6, JudgementTyped
  <3> QED  BY <2>1, <2>2, <2>3, <2>6, <3>1, <3>2 DEF Fair, Verdicts
 <2> QED  BY <2>5, <2>6
<1> QED  BY <1>5, <1>6, <1>7

\* runPredicate is fair to every predicate.
LEMMA AllJudged ==
  ASSUME SafeWithin, NEW p \in Predicate
  PROVE  Judged(p)
<1> DEFINE T == {q \in Predicate : Judged(q)}
<1>1. ASSUME NEW q \in Predicate, \A c \in Predicate : Size[c] < Size[q] => c \in T
      PROVE  q \in T
 <2>1. \A c \in Predicate : Size[c] < Size[q] => Judged(c)  BY <1>1
 <2>2. ASSUME NEW data \in Data  PROVE Fair(RunPredicate[q][data], Judge[q][data], MayThrow[q][data])
  <3> DEFINE R == Subs(RunPredicate, q, data)
             J == Subs(Judge, q, data)
             M == Subs(MayThrow, q, data)
  <3>1. Fair(RunFrom(q, data, R), JudgeFrom(q, data, J), ThrowFrom(q, data, M))
    BY <2>1, JudgedByParts
  <3>2. RunPredicate[q][data] = RunFrom(q, data, R) /\ Judge[q][data] = JudgeFrom(q, data, J)
    BY RunUnfolds, JudgeUnfolds
  <3>3. MayThrow[q][data] <=> ThrowFrom(q, data, M)  BY ThrowUnfolds
  <3> HIDE DEF R, J, M
  <3> QED  BY <3>1, <3>2, <3>3 DEF Fair
 <2> QED  BY <2>2 DEF Judged
<1>2. Size \in [Predicate -> Nat]  BY PredicatesAssumption
<1>3. Predicate \subseteq T
 <2> HIDE DEF T
 <2> QED  BY <1>1, <1>2, RankInduction
<1> QED  BY <1>3

\* and, or, all and any stop early, globs are matched greedily and numbers
\* compared across two representations, yet a policy of any depth that reaches
\* a verdict on arguments of any depth reaches the one it means, and throws
\* only if some comparison in it does.
THEOREM VerdictsMeant == SafeWithin => (JudgingSpec => []VerdictIsMeant)
<1> SUFFICES ASSUME SafeWithin  PROVE JudgingSpec => []VerdictIsMeant  OBVIOUS
<1>1. Untried => JudgingInv  BY JudgingAssumption DEF Untried, JudgingInv
<1>2. JudgingInv /\ [Run]_judging => JudgingInv'
  BY DEF JudgingInv, Run, judging
<1>3. JudgingInv => VerdictIsMeant
 <2> SUFFICES ASSUME JudgingInv  PROVE VerdictIsMeant  OBVIOUS
 <2>1. Fair(RunPredicate[predicate][args], Judge[predicate][args], MayThrow[predicate][args])
   BY AllJudged DEF JudgingInv, Judged
 <2> QED  BY <2>1 DEF JudgingInv, VerdictIsMeant, Fair
<1> QED  BY <1>1, <1>2, <1>3, PTL DEF JudgingSpec

----------------------------------------------------------------------------
(* The parser reads what is printed                                        *)

\* A word is the core of its filter, with a mark if it is optional.
LEMMA WordIs ==
  ASSUME NEW f \in Filter, NEW w, w = FilterToString(f)
  PROVE  /\ w \in Seq(Lexeme)
         /\ IsDotField(InnerOf(f)) => w[1] = Dot /\ w[2] = Name(InnerOf(f).key) /\ InnerOf(f) = Field(InnerOf(f).key)
         /\ ~IsDotField(InnerOf(f)) => w[1] = Bracket(InnerOf(f))
         /\ LET core == IF IsDotField(InnerOf(f)) THEN 2 ELSE 1 IN
            /\ f.kind = "try" => Len(w) = core + 1 /\ w[core + 1] = Question
            /\ f.kind # "try" => Len(w) = core
<1> DEFINE g == InnerOf(f)
           c == PlainToString(g)
<1>1. g \in Plain /\ (f.kind = "try" => f = Try(g)) /\ (f.kind # "try" => f = g)
  BY InnerIsPlain
<1>2. w = IF f.kind = "try" THEN c \o <<Question>> ELSE c
  BY DEF FilterToString, InnerOf
<1>3. IsDotField(g) => g = Field(g.key) /\ g.key \in DotKey
  BY <1>1, PlainKinds DEF IsDotField
<1>4. c = IF IsDotField(g) THEN <<Dot, Name(g.key)>> ELSE <<Bracket(g)>>
  BY DEF PlainToString
<1> HIDE DEF g, c
<1>5. Bracket(g) \in Lexeme /\ Dot \in Lexeme /\ Question \in Lexeme /\ (IsDotField(g) => Name(g.key) \in Lexeme)
  BY <1>1, <1>3 DEF Lexeme
<1>6. CASE IsDotField(g)
 <2>1. c = <<Dot, Name(g.key)>> /\ c \in Seq(Lexeme) /\ Len(c) = 2 /\ c[1] = Dot /\ c[2] = Name(g.key)
   BY <1>4, <1>5, <1>6
 <2>2. CASE f.kind = "try"
  <3>1. w = c \o <<Question>> /\ <<Question>> \in Seq(Lexeme) /\ Len(<<Question>>) = 1 /\ <<Question>>[1] = Question
    BY <1>2, <1>5, <2>2
  <3>2. w \in Seq(Lexeme) /\ Len(w) = 3 /\ w[1] = Dot /\ w[2] = Name(g.key) /\ w[3] = Question
   <4> DEFINE q == <<Question>>
   <4> HIDE DEF q
   <4>1. w = c \o q /\ q \in Seq(Lexeme) /\ Len(q) = 1 /\ q[1] = Question
     BY <3>1 DEF q
   <4>2. w \in Seq(Lexeme) /\ Len(w) = 2 + 1 /\ w[1] = c[1] /\ w[2] = c[2] /\ w[2+1] = q[1]
     BY <2>1, <4>1, ConcatProperties
   <4> QED  BY <2>1, <4>1, <4>2
  <3> QED  BY <1>3, <1>6, <2>2, <3>2 DEF g
 <2>3. CASE f.kind # "try"  BY <1>2, <1>3, <1>6, <2>1, <2>3 DEF g
 <2> QED  BY <2>2, <2>3
<1>7. CASE ~IsDotField(g)
 <2>1. c = <<Bracket(g)>>  BY <1>4, <1>7
 <2>2. CASE f.kind = "try"
  <3>1. w = <<Bracket(g), Question>>  BY <1>2, <2>1, <2>2, TwoLexemes
  <3> QED  BY <1>5, <1>7, <2>2, <3>1 DEF g
 <2>3. CASE f.kind # "try"  BY <1>2, <1>5, <1>7, <2>1, <2>3 DEF g
 <2> QED  BY <2>2, <2>3
<1> QED  BY <1>6, <1>7

\* The joined texts of the filters are the beginning of longer ones.
LEMMA OutGrows ==
  ASSUME NEW fs, NEW o, fs \in Seq(Filter), IsOut(o, fs), NEW m \in 0..Len(fs), NEW n \in 0..Len(fs), m <= n
  PROVE  /\ o[m] \in Seq(Lexeme) /\ o[n] \in Seq(Lexeme) /\ Len(o[m]) <= Len(o[n])
         /\ \A i \in 1..Len(o[m]) : o[n][i] = o[m][i]
<1>1. o[0] = <<>> /\ \A k \in 1..Len(fs) : o[k] = o[k-1] \o FilterToString(fs[k])
  BY OutSpells, Zenon
<1>2. \A k \in 1..Len(fs) : FilterToString(fs[k]) \in Seq(Lexeme)
 <2>1. \A k \in 1..Len(fs) : fs[k] \in Filter  OBVIOUS
 <2> QED  BY <2>1, WordIs
<1> DEFINE S == {k \in Nat : k <= Len(fs) => o[k] \in Seq(Lexeme)}
<1>3. 0 \in S  BY <1>1, LexemesOf
<1>4. ASSUME NEW k \in Nat, k \in S  PROVE k + 1 \in S
 <2> SUFFICES ASSUME k + 1 <= Len(fs)  PROVE o[k+1] \in Seq(Lexeme)  OBVIOUS
 <2>1. k + 1 \in 1..Len(fs) /\ (k + 1) - 1 = k /\ o[k] \in Seq(Lexeme)  BY <1>4
 <2>2. o[k+1] = o[k] \o FilterToString(fs[k+1])  BY <1>1, <2>1
 <2>3. FilterToString(fs[k+1]) \in Seq(Lexeme)  BY <1>2, <2>1
 <2> QED  BY <2>1, <2>2, <2>3, ConcatProperties
<1> HIDE DEF S
<1>5. Nat \subseteq S  BY <1>3, <1>4, SetInduction
<1>6. \A k \in 0..Len(fs) : o[k] \in Seq(Lexeme)  BY <1>5 DEF S
<1> DEFINE T == {k \in Nat : m <= k /\ k <= Len(fs) => Len(o[m]) <= Len(o[k]) /\ \A i \in 1..Len(o[m]) : o[k][i] = o[m][i]}
<1>7. 0 \in T
 <2>1. m <= 0 => m = 0  OBVIOUS
 <2>2. o[0] \in Seq(Lexeme)  BY <1>1
 <2>3. Len(o[0]) <= Len(o[0])  BY <2>2
 <2> QED  BY <2>1, <2>3
<1>8. ASSUME NEW k \in Nat, k \in T  PROVE k + 1 \in T
 <2> SUFFICES ASSUME m <= k + 1, k + 1 <= Len(fs)
              PROVE  Len(o[m]) <= Len(o[k+1]) /\ \A i \in 1..Len(o[m]) : o[k+1][i] = o[m][i]
   OBVIOUS
 <2>1. CASE m = k + 1
  <3>1. Len(o[m]) <= Len(o[m])  BY <1>6
  <3> QED  BY <2>1, <3>1
 <2>2. CASE m <= k
  <3>1. Len(o[m]) <= Len(o[k]) /\ \A i \in 1..Len(o[m]) : o[k][i] = o[m][i]
    BY <1>8, <2>2
  <3>2. k + 1 \in 1..Len(fs) /\ (k + 1) - 1 = k /\ k \in 0..Len(fs) /\ m \in 0..Len(fs)
    OBVIOUS
  <3> DEFINE w == FilterToString(fs[k+1])
  <3>3. o[k+1] = o[k] \o w /\ w \in Seq(Lexeme)  BY <1>1, <1>2, <3>2
  <3> HIDE DEF w
  <3>4. o[k] \in Seq(Lexeme) /\ o[m] \in Seq(Lexeme)  BY <1>6, <3>2
  <3>5. Len(o[k] \o w) = Len(o[k]) + Len(w) /\ \A i \in 1..Len(o[k]) : (o[k] \o w)[i] = o[k][i]
    BY <3>3, <3>4, ConcatProperties
  <3>6. Len(w) \in Nat /\ Len(o[k]) \in Nat /\ Len(o[m]) \in Nat
    BY <3>3, <3>4
  <3> QED  BY <3>1, <3>3, <3>5, <3>6
 <2> QED  BY <2>1, <2>2
<1> HIDE DEF T
<1>9. n \in T  BY <1>7, <1>8, SetInduction
<1> QED  BY <1>6, <1>9 DEF T

\* So the words of a printed selector are placed in it.
LEMMA OutPlaced ==
  ASSUME NEW fs, NEW o, fs \in Seq(Filter), IsOut(o, fs),
         NEW start, start \in {<<>>, <<Dot>>}, NEW s, s = start \o o[Len(fs)]
  PROVE  s \in Seq(Lexeme) /\ \E mark : mark[0] = Len(start) + 1 /\ Worded(mark, fs, s)
<1> DEFINE L == Len(fs)
           a == Len(start)
           mark == [n \in 0..L |-> a + Len(o[n]) + 1]
<1>1. L \in Nat /\ a \in Nat /\ start \in Seq(Lexeme)
 <2>1. start \in Seq(Lexeme)  BY LexemesOf, Zenon
 <2>2. L \in Nat  OBVIOUS
 <2>3. a \in Nat  BY <2>1, LenProperties
 <2> QED  BY <2>1, <2>2, <2>3
<1>2. o[0] = <<>> /\ \A k \in 1..L : o[k] = o[k-1] \o FilterToString(fs[k])
  BY OutSpells, Zenon
<1>3. \A n \in 0..L : o[n] \in Seq(Lexeme) /\ Len(o[n]) \in Nat /\ Len(o[n]) <= Len(o[L])
                      /\ \A i \in 1..Len(o[n]) : o[L][i] = o[n][i]
 <2> TAKE n \in 0..L
 <2>1. L \in 0..L /\ n <= L  BY <1>1
 <2> HIDE DEF L
 <2>2. o[n] \in Seq(Lexeme) /\ Len(o[n]) <= Len(o[L]) /\ \A i \in 1..Len(o[n]) : o[L][i] = o[n][i]
   BY <2>1, OutGrows DEF L
 <2> QED  BY <2>2
<1> HIDE DEF L
<1>4. L \in 0..L /\ 0 \in 0..L  BY <1>1
<1>5. s \in Seq(Lexeme) /\ Len(s) = a + Len(o[L])
  BY <1>1, <1>3, <1>4, ConcatProperties DEF L
<1>6. \A i \in 1..Len(o[L]) : s[a + i] = o[L][i]
  BY <1>1, <1>3, <1>4, ConcatProperties DEF L
<1>7. \A n \in 0..L : mark[n] = a + Len(o[n]) + 1  OBVIOUS
<1> HIDE DEF a, mark
<1>8. ASSUME NEW n \in 0..L  PROVE mark[n] \in Nat /\ 1 <= mark[n] /\ mark[n] <= Len(s) + 1
 <2>1. Len(o[n]) \in Nat /\ Len(o[n]) <= Len(o[L]) /\ Len(o[L]) \in Nat
   BY <1>3, <1>4
 <2>2. mark[n] = a + Len(o[n]) + 1 /\ a \in Nat  BY <1>1, <1>7
 <2> QED  BY <1>5, <2>1, <2>2
<1>9. mark[L] = Len(s) + 1  BY <1>1, <1>3, <1>4, <1>5, <1>7
<1>10. ASSUME NEW n \in 1..L  PROVE Stands(FilterToString(fs[n]), s, mark[n-1], mark[n])
 <2> DEFINE w == FilterToString(fs[n])
            u == o[n-1]
 <2>1. n \in 0..L /\ n - 1 \in 0..L  BY <1>1
 <2>2. fs[n] \in Filter  BY DEF L
 <2>3. w \in Seq(Lexeme)  BY <2>2, WordIs
 <2>4. o[n] = u \o w /\ u \in Seq(Lexeme)  BY <1>2, <1>3, <2>1
 <2> HIDE DEF w, u
 <2>5. Len(o[n]) = Len(u) + Len(w) /\ \A j \in 1..Len(w) : o[n][Len(u) + j] = w[j]
   BY <2>3, <2>4, ConcatProperties
 <2>6. mark[n-1] = a + Len(u) + 1 /\ mark[n] = a + Len(o[n]) + 1
   BY <1>7, <2>1 DEF u
 <2>7. Len(u) \in Nat /\ Len(w) \in Nat /\ a \in Nat  BY <1>1, <2>3, <2>4
 <2>8. mark[n] = mark[n-1] + Len(w)  BY <2>5, <2>6, <2>7
 <2>9. ASSUME NEW j \in 1..Len(w)  PROVE s[mark[n-1] + j - 1] = w[j]
  <3>1. mark[n-1] + j - 1 = a + (Len(u) + j) /\ Len(u) + j \in 1..Len(o[n])
    BY <2>5, <2>6, <2>7
  <3>2. Len(u) + j \in 1..Len(o[L])  BY <1>3, <1>4, <2>1, <3>1
  <3>3. s[a + (Len(u) + j)] = o[L][Len(u) + j] /\ o[L][Len(u) + j] = o[n][Len(u) + j]
    BY <1>3, <1>6, <2>1, <3>1, <3>2
  <3> QED  BY <2>5, <3>1, <3>3
 <2> QED  BY <2>8, <2>9 DEF Stands, w
<1>11. Worded(mark, fs, s)  BY <1>8, <1>9, <1>10 DEF Worded, L
<1>12. mark[0] = Len(start) + 1
 <2>1. mark[0] = a + Len(o[0]) + 1  BY <1>4, <1>7
 <2>2. Len(o[0]) = 0  BY <1>2
 <2> QED  BY <1>1, <2>1, <2>2 DEF a
<1> QED  BY <1>5, <1>11, <1>12

\* A filter's word is read where it stands, if no mark follows it.
LEMMA TurnReads ==
  ASSUME NEW s, s \in Seq(Lexeme), NEW f, f \in Filter, NEW p, NEW q, p \in Nat, p >= 1, q \in Nat, q <= Len(s) + 1,
         Stands(FilterToString(f), s, p, q), LexAt(s, q) # "?"
  PROVE  /\ Marked(s, PlainAt(s, p)) = [read |-> <<f>>, next |-> q]
         /\ LexAt(s, p) = IF IsDotField(InnerOf(f)) THEN "." ELSE "bracket"
         /\ IsDotField(InnerOf(f)) => LexAt(s, p + 1) = "name"
         /\ p < q
<1> DEFINE g == InnerOf(f)
           w == FilterToString(f)
           core == IF IsDotField(g) THEN 2 ELSE 1
<1>1. /\ w \in Seq(Lexeme)
      /\ IsDotField(g) => w[1] = Dot /\ w[2] = Name(g.key) /\ g = Field(g.key)
      /\ ~IsDotField(g) => w[1] = Bracket(g)
      /\ f.kind = "try" => Len(w) = core + 1 /\ w[core + 1] = Question
      /\ f.kind # "try" => Len(w) = core
  BY WordIs
<1>2. g \in Plain /\ (f.kind = "try" => f = Try(g)) /\ (f.kind # "try" => f = g)
  BY InnerIsPlain
<1>3. q = p + Len(w) /\ \A j \in 1..Len(w) : s[p + j - 1] = w[j]  BY DEF Stands
<1>4. (IsDotField(g) => core = 2) /\ (~IsDotField(g) => core = 1)  OBVIOUS
<1> HIDE DEF g, w, core
<1>5. core \in {1, 2} /\ Len(w) \in {core, core + 1}  BY <1>1, <1>4
<1>6. p + core \in Nat /\ p + core <= q /\ Len(s) \in Nat /\ p <= Len(s)
  BY <1>3, <1>5
<1>7. s[p] = w[1]
 <2>1. 1 \in 1..Len(w) /\ p + 1 - 1 = p  BY <1>5
 <2> QED  BY <1>3, <2>1
<1>8. PlainAt(s, p) = [read |-> <<g>>, next |-> p + core]
      /\ LexAt(s, p) = (IF IsDotField(g) THEN "." ELSE "bracket")
      /\ (IsDotField(g) => LexAt(s, p + 1) = "name")
 <2>1. CASE ~IsDotField(g)
  <3>1. s[p] = Bracket(g)  BY <1>1, <1>7, <2>1
  <3>2. LexAt(s, p) = "bracket" /\ s[p].filter = g
    BY <1>6, <3>1 DEF LexAt, Bracket
  <3> QED  BY <1>4, <2>1, <3>2 DEF PlainAt
 <2>2. CASE IsDotField(g)
  <3>1. s[p+1] = w[2] /\ p + 1 <= Len(s)
   <4>1. Len(w) = 2 \/ Len(w) = 3  BY <1>4, <1>5, <2>2
   <4> DEFINE length == Len(w)
   <4>2. (length = 2 \/ length = 3) /\ q = p + length  BY <1>3, <4>1
   <4> HIDE DEF length
   <4>3. 2 \in 1..length /\ p + 2 - 1 = p + 1  BY <4>2
   <4>4. p + 2 <= q /\ Len(s) \in Nat  BY <1>6, <4>2
   <4>5. s[p + 2 - 1] = w[2]  BY <1>3, <4>3 DEF length
   <4> QED  BY <4>3, <4>4, <4>5
  <3>2. s[p] = Dot /\ s[p+1] = Name(g.key)  BY <1>1, <1>7, <2>2, <3>1
  <3>3. LexAt(s, p) = "." /\ LexAt(s, p + 1) = "name" /\ s[p+1].key = g.key
    BY <1>6, <3>1, <3>2 DEF LexAt, Dot, Name
  <3>4. DotFieldAt(s, p) = [read |-> <<g>>, next |-> p + 2]
    BY <1>1, <2>2, <3>3 DEF DotFieldAt
  <3> QED  BY <1>4, <2>2, <3>3, <3>4 DEF PlainAt
 <2> QED  BY <2>1, <2>2
<1>9. PlainAt(s, p) # Nothing
 <2>1. p + core # 0  BY <1>5
 <2> QED  BY <1>8, <2>1 DEF Nothing
<1>10. Marked(s, PlainAt(s, p)) = [read |-> <<f>>, next |-> q]
 <2>1. CASE f.kind # "try"
  <3>1. p + core = q  BY <1>1, <1>3, <2>1
  <3> QED  BY <1>2, <1>8, <2>1, <3>1 DEF Marked
 <2>2. CASE f.kind = "try"
  <3>1. q = p + core + 1  BY <1>1, <1>3, <1>5, <2>2
  <3>2. s[p + core] = Question /\ p + core <= Len(s) /\ p + core >= 1
   <4>1. core + 1 \in 1..Len(w) /\ p + (core + 1) - 1 = p + core
     BY <1>1, <1>5, <2>2
   <4>2. s[p + core] = Question  BY <1>1, <1>3, <2>2, <4>1
   <4> QED  BY <1>5, <1>6, <3>1, <4>2
  <3>3. LexAt(s, p + core) = "?"  BY <1>6, <3>2 DEF LexAt, Question
  <3>4. AfterMarks(s, p + core) = q
   <4> DEFINE k == p + core
   <4>1. k \in Nat /\ q = k + 1 /\ LexAt(s, k) = "?" /\ q \in Nat /\ q <= Len(s) + 1 /\ Len(s) \in Nat
     BY <1>6, <3>1, <3>3
   <4> HIDE DEF k
   <4>2. q \in k..Len(s) + 1 /\ LexAt(s, q) # "?" /\ \A r \in k..q-1 : LexAt(s, r) = "?"
     BY <4>1
   <4>3. ASSUME NEW z \in k..Len(s) + 1, LexAt(s, z) # "?", \A r \in k..z-1 : LexAt(s, r) = "?"  PROVE z = q
    <5>1. z # k  BY <4>1, <4>3
    <5>2. z > q => q \in k..z-1  BY <4>1
    <5> QED  BY <4>1, <4>3, <5>1, <5>2
   <4>4. AfterMarks(s, k) = q  BY <4>2, <4>3 DEF AfterMarks
   <4> QED  BY <4>4 DEF k
  <3>5. Marked(s, PlainAt(s, p)) = [read |-> <<Try(g)>>, next |-> q]
    BY <1>8, <1>9, <3>3, <3>4 DEF Marked
  <3> QED  BY <1>2, <2>2, <3>5
 <2> QED  BY <2>1, <2>2
<1>11. p < q  BY <1>5, <1>6
<1> QED  BY <1>8, <1>10, <1>11 DEF g

\* No word begins with a mark.
LEMMA NoMarkBefore ==
  ASSUME NEW s, s \in Seq(Lexeme), NEW f, f \in Filter, NEW p, NEW q, p \in Nat, p >= 1, q \in Nat, q <= Len(s) + 1,
         Stands(FilterToString(f), s, p, q)
  PROVE  LexAt(s, p) # "?"
<1> DEFINE w == FilterToString(f)
<1>1. w[1] \in {Dot, Bracket(InnerOf(f))} /\ Len(w) \in {1, 2, 3}  BY WordIs
<1>2. q = p + Len(w) /\ \A j \in 1..Len(w) : s[p + j - 1] = w[j]  BY DEF Stands
<1> HIDE DEF w
<1>3. s[p] = w[1] /\ p <= Len(s)
 <2>1. 1 \in 1..Len(w) /\ p + 1 - 1 = p /\ Len(s) \in Nat  BY <1>1
 <2> QED  BY <1>1, <1>2, <2>1
<1>4. LexAt(s, p) = s[p].lex  BY <1>3 DEF LexAt
<1> QED  BY <1>1, <1>3, <1>4 DEF Dot, Bracket

\* parseMany reads placed words, to the end.
LEMMA ManyReads ==
  ASSUME NEW s, s \in Seq(Lexeme), NEW fs, fs \in Seq(Filter), NEW mark, Worded(mark, fs, s), NEW m \in 0..Len(fs)
  PROVE  Many(s, mark[m]) = [read |-> SubSeq(fs, m + 1, Len(fs)), next |-> Len(s) + 1]
<1> DEFINE L == Len(fs)
           many == CHOOSE f : IsMany(f, s, 1)
<1>1. IsMany(many, s, 1)  BY ManyExists
<1>2. \A p : Many(s, p) = many[p]  BY Zenon DEF Many, IsMany, ManyAt
<1> HIDE DEF many
<1>3. \A q \in 1..Len(s) + 1 : many[q] = ManyAt(many, s, q)
  BY <1>1, Zenon DEF IsMany
<1>4. L \in Nat /\ Len(s) \in Nat  OBVIOUS
<1>5. /\ \A n \in 0..L : mark[n] \in Nat /\ 1 <= mark[n] /\ mark[n] <= Len(s) + 1
      /\ mark[L] = Len(s) + 1
      /\ \A n \in 1..L : Stands(FilterToString(fs[n]), s, mark[n-1], mark[n])
  BY DEF Worded
<1>6. \A n \in 1..L : fs[n] \in Filter  OBVIOUS
<1>7. \A n \in 1..L : n \in 0..L /\ n - 1 \in 0..L  BY <1>4
<1> HIDE DEF L
<1>8. \A n \in 0..L : LexAt(s, mark[n]) # "?"
 <2> TAKE n \in 0..L
 <2>1. CASE n = L
  <3>1. LexAt(s, Len(s) + 1) = "end"  BY <1>4 DEF LexAt
  <3> QED  BY <1>5, <2>1, <3>1
 <2>2. CASE n # L
  <3> DEFINE k == n + 1
  <3>1. k \in 1..L /\ k - 1 = n /\ k \in 0..L  BY <1>4, <2>2
  <3> HIDE DEF k
  <3>2. Stands(FilterToString(fs[k]), s, mark[n], mark[k]) /\ fs[k] \in Filter
    BY <1>5, <1>6, <3>1
  <3> QED  BY <1>5, <3>1, <3>2, NoMarkBefore
 <2> QED  BY <2>1, <2>2
<1> DEFINE T == {j \in Nat : j <= L => many[mark[L-j]] = [read |-> SubSeq(fs, (L - j) + 1, L), next |-> Len(s) + 1]}
<1>9. 0 \in T
 <2>1. Len(s) + 1 \in 1..Len(s) + 1  BY <1>4
 <2>2. LexAt(s, Len(s) + 1) = "end"  BY <1>4 DEF LexAt
 <2>3. Marked(s, PlainAt(s, Len(s) + 1)) = Nothing
   BY <2>2 DEF Marked, PlainAt, DotFieldAt
 <2>4. many[Len(s) + 1] = [read |-> <<>>, next |-> Len(s) + 1]
   BY <1>3, <2>1, <2>3 DEF ManyAt
 <2>5. SubSeq(fs, L + 1, L) = <<>>  BY <1>4
 <2>6. L - 0 = L  BY <1>4
 <2> QED  BY <1>5, <2>4, <2>5, <2>6
<1>10. ASSUME NEW j \in Nat, j \in T  PROVE j + 1 \in T
 <2> SUFFICES ASSUME j + 1 <= L
              PROVE  many[mark[L-(j+1)]] = [read |-> SubSeq(fs, (L - (j+1)) + 1, L), next |-> Len(s) + 1]
   OBVIOUS
 <2> DEFINE n == L - j
 <2>1. n \in 1..L /\ L - (j + 1) = n - 1 /\ (L - (j + 1)) + 1 = n  BY <1>4
 <2>2. many[mark[n]] = [read |-> SubSeq(fs, n + 1, L), next |-> Len(s) + 1]
   BY <1>4, <1>10
 <2> HIDE DEF n
 <2> DEFINE rest == SubSeq(fs, n + 1, L)
            end == Len(s) + 1
 <2>3. /\ fs[n] \in Filter /\ Stands(FilterToString(fs[n]), s, mark[n-1], mark[n]) /\ LexAt(s, mark[n]) # "?"
       /\ mark[n-1] \in Nat /\ mark[n-1] >= 1 /\ mark[n] \in Nat /\ mark[n] <= Len(s) + 1 /\ mark[n-1] <= Len(s) + 1
   BY <1>7, <1>5, <1>6, <1>8, <2>1
 <2>4. Marked(s, PlainAt(s, mark[n-1])) = [read |-> <<fs[n]>>, next |-> mark[n]]
   BY <2>3, TurnReads
 <2>5. [read |-> <<fs[n]>>, next |-> mark[n]] # Nothing  BY <2>3 DEF Nothing
 <2>6. many[mark[n-1]] = [read |-> <<fs[n]>> \o SubSeq(fs, n + 1, L), next |-> Len(s) + 1]
  <3>1. mark[n-1] \in 1..Len(s) + 1  BY <1>4, <2>3
  <3>2. many[mark[n-1]] = ManyAt(many, s, mark[n-1])  BY <1>3, <3>1
  <3> DEFINE one == Marked(s, PlainAt(s, mark[n-1]))
  <3>3. one = [read |-> <<fs[n]>>, next |-> mark[n]] /\ one # Nothing
    BY <2>4, <2>5
  <3>4. ManyAt(many, s, mark[n-1]) = [read |-> one.read \o many[one.next].read, next |-> many[one.next].next]
    BY <3>3, Zenon DEF ManyAt
  <3> HIDE DEF one
  <3>5. one.read = <<fs[n]>> /\ one.next = mark[n]  BY <3>3
  <3>6. many[mark[n]] = [read |-> rest, next |-> end]  BY <2>2
  <3> HIDE DEF rest, end
  <3>7. many[mark[n]].read = rest /\ many[mark[n]].next = end  BY <3>6
  <3> QED  BY <3>2, <3>4, <3>5, <3>7, Zenon DEF rest, end
 <2>7. <<fs[n]>> \o SubSeq(fs, n + 1, L) = SubSeq(fs, n, L)
   BY <1>4, <2>1 DEF L
 <2> QED  BY <2>1, <2>6, <2>7
<1> HIDE DEF T
<1>11. Nat \subseteq T  BY <1>9, <1>10, SetInduction
<1>12. L - m \in Nat /\ L - m <= L /\ L - (L - m) = m  BY <1>4 DEF L
<1>13. L - m \in T  BY <1>11, <1>12
<1>14. many[mark[m]] = [read |-> SubSeq(fs, m + 1, L), next |-> Len(s) + 1]
  BY <1>12, <1>13 DEF T
<1> QED  BY <1>2, <1>14 DEF L

\* parseSelector reads what Select.toString writes as the selector that was
\* written, or, if that begins with two dots, refuses it: a selector of any
\* length survives printing unless it begins with an optional field.
THEOREM ParseReads ==
  ASSUME NEW fs, fs \in Seq(Filter)
  PROVE  Parse(ToString(fs)) = IF Doubled(fs) THEN <<>> ELSE <<fs>>
<1> DEFINE s == ToString(fs)
           g == InnerOf(fs[1])
           first == Marked(s, DotFieldAt(s, 1))
           start == AfterMarks(s, IF first = Nothing THEN 2 ELSE first.next)
           rest == Many(s, start)
<1>1. PICK o : /\ IsOut(o, fs)
               /\ s = IF fs = <<>> THEN <<Dot>>
                      ELSE IF IsDotField(fs[1]) THEN o[Len(fs)] ELSE <<Dot>> \o o[Len(fs)]
  BY ToStringIs
<1>2. Parse(s) = IF LexAt(s, 1) # "." \/ LexAt(s, 2) = "." \/ rest.next <= Len(s) THEN <<>>
                 ELSE <<first.read \o rest.read>>
  BY Zenon DEF Parse
<1> HIDE DEF s
<1>3. ASSUME NEW a \in {<<>>, <<Dot>>}, s = a \o o[Len(fs)], fs # <<>>
      PROVE  s \in Seq(Lexeme) /\ Len(s) \in Nat /\ \E mark : Begins(mark, Len(a) + 1, fs, s)
 <2>1. IsOut(o, fs) /\ a \in {<<>>, <<Dot>>} /\ s = a \o o[Len(fs)]
   BY <1>1, <1>3, Zenon
 <2>2. PICK mark : s \in Seq(Lexeme) /\ mark[0] = Len(a) + 1 /\ Worded(mark, fs, s)
   BY <2>1, OutPlaced
 <2>3. Len(fs) \in Nat /\ Len(fs) >= 1 /\ 1 \in 1..Len(fs) /\ 1 \in 0..Len(fs) /\ 0 \in 0..Len(fs)
   BY <1>3
 <2>4. /\ mark[1] \in Nat /\ mark[1] >= 1 /\ mark[1] <= Len(s) + 1 /\ mark[0] \in Nat /\ mark[0] >= 1
       /\ Stands(FilterToString(fs[1]), s, mark[0], mark[1]) /\ fs[1] \in Filter
  <3>1. 1 - 1 = 0  OBVIOUS
  <3> QED  BY <2>2, <2>3, <3>1 DEF Worded
 <2>5. LexAt(s, mark[1]) # "?"
  <3>1. CASE Len(fs) = 1
   <4>1. mark[1] = Len(s) + 1 /\ Len(s) \in Nat  BY <2>2, <3>1 DEF Worded
   <4>2. LexAt(s, Len(s) + 1) = "end"  BY <4>1 DEF LexAt
   <4> QED  BY <4>1, <4>2
  <3>2. CASE Len(fs) # 1
   <4>1. 2 \in 1..Len(fs) /\ 2 \in 0..Len(fs) /\ 2 - 1 = 1  BY <2>3, <3>2
   <4>2. /\ Stands(FilterToString(fs[2]), s, mark[1], mark[2]) /\ fs[2] \in Filter
         /\ mark[2] \in Nat /\ mark[2] <= Len(s) + 1
     BY <2>2, <4>1 DEF Worded
   <4> QED  BY <2>2, <2>4, <4>2, NoMarkBefore
  <3> QED  BY <3>1, <3>2
 <2>6. /\ Marked(s, PlainAt(s, mark[0])) = [read |-> <<fs[1]>>, next |-> mark[1]]
       /\ LexAt(s, mark[0]) = IF IsDotField(g) THEN "." ELSE "bracket"
       /\ IsDotField(g) => LexAt(s, mark[0] + 1) = "name"
       /\ mark[0] < mark[1]
   BY <2>2, <2>4, <2>5, TurnReads
 <2>7. Len(a) \in Nat /\ Len(s) \in Nat /\ Len(a) + 1 + 1 = Len(a) + 2
   BY <1>3, <2>2, LexemesOf
 <2>8. Len(a) + 1 <= Len(s)  BY <2>2, <2>4, <2>6, <2>7
 <2>9. Begins(mark, mark[0], fs, s)  BY <2>2, <2>4, <2>5, <2>6, <2>8 DEF Begins
 <2> QED  BY <2>2, <2>7, <2>9
<1>4. ASSUME NEW p \in Nat, p <= Len(s) + 1, s \in Seq(Lexeme), LexAt(s, p) # "?"
      PROVE  AfterMarks(s, p) = p
 <2>1. Len(s) \in Nat  BY <1>4
 <2>2. p \in p..Len(s) + 1 /\ \A r \in p..p-1 : LexAt(s, r) = "?"
   BY <1>4, <2>1
 <2>3. \A q \in p..Len(s) + 1 : q # p => p \in p..q-1  BY <1>4, <2>1
 <2> QED  BY <1>4, <2>2, <2>3 DEF AfterMarks
<1>5. CASE fs = <<>>
 <2>1. s = <<Dot>> /\ s \in Seq(Lexeme) /\ Len(s) = 1 /\ s[1] = Dot
   BY <1>1, <1>5, LexemesOf
 <2>2. LexAt(s, 1) = "." /\ LexAt(s, 2) = "end"  BY <2>1 DEF LexAt, Dot
 <2>3. first = Nothing  BY <2>2 DEF DotFieldAt, Marked
 <2>4. start = 2
  <3>1. 2 \in Nat /\ 2 <= Len(s) + 1  BY <2>1
  <3> QED  BY <1>4, <2>1, <2>2, <2>3, <3>1
 <2>5. rest = [read |-> <<>>, next |-> 2]
  <3> DEFINE mark == [n \in 0..0 |-> 2]
  <3>1. Worded(mark, fs, s) /\ mark[0] = 2 /\ 0 \in 0..Len(fs) /\ SubSeq(fs, 0 + 1, Len(fs)) = <<>>
    BY <1>5, <2>1 DEF Worded
  <3> HIDE DEF mark
  <3>2. Many(s, mark[0]) = [read |-> SubSeq(fs, 0 + 1, Len(fs)), next |-> Len(s) + 1]
    BY <2>1, <3>1, ManyReads
  <3> QED  BY <2>1, <2>4, <3>1, <3>2
 <2>6. first.read = <<>> /\ <<>> \o <<>> = <<>>  BY <2>3 DEF Nothing
 <2> HIDE DEF first, rest
 <2>7. rest.read = <<>> /\ rest.next = 2 /\ ~(2 <= Len(s))  BY <2>1, <2>5
 <2>8. Parse(s) = <<fs>>  BY <1>2, <1>5, <2>2, <2>6, <2>7
 <2> QED  BY <1>5, <2>8 DEF Doubled, s
<1>6. CASE fs # <<>> /\ IsDotField(fs[1])
 <2>1. fs[1] = g /\ IsDotField(g) /\ ~Doubled(fs)
   BY <1>6 DEF InnerOf, IsDotField, Doubled
 <2>2. s = <<>> \o o[Len(fs)]
  <3>1. Len(fs) \in 0..Len(fs) /\ Len(fs) <= Len(fs)  OBVIOUS
  <3>2. o[Len(fs)] \in Seq(Lexeme)  BY <1>1, <3>1, OutGrows
  <3>3. o[Len(fs)] = <<>> \o o[Len(fs)]  BY <3>2, ConcatEmptySeq
  <3> QED  BY <1>1, <1>6, <3>3
 <2>3. s \in Seq(Lexeme) /\ Len(s) \in Nat /\ \E mark : Begins(mark, 1, fs, s)
  <3>1. Len(<<>>) + 1 = 1  OBVIOUS
  <3> QED  BY <1>3, <1>6, <2>2, <3>1
 <2>4. PICK mark : Begins(mark, 1, fs, s)  BY <2>3
 <2>5. /\ s \in Seq(Lexeme) /\ Worded(mark, fs, s) /\ mark[1] \in Nat /\ mark[1] >= 1 /\ mark[1] <= Len(s) + 1
       /\ LexAt(s, mark[1]) # "?" /\ LexAt(s, 1) = "." /\ LexAt(s, 2) = "name"
       /\ Marked(s, PlainAt(s, 1)) = [read |-> <<fs[1]>>, next |-> mark[1]]
  <3>1. 1 + 1 = 2  OBVIOUS
  <3> QED  BY <2>1, <2>3, <2>4, <3>1 DEF Begins
 <2>6. first = [read |-> <<fs[1]>>, next |-> mark[1]]  BY <2>5 DEF PlainAt
 <2>7. first # Nothing /\ first.next = mark[1] /\ first.read = <<fs[1]>>
   BY <2>5, <2>6 DEF Nothing
 <2>8. start = mark[1]  BY <1>4, <2>5, <2>7
 <2>9. rest = [read |-> SubSeq(fs, 1 + 1, Len(fs)), next |-> Len(s) + 1]
  <3>1. 1 \in 0..Len(fs)  BY <1>6
  <3> QED  BY <2>5, <2>8, <3>1, ManyReads
 <2>10. <<fs[1]>> \o SubSeq(fs, 1 + 1, Len(fs)) = fs  BY <1>6
 <2> DEFINE tail == SubSeq(fs, 1 + 1, Len(fs))
            end == Len(s) + 1
 <2>11. rest = [read |-> tail, next |-> end] /\ ~(end <= Len(s))  BY <2>5, <2>9
 <2> HIDE DEF first, rest, tail, end
 <2>12. rest.read = tail /\ rest.next = end  BY <2>11
 <2>13. first.read \o rest.read = fs  BY <2>7, <2>10, <2>12, Zenon DEF tail
 <2>14. Parse(s) = <<fs>>  BY <1>2, <2>5, <2>11, <2>12, <2>13
 <2> QED  BY <2>1, <2>14 DEF s
<1>7. CASE fs # <<>> /\ ~IsDotField(fs[1])
 <2>1. s = <<Dot>> \o o[Len(fs)] /\ <<Dot>> \in {<<>>, <<Dot>>} /\ Len(<<Dot>>) + 1 = 2
   BY <1>1, <1>7
 <2>2. s \in Seq(Lexeme) /\ Len(s) \in Nat /\ \E mark : Begins(mark, 2, fs, s)
   BY <1>3, <1>7, <2>1
 <2>3. PICK mark : Begins(mark, 2, fs, s)  BY <2>2
 <2>4. /\ s \in Seq(Lexeme) /\ Len(s) \in Nat /\ Worded(mark, fs, s) /\ mark[0] = 2 /\ 2 <= Len(s)
       /\ LexAt(s, 2) = IF IsDotField(g) THEN "." ELSE "bracket"
   BY <2>2, <2>3 DEF Begins
 <2>5. LexAt(s, 1) = "."
  <3>1. s[1] = Dot
   <4>1. o[Len(fs)] \in Seq(Lexeme)
    <5>1. Len(fs) \in 0..Len(fs) /\ Len(fs) <= Len(fs)  OBVIOUS
    <5> QED  BY <1>1, <5>1, OutGrows
   <4> QED  BY <2>1, <4>1
  <3> QED  BY <2>4, <3>1 DEF LexAt, Dot
 <2>6. CASE IsDotField(g)
  <3>1. fs[1].kind = "try" /\ fs[1].inner = g  BY <1>7, <2>6 DEF InnerOf
  <3>2. Doubled(fs) /\ Parse(s) = <<>>
    BY <1>2, <1>7, <2>4, <2>6, <3>1 DEF Doubled
  <3> QED  BY <3>2 DEF s
 <2>7. CASE ~IsDotField(g)
  <3>1. ~Doubled(fs)  BY <2>7 DEF Doubled, InnerOf
  <3>2. first = Nothing
   <4>1. 1 + 1 = 2  OBVIOUS
   <4> QED  BY <2>4, <2>7, <4>1 DEF DotFieldAt, Marked
  <3>3. start = 2
   <4>1. 2 \in Nat /\ 2 <= Len(s) + 1 /\ LexAt(s, 2) # "?"  BY <2>4, <2>7
   <4> QED  BY <1>4, <2>4, <3>2, <4>1
  <3>4. rest = [read |-> SubSeq(fs, 0 + 1, Len(fs)), next |-> Len(s) + 1]
   <4>1. 0 \in 0..Len(fs)  OBVIOUS
   <4> QED  BY <2>4, <3>3, <4>1, ManyReads
  <3>5. SubSeq(fs, 0 + 1, Len(fs)) = fs  OBVIOUS
  <3> DEFINE end == Len(s) + 1
  <3>6. rest = [read |-> fs, next |-> end] /\ ~(end <= Len(s))
    BY <2>4, <3>4, <3>5
  <3>7. first.read = <<>>  BY <3>2 DEF Nothing
  <3> HIDE DEF first, rest, end
  <3>8. rest.read = fs /\ rest.next = end  BY <3>6
  <3>9. <<>> \o fs = fs  BY ConcatEmptySeq
  <3>10. Parse(s) = <<fs>>  BY <1>2, <2>4, <2>5, <2>7, <3>6, <3>7, <3>8, <3>9
  <3> QED  BY <3>1, <3>10 DEF s
 <2> QED  BY <2>6, <2>7
<1> QED  BY <1>5, <1>6, <1>7

----------------------------------------------------------------------------
(* Values on the wire                                                      *)

ToWire   == INSTANCE IpldProofs WITH Node <- WireNode
FromWire == INSTANCE IpldProofs WITH Node <- ValueNode
Reader   == INSTANCE IpldProofs WITH Node <- ReadNode

\* v is a tree, and takes fewer than n steps to its end.
Tree(v) == ToWire!IsTree(v)
LowTree(v, n) == ToWire!Low(v, n)

\* The instances agree on trees.
LEMMA SameTrees ==
  /\ \A v, n : FromWire!Low(v, n) = LowTree(v, n) /\ Reader!Low(v, n) = LowTree(v, n)
  /\ \A v : FromWire!IsTree(v) = Tree(v) /\ Reader!IsTree(v) = Tree(v)
  /\ \A v : ToWire!Near(v) = Near(v) /\ FromWire!Near(v) = Near(v) /\ Reader!Near(v) = Near(v)
  /\ \A v : ToWire!Parts(v) = Parts(v) /\ ToWire!Within(v) = Within(v)
<1>1. \A v, n : FromWire!Low(v, n) = ToWire!Low(v, n)
  BY Zenon DEF ToWire!Low, ToWire!Level, ToWire!IsLevels, ToWire!PartsOf, ToWire!Parts,
               FromWire!Low, FromWire!Level, FromWire!IsLevels, FromWire!PartsOf, FromWire!Parts
<1>2. \A v, n : Reader!Low(v, n) = ToWire!Low(v, n)
  BY Zenon DEF ToWire!Low, ToWire!Level, ToWire!IsLevels, ToWire!PartsOf, ToWire!Parts,
               Reader!Low, Reader!Level, Reader!IsLevels, Reader!PartsOf, Reader!Parts
<1>3. \A v : FromWire!IsTree(v) = ToWire!IsTree(v) /\ Reader!IsTree(v) = ToWire!IsTree(v)
  BY <1>1, <1>2 DEF FromWire!IsTree, Reader!IsTree, ToWire!IsTree
<1>4. \A v : ToWire!Near(v) = Near(v) /\ FromWire!Near(v) = Near(v) /\ Reader!Near(v) = Near(v)
  BY Zenon DEF Near, PartsOf, Parts, ToWire!Near, ToWire!PartsOf, ToWire!Parts,
               FromWire!Near, FromWire!PartsOf, FromWire!Parts, Reader!Near, Reader!PartsOf, Reader!Parts
<1>5. \A v : ToWire!Parts(v) = Parts(v) /\ ToWire!Within(v) = Within(v)
  BY Zenon DEF ToWire!Within, Within, ToWire!PartsOf, PartsOf, ToWire!Parts, Parts
<1> QED  BY <1>1, <1>2, <1>3, <1>4, <1>5 DEF LowTree, Tree

\* A tree takes some number of steps, its parts one less.
LEMMA TreeIs ==
  /\ \A v : Tree(v) <=> \E n \in Nat : LowTree(v, n)
  /\ \A v : ~LowTree(v, 0)
  /\ \A v : \A n \in Nat : LowTree(v, n + 1) <=> \A p \in Parts(v) : LowTree(p, n)
  /\ \A v : \A m \in Nat, n \in Nat : m <= n /\ LowTree(v, m) => LowTree(v, n)
<1>1. \A v : Tree(v) <=> \E n \in Nat : LowTree(v, n)
  BY DEF Tree, LowTree, ToWire!IsTree
<1>2. \A v : ~ToWire!Low(v, 0) /\ \A n \in Nat : ToWire!Low(v, n + 1) <=> \A p \in ToWire!Parts(v) : ToWire!Low(p, n)
  BY ToWire!LowIs, IpldAssumption
<1>3. \A v : \A m \in Nat, n \in Nat : m <= n /\ ToWire!Low(v, m) => ToWire!Low(v, n)
  BY ToWire!LowMore, IpldAssumption
<1> QED  BY <1>1, <1>2, <1>3, SameTrees DEF LowTree

\* The parts of a tree, and theirs, are trees.
LEMMA NearTrees ==
  ASSUME NEW v, Tree(v)
  PROVE  /\ \A p \in Parts(v) : Tree(p)
         /\ \A y \in Near(v) : Tree(y)
<1>1. \A u : Tree(u) => \A p \in Parts(u) : Tree(p)
 <2> TAKE u
 <2> HAVE Tree(u)
 <2> TAKE p \in Parts(u)
 <2>1. PICK n \in Nat : LowTree(u, n)  BY TreeIs
 <2>2. n # 0  BY <2>1, TreeIs
 <2>3. n - 1 \in Nat /\ (n - 1) + 1 = n  BY <2>2
 <2>4. LowTree(p, n - 1)  BY <2>1, <2>3, TreeIs
 <2> QED  BY <2>3, <2>4, TreeIs
<1>2. \A p \in Parts(v) : Tree(p)  BY <1>1
<1>3. \A p \in Parts(v) : \A q \in Parts(p) : Tree(q)  BY <1>1, <1>2
<1> QED  BY <1>2, <1>3 DEF Near, PartsOf

\* The items of a list and the entries of a map are its parts.
LEMMA PartsAre ==
  ASSUME NEW v
  PROVE  /\ v.kind = "list" => Parts(v) = {v.items[n] : n \in DOMAIN v.items}
         /\ v.kind = "map" => Parts(v) = {v.entries[k] : k \in DOMAIN v.entries}
         /\ v.kind \notin {"list", "map"} => Parts(v) = {}
BY DEF Parts

\* The writer looks at the parts of a value only, and so does the reader.
LEMMA WireLocal == \A v : ToWire!Local(v) /\ FromWire!Local(v)
<1>1. ASSUME NEW x, NEW f, NEW g, \A y \in Parts(x) : f[y] = g[y]
      PROVE  WireNode(x, f) = WireNode(x, g) /\ ValueNode(x, f) = ValueNode(x, g)
 <2>1. CASE x.kind = "list"
  <3>1. \A n \in DOMAIN x.items : f[x.items[n]] = g[x.items[n]]
    BY <1>1, <2>1, PartsAre
  <3>2. [n \in DOMAIN x.items |-> f[x.items[n]]] = [n \in DOMAIN x.items |-> g[x.items[n]]]
    BY <3>1, Zenon
  <3> QED  BY <2>1, <3>2, Zenon DEF WireNode, ValueNode
 <2>2. CASE x.kind = "map"
  <3>1. \A k \in DOMAIN x.entries : f[x.entries[k]] = g[x.entries[k]]
    BY <1>1, <2>2, PartsAre
  <3>2. [k \in DOMAIN x.entries |-> f[x.entries[k]]] = [k \in DOMAIN x.entries |-> g[x.entries[k]]]
    BY <3>1, Zenon
  <3> QED  BY <2>2, <3>2, Zenon DEF WireNode, ValueNode
 <2>3. CASE x.kind \notin {"list", "map"}  BY <2>3 DEF WireNode, ValueNode
 <2> QED  BY <2>1, <2>2, <2>3
<1>2. \A x : Parts(x) \subseteq ToWire!Near(x) /\ Parts(x) \subseteq FromWire!Near(x)
  BY SameTrees DEF Near
<1>3. \A x, f, g : (\A y \in ToWire!Near(x) : f[y] = g[y]) => WireNode(x, f) = WireNode(x, g)
  BY <1>1, <1>2
<1>4. \A x, f, g : (\A y \in FromWire!Near(x) : f[y] = g[y]) => ValueNode(x, f) = ValueNode(x, g)
  BY <1>1, <1>2
<1> QED  BY <1>3, <1>4, Zenon DEF ToWire!Local, FromWire!Local

\* How ipldToDagCbor unfolds.
LEMMA WireIs ==
  ASSUME NEW v, Tree(v)
  PROVE  /\ v.kind = "bigint" => ToDagCbor(v) = WireInt(v.halves)
         /\ v.kind = "number" => ToDagCbor(v) = IF Safe(v.halves) THEN WireInt(v.halves) ELSE WireFloat(v.halves)
         /\ v.kind = "list" => ToDagCbor(v) = List([n \in DOMAIN v.items |-> ToDagCbor(v.items[n])])
         /\ v.kind = "map" => ToDagCbor(v) = MapOf([k \in DOMAIN v.entries |-> ToDagCbor(v.entries[k])],
                                                   Sorted(DOMAIN v.entries))
         /\ v.kind \notin {"bigint", "number", "list", "map"} => ToDagCbor(v) = v
<1> DEFINE f == [y \in Near(v) |-> ToDagCbor(y)]
<1>1. \A y : ToWire!Made(y) = ToDagCbor(y)
  BY Zenon DEF ToWire!Made, ToWire!Fold, ToDagCbor, Fold, ToWire!Within, Within, ToWire!PartsOf, PartsOf, ToWire!Parts, Parts
<1>2. \A y \in ToWire!Near(v) : f[y] = ToWire!Made(y)  BY <1>1, SameTrees
<1>3. \A p \in Parts(v) : f[p] = ToDagCbor(p)  BY DEF Near
<1> HIDE DEF f
<1>4. ToDagCbor(v) = WireNode(v, f)
  BY <1>1, <1>2, WireLocal, ToWire!FoldUnfolds, IpldAssumption, Zenon DEF Tree
<1>5. v.kind = "list" => [n \in DOMAIN v.items |-> f[v.items[n]]] = [n \in DOMAIN v.items |-> ToDagCbor(v.items[n])]
 <2> HAVE v.kind = "list"
 <2>1. \A n \in DOMAIN v.items : f[v.items[n]] = ToDagCbor(v.items[n])
   BY <1>3, PartsAre
 <2> QED  BY <2>1, Zenon
<1>6. v.kind = "map" => [k \in DOMAIN v.entries |-> f[v.entries[k]]] = [k \in DOMAIN v.entries |-> ToDagCbor(v.entries[k])]
 <2> HAVE v.kind = "map"
 <2>1. \A k \in DOMAIN v.entries : f[v.entries[k]] = ToDagCbor(v.entries[k])
   BY <1>3, PartsAre
 <2> QED  BY <2>1, Zenon
<1> QED  BY <1>4, <1>5, <1>6 DEF WireNode

\* And ipldFromDagCbor.
LEMMA ValueIs ==
  ASSUME NEW v, Tree(v)
  PROVE  /\ v.kind = "float" => FromDagCbor(v) = Number(v.halves)
         /\ v.kind = "int" => FromDagCbor(v) = IF Safe(v.halves) THEN Number(v.halves)
                                               ELSE [kind |-> "bigint", halves |-> v.halves]
         /\ v.kind = "list" => FromDagCbor(v) = List([n \in DOMAIN v.items |-> FromDagCbor(v.items[n])])
         /\ v.kind = "map" => FromDagCbor(v) = MapOf([k \in DOMAIN v.entries |-> FromDagCbor(v.entries[k])], v.order)
         /\ v.kind \notin {"float", "int", "list", "map"} => FromDagCbor(v) = v
<1> DEFINE f == [y \in Near(v) |-> FromDagCbor(y)]
<1>1. \A y : FromWire!Made(y) = FromDagCbor(y)
  BY Zenon DEF FromWire!Made, FromWire!Fold, FromDagCbor, Fold, FromWire!Within, Within, FromWire!PartsOf, PartsOf,
               FromWire!Parts, Parts
<1>2. \A y \in FromWire!Near(v) : f[y] = FromWire!Made(y)  BY <1>1, SameTrees
<1>3. \A p \in Parts(v) : f[p] = FromDagCbor(p)  BY DEF Near
<1> HIDE DEF f
<1>4. FromDagCbor(v) = ValueNode(v, f)
 <2>1. FromWire!IsTree(v)  BY SameTrees
 <2> QED  BY <1>1, <1>2, <2>1, WireLocal, FromWire!FoldUnfolds, IpldAssumption, Zenon
<1>5. v.kind = "list" => [n \in DOMAIN v.items |-> f[v.items[n]]] = [n \in DOMAIN v.items |-> FromDagCbor(v.items[n])]
 <2> HAVE v.kind = "list"
 <2>1. \A n \in DOMAIN v.items : f[v.items[n]] = FromDagCbor(v.items[n])
   BY <1>3, PartsAre
 <2> QED  BY <2>1, Zenon
<1>6. v.kind = "map" => [k \in DOMAIN v.entries |-> f[v.entries[k]]] = [k \in DOMAIN v.entries |-> FromDagCbor(v.entries[k])]
 <2> HAVE v.kind = "map"
 <2>1. \A k \in DOMAIN v.entries : f[v.entries[k]] = FromDagCbor(v.entries[k])
   BY <1>3, PartsAre
 <2> QED  BY <2>1, Zenon
<1> QED  BY <1>4, <1>5, <1>6 DEF ValueNode

\* The values in a value are values.
LEMMA PartsInData ==
  ASSUME NEW v \in Data
  PROVE  Parts(v) \subseteq Data
BY ItemsBelow, EntriesBelow, PartsAre

\* A value is a tree.
LEMMA DataTrees == \A v \in Data : Tree(v)
<1> DEFINE T == {v \in Data : LowTree(v, Depth[v] + 1)}
<1>1. Depth \in [Data -> Nat]  BY DataAssumption
<1>2. ASSUME NEW v \in Data, \A w \in Data : Depth[w] < Depth[v] => w \in T
      PROVE  v \in T
 <2>1. ASSUME NEW p \in Parts(v)  PROVE LowTree(p, Depth[v])
  <3>1. p \in Data /\ Depth[p] < Depth[v]  BY PartsInData, DataAssumption
  <3>2. LowTree(p, Depth[p] + 1) /\ Depth[p] + 1 \in Nat /\ Depth[v] \in Nat /\ Depth[p] + 1 <= Depth[v]
    BY <1>1, <1>2, <3>1
  <3> QED  BY <3>2, TreeIs
 <2>2. Depth[v] \in Nat  BY <1>1
 <2> QED  BY <2>1, <2>2, TreeIs
<1>3. Data \subseteq T
 <2> HIDE DEF T
 <2> QED  BY <1>1, <1>2, RankInduction
<1>4. \A v \in Data : Depth[v] + 1 \in Nat  BY <1>1
<1> QED  BY <1>3, <1>4, TreeIs

\* What makes lists of lists, maps of maps and neither of neither keeps the
\* shape of a value, and its parts are made of the parts.
LEMMA ShapeIs ==
  ASSUME NEW v, NEW w, NEW f, MadeBy(v, w, f)
  PROVE  SameShape(v, w) /\ Parts(w) = {f[p] : p \in Parts(v)}
<1>1. CASE v.kind = "list"
 <2> DEFINE s == [n \in DOMAIN v.items |-> f[v.items[n]]]
 <2>1. w.kind = "list" /\ w.items = s  BY <1>1, Zenon DEF MadeBy
 <2>2. DOMAIN s = DOMAIN v.items /\ \A n \in DOMAIN s : s[n] = f[v.items[n]]  OBVIOUS
 <2>3. Listing(v) => s \in Seq({s[n] : n \in DOMAIN s})
  <3> HAVE Listing(v)
  <3>1. v.items \in Seq({v.items[n] : n \in DOMAIN v.items})  BY <1>1 DEF Listing
  <3>2. Len(v.items) \in Nat /\ DOMAIN v.items = 1..Len(v.items)  BY <3>1
  <3> QED  BY <3>2
 <2> HIDE DEF s
 <2>5. Parts(w) = {s[n] : n \in DOMAIN s} /\ Parts(v) = {v.items[n] : n \in DOMAIN v.items}
   BY <1>1, <2>1, PartsAre
 <2>6. Parts(w) = {f[p] : p \in Parts(v)}  BY <2>2, <2>5
 <2> QED  BY <1>1, <2>1, <2>3, <2>6 DEF SameShape, Listing
<1>2. CASE v.kind = "map"
 <2> DEFINE e == [k \in DOMAIN v.entries |-> f[v.entries[k]]]
 <2>1. w.kind = "map" /\ w.entries = e  BY <1>2, Zenon DEF MadeBy
 <2>2. DOMAIN e = DOMAIN v.entries /\ \A k \in DOMAIN e : e[k] = f[v.entries[k]]  OBVIOUS
 <2> HIDE DEF e
 <2>4. Parts(w) = {e[k] : k \in DOMAIN e} /\ Parts(v) = {v.entries[k] : k \in DOMAIN v.entries}
   BY <1>2, <2>1, PartsAre
 <2>5. Parts(w) = {f[p] : p \in Parts(v)}  BY <2>2, <2>4
 <2> QED  BY <1>2, <2>1, <2>2, <2>5 DEF SameShape, Listing
<1>3. CASE v.kind \notin {"list", "map"}  BY <1>3, PartsAre DEF MadeBy, SameShape, Listing
<1> QED  BY <1>1, <1>2, <1>3

\* So do the conversions.
LEMMA WireShape ==
  ASSUME NEW v, Tree(v)
  PROVE  SameShape(v, ToDagCbor(v)) /\ Parts(ToDagCbor(v)) = {ToDagCbor(p) : p \in Parts(v)}
<1> DEFINE w == ToDagCbor(v)
           f == [p \in Parts(v) |-> ToDagCbor(p)]
<1>1. v.kind = "list" => w.kind = "list" /\ w.items = [n \in DOMAIN v.items |-> f[v.items[n]]]
 <2> HAVE v.kind = "list"
 <2>1. \A n \in DOMAIN v.items : f[v.items[n]] = ToDagCbor(v.items[n])  BY PartsAre
 <2>2. w = List([n \in DOMAIN v.items |-> ToDagCbor(v.items[n])])  BY WireIs
 <2> DEFINE s == [n \in DOMAIN v.items |-> f[v.items[n]]]
 <2>3. w = List(s)  BY <2>1, <2>2, Zenon
 <2> HIDE DEF w, s
 <2>4. w.kind = "list" /\ w.items = s  BY <2>3 DEF List
 <2> QED  BY <2>4 DEF s
<1>2. v.kind = "map" => w.kind = "map" /\ w.entries = [k \in DOMAIN v.entries |-> f[v.entries[k]]]
 <2> HAVE v.kind = "map"
 <2>1. \A k \in DOMAIN v.entries : f[v.entries[k]] = ToDagCbor(v.entries[k])  BY PartsAre
 <2>2. w = MapOf([k \in DOMAIN v.entries |-> ToDagCbor(v.entries[k])], Sorted(DOMAIN v.entries))  BY WireIs
 <2> DEFINE e == [k \in DOMAIN v.entries |-> f[v.entries[k]]]
 <2>3. \E o : w = MapOf(e, o)  BY <2>1, <2>2, Zenon
 <2> HIDE DEF w, e
 <2>4. w.kind = "map" /\ w.entries = e  BY <2>3 DEF MapOf
 <2> QED  BY <2>4 DEF e
<1>3. v.kind \notin {"list", "map"} => w.kind \notin {"list", "map"}
 <2>1. w \in {WireInt(v.halves), WireFloat(v.halves), v} \/ v.kind \in {"list", "map"}  BY WireIs
 <2> HIDE DEF w
 <2> QED  BY <2>1 DEF WireInt, WireFloat
<1>4. {f[p] : p \in Parts(v)} = {ToDagCbor(p) : p \in Parts(v)}  OBVIOUS
<1> HIDE DEF w, f
<1>5. MadeBy(v, w, f)  BY <1>1, <1>2, <1>3, Zenon DEF MadeBy
<1>6. SameShape(v, w) /\ Parts(w) = {f[p] : p \in Parts(v)}  BY <1>5, ShapeIs
<1> QED  BY <1>4, <1>6 DEF w

\* The other one.
LEMMA ValueShape ==
  ASSUME NEW v, Tree(v)
  PROVE  SameShape(v, FromDagCbor(v)) /\ Parts(FromDagCbor(v)) = {FromDagCbor(p) : p \in Parts(v)}
<1> DEFINE w == FromDagCbor(v)
           f == [p \in Parts(v) |-> FromDagCbor(p)]
<1>1. v.kind = "list" => w.kind = "list" /\ w.items = [n \in DOMAIN v.items |-> f[v.items[n]]]
 <2> HAVE v.kind = "list"
 <2>1. \A n \in DOMAIN v.items : f[v.items[n]] = FromDagCbor(v.items[n])  BY PartsAre
 <2>2. w = List([n \in DOMAIN v.items |-> FromDagCbor(v.items[n])])  BY ValueIs
 <2> DEFINE s == [n \in DOMAIN v.items |-> f[v.items[n]]]
 <2>3. w = List(s)  BY <2>1, <2>2, Zenon
 <2> HIDE DEF w, s
 <2>4. w.kind = "list" /\ w.items = s  BY <2>3 DEF List
 <2> QED  BY <2>4 DEF s
<1>2. v.kind = "map" => w.kind = "map" /\ w.entries = [k \in DOMAIN v.entries |-> f[v.entries[k]]]
 <2> HAVE v.kind = "map"
 <2>1. \A k \in DOMAIN v.entries : f[v.entries[k]] = FromDagCbor(v.entries[k])  BY PartsAre
 <2>2. w = MapOf([k \in DOMAIN v.entries |-> FromDagCbor(v.entries[k])], v.order)  BY ValueIs
 <2> DEFINE e == [k \in DOMAIN v.entries |-> f[v.entries[k]]]
 <2>3. \E o : w = MapOf(e, o)  BY <2>1, <2>2, Zenon
 <2> HIDE DEF w, e
 <2>4. w.kind = "map" /\ w.entries = e  BY <2>3 DEF MapOf
 <2> QED  BY <2>4 DEF e
<1>3. v.kind \notin {"list", "map"} => w.kind \notin {"list", "map"}
 <2>1. w \in {Number(v.halves), [kind |-> "bigint", halves |-> v.halves], v} \/ v.kind \in {"list", "map"}
   BY ValueIs
 <2> HIDE DEF w
 <2> QED  BY <2>1 DEF Number
<1>4. {f[p] : p \in Parts(v)} = {FromDagCbor(p) : p \in Parts(v)}  OBVIOUS
<1> HIDE DEF w, f
<1>5. MadeBy(v, w, f)  BY <1>1, <1>2, <1>3, Zenon DEF MadeBy
<1>6. SameShape(v, w) /\ Parts(w) = {f[p] : p \in Parts(v)}  BY <1>5, ShapeIs
<1> QED  BY <1>4, <1>6 DEF w

\* So it is a tree.
LEMMA WireTrees == \A v : Tree(v) => Tree(ToDagCbor(v))
<1> DEFINE T == {n \in Nat : \A v : LowTree(v, n) => LowTree(ToDagCbor(v), n)}
<1>1. 0 \in T  BY TreeIs
<1>2. ASSUME NEW n \in Nat, n \in T  PROVE n + 1 \in T
 <2> SUFFICES ASSUME NEW v, LowTree(v, n + 1)  PROVE LowTree(ToDagCbor(v), n + 1)
   OBVIOUS
 <2>1. Tree(v)  BY TreeIs
 <2>2. \A p \in Parts(v) : LowTree(ToDagCbor(p), n)  BY <1>2, TreeIs
 <2>3. \A p \in Parts(ToDagCbor(v)) : LowTree(p, n)  BY <2>1, <2>2, WireShape
 <2> QED  BY <2>3, TreeIs
<1>3. Nat \subseteq T
 <2> HIDE DEF T
 <2> QED  BY <1>1, <1>2, SetInduction
<1> QED  BY <1>3, TreeIs

\* A value on its way, in either representation of a safe integer.
LEMMA ReceivedIs ==
  ASSUME NEW v, Tree(v)
  PROVE  /\ v.kind = "bigint" => Received(v) = IF Safe(v.halves) THEN Number(v.halves)
                                                ELSE [kind |-> "bigint", halves |-> v.halves]
         /\ v.kind = "number" => Received(v) = Number(v.halves)
         /\ v.kind = "list" => Received(v) = List([n \in DOMAIN v.items |-> Received(v.items[n])])
         /\ v.kind = "map" => Received(v) = MapOf([k \in DOMAIN v.entries |-> Received(v.entries[k])],
                                                  Sorted(DOMAIN v.entries))
         /\ v.kind \notin {"bigint", "number", "list", "map", "int", "float"} => Received(v) = v
<1> DEFINE w == ToDagCbor(v)
<1>1. Tree(w) /\ Received(v) = FromDagCbor(w)  BY WireTrees DEF Received
<1>2. CASE v.kind \in {"bigint", "number"}
 <2>2. w = (IF v.kind = "bigint" \/ Safe(v.halves) THEN WireInt(v.halves) ELSE WireFloat(v.halves))
   BY <1>2, WireIs
 <2>3. /\ WireInt(v.halves).kind = "int" /\ WireInt(v.halves).halves = v.halves
       /\ WireFloat(v.halves).kind = "float" /\ WireFloat(v.halves).halves = v.halves
   BY DEF WireInt, WireFloat
 <2> HIDE DEF w
 <2> QED  BY <1>1, <1>2, <2>2, <2>3, ValueIs
<1>3. CASE v.kind = "list"
 <2> DEFINE s == [n \in DOMAIN v.items |-> ToDagCbor(v.items[n])]
 <2>1. w = List(s)  BY <1>3, WireIs
 <2> HIDE DEF s, w
 <2>2. w.kind = "list" /\ w.items = s  BY <2>1 DEF List
 <2>3. FromDagCbor(w) = List([n \in DOMAIN s |-> FromDagCbor(s[n])])
   BY <1>1, <2>2, ValueIs
 <2>4. [n \in DOMAIN s |-> FromDagCbor(s[n])] = [n \in DOMAIN v.items |-> Received(v.items[n])]
   BY Zenon DEF s, Received
 <2> QED  BY <1>1, <1>3, <2>3, <2>4
<1>4. CASE v.kind = "map"
 <2> DEFINE e == [k \in DOMAIN v.entries |-> ToDagCbor(v.entries[k])]
            o == Sorted(DOMAIN v.entries)
 <2>1. w = MapOf(e, o)  BY <1>4, WireIs
 <2> HIDE DEF e, o, w
 <2>2. w.kind = "map" /\ w.entries = e /\ w.order = o  BY <2>1 DEF MapOf
 <2>3. FromDagCbor(w) = MapOf([k \in DOMAIN e |-> FromDagCbor(e[k])], o)
   BY <1>1, <2>2, ValueIs
 <2>4. [k \in DOMAIN e |-> FromDagCbor(e[k])] = [k \in DOMAIN v.entries |-> Received(v.entries[k])]
   BY Zenon DEF e, Received
 <2> QED  BY <1>1, <1>4, <2>3, <2>4 DEF o
<1>5. CASE v.kind \notin {"bigint", "number", "list", "map"}
 <2>1. w = v  BY <1>5, WireIs
 <2> HIDE DEF w
 <2> QED  BY <1>1, <1>5, <2>1, ValueIs
<1> QED  BY <1>2, <1>3, <1>4, <1>5

\* What is received is written again as it was.
LEMMA WrittenAgain == \A v \in Data : ToDagCbor(Received(v)) = ToDagCbor(v)
<1> DEFINE T == {v \in Data : ToDagCbor(Received(v)) = ToDagCbor(v)}
<1>1. Depth \in [Data -> Nat]  BY DataAssumption
<1>2. ASSUME NEW v \in Data, \A w \in Data : Depth[w] < Depth[v] => w \in T
      PROVE  v \in T
 <2> DEFINE r == Received(v)
 <2>1. IsValue(v) /\ Tree(v) /\ r \in Data /\ Tree(r)
   BY DataAssumption, PolicyAssumption, DataTrees
 <2>2. CASE v.kind \in {"bigint", "number"}
  <3>1. r.kind \in {"bigint", "number"} /\ r.halves = v.halves
        /\ (r.kind = "number" /\ v.kind = "bigint" => Safe(v.halves)) /\ (v.kind = "number" => r.kind = "number")
   <4> HIDE DEF r
   <4>1. r = (IF v.kind = "number" \/ Safe(v.halves) THEN Number(v.halves)
              ELSE [kind |-> "bigint", halves |-> v.halves])
     BY <2>1, <2>2, ReceivedIs DEF r
   <4>2. Number(v.halves).kind = "number" /\ Number(v.halves).halves = v.halves
     BY DEF Number
   <4> QED  BY <2>2, <4>1, <4>2
  <3> HIDE DEF r
  <3>2. ToDagCbor(r) = ToDagCbor(v)  BY <2>1, <2>2, <3>1, WireIs
  <3> QED  BY <3>2 DEF r
 <2>3. CASE v.kind = "list"
  <3> DEFINE s == [n \in DOMAIN v.items |-> Received(v.items[n])]
  <3>1. r = List(s)  BY <2>1, <2>3, ReceivedIs
  <3>2. \A n \in DOMAIN v.items : ToDagCbor(Received(v.items[n])) = ToDagCbor(v.items[n])
    BY <1>2, <2>3, ItemsBelow
  <3>3. [n \in DOMAIN s |-> ToDagCbor(s[n])] = [n \in DOMAIN v.items |-> ToDagCbor(v.items[n])]
    BY <3>2, Zenon
  <3> HIDE DEF s, r
  <3>4. r.kind = "list" /\ r.items = s  BY <3>1 DEF List
  <3>5. ToDagCbor(r) = List([n \in DOMAIN s |-> ToDagCbor(s[n])])
    BY <2>1, <3>4, WireIs
  <3>6. ToDagCbor(r) = ToDagCbor(v)  BY <2>1, <2>3, <3>3, <3>5, WireIs
  <3> QED  BY <3>6 DEF r
 <2>4. CASE v.kind = "map"
  <3> DEFINE e == [k \in DOMAIN v.entries |-> Received(v.entries[k])]
             o == Sorted(DOMAIN v.entries)
  <3>1. r = MapOf(e, o)  BY <2>1, <2>4, ReceivedIs
  <3>2. \A k \in DOMAIN v.entries : ToDagCbor(Received(v.entries[k])) = ToDagCbor(v.entries[k])
    BY <1>2, <2>4, EntriesBelow
  <3>3. [k \in DOMAIN e |-> ToDagCbor(e[k])] = [k \in DOMAIN v.entries |-> ToDagCbor(v.entries[k])]
        /\ DOMAIN e = DOMAIN v.entries
    BY <3>2, Zenon
  <3> HIDE DEF e, o, r
  <3>4. r.kind = "map" /\ r.entries = e  BY <3>1 DEF MapOf
  <3>5. ToDagCbor(r) = MapOf([k \in DOMAIN e |-> ToDagCbor(e[k])], Sorted(DOMAIN e))
    BY <2>1, <3>4, WireIs
  <3>6. ToDagCbor(r) = ToDagCbor(v)  BY <2>1, <2>4, <3>3, <3>5, WireIs
  <3> QED  BY <3>6 DEF r
 <2>5. CASE v.kind \notin {"bigint", "number", "list", "map"}
  <3>1. v.kind \notin {"int", "float"}  BY <2>1 DEF IsValue
  <3>2. r = v  BY <2>1, <2>5, <3>1, ReceivedIs
  <3> QED  BY <3>2
 <2> QED  BY <2>2, <2>3, <2>4, <2>5
<1>3. Data \subseteq T
 <2> HIDE DEF T
 <2> QED  BY <1>1, <1>2, RankInduction
<1> QED  BY <1>3

----------------------------------------------------------------------------
(* Predicates in IPLD, and with their receivers                            *)

\* What predicates are made of.
LEMMA PredicateKinds ==
  ASSUME NEW p \in Predicate
  PROVE  /\ p.op \in {"not", "and", "or", "all", "any", "==", "like"} \cup Orderings
         /\ p.op \in {"not", "all", "any"} => Lower(p, p.inner)
         /\ p.op \in {"and", "or"} => p.inner \in Seq(Predicate) /\ \A n \in DOMAIN p.inner : Lower(p, p.inner[n])
         /\ p.op \notin {"not", "and", "or"} => p.select \in Seq(Filter)
         /\ p.op \in {"==", "like"} \cup Orderings => p.value \in Data
         /\ p.op = "like" => p.value.kind = "string"
         /\ p.op \in Orderings => IsNumber(p.value)
         /\ p.op = "not" => p = Not(p.inner)
         /\ p.op \in {"and", "or"} => p = Connect(p.op, p.inner)
         /\ p.op \in {"all", "any"} => p = Quantifier(p.op, p.select, p.inner)
         /\ p.op \in {"==", "like"} \cup Orderings => p = Compare(p.op, p.select, p.value)
BY PredicatesAssumption DEF IsPredicate, Orderings

Writer    == INSTANCE IpldProofs WITH Node <- IpldBody
Normalise == INSTANCE IpldProofs WITH Node <- NormalBody
Decoder   == INSTANCE IpldProofs WITH Node <- DecodedBody
Enlist    == INSTANCE IpldProofs WITH Node <- EnlistsBody

\* One turn of each depends on what the predicates within make of it only.
LEMMA Bodies ==
  ASSUME NEW p \in Predicate, NEW f, NEW g, \A q \in Predicate : Size[q] < Size[p] => f[q] = g[q]
  PROVE  IpldBody(p, f) = IpldBody(p, g) /\ NormalBody(p, f) = NormalBody(p, g)
         /\ DecodedBody(p, f) = DecodedBody(p, g) /\ EnlistsBody(p, f) = EnlistsBody(p, g)
<1>1. p.op \in {"not", "all", "any"} => f[p.inner] = g[p.inner]
  BY PredicateKinds DEF Lower
<1>2. p.op \in {"and", "or"} => \A n \in DOMAIN p.inner : f[p.inner[n]] = g[p.inner[n]]
  BY PredicateKinds DEF Lower
<1>3. p.op \in {"and", "or"} =>
        [n \in DOMAIN p.inner |-> f[p.inner[n]]] = [n \in DOMAIN p.inner |-> g[p.inner[n]]]
  BY <1>2, Zenon
<1>4. CASE p.op = "not"
 <2>1. IpldBody(p, f) = IpldBody(p, g) /\ EnlistsBody(p, f) = EnlistsBody(p, g)
   BY <1>1, <1>4 DEF IpldBody, EnlistsBody, Orderings
 <2>2. NormalBody(p, f) = NormalBody(p, g) /\ DecodedBody(p, f) = DecodedBody(p, g)
   BY <1>1, <1>4 DEF NormalBody, DecodedBody, Remade
 <2> QED  BY <2>1, <2>2
<1>5. CASE p.op \in {"and", "or"}
 <2>1. IpldBody(p, f) = IpldBody(p, g)  BY <1>3, <1>5 DEF IpldBody, Orderings
 <2>2. NormalBody(p, f) = NormalBody(p, g) /\ DecodedBody(p, f) = DecodedBody(p, g)
   BY <1>3, <1>5 DEF NormalBody, DecodedBody, Remade
 <2>3. EnlistsBody(p, f) = EnlistsBody(p, g)  BY <1>2, <1>5 DEF EnlistsBody
 <2> QED  BY <2>1, <2>2, <2>3
<1>6. CASE p.op \in {"all", "any"}
 <2>1. IpldBody(p, f) = IpldBody(p, g) /\ NormalBody(p, f) = NormalBody(p, g)
       /\ DecodedBody(p, f) = DecodedBody(p, g)
   BY <1>1, <1>6 DEF IpldBody, NormalBody, DecodedBody, Remade, Orderings
 <2>2. EnlistsBody(p, f) = EnlistsBody(p, g)  BY <1>1, <1>6 DEF EnlistsBody
 <2> QED  BY <2>1, <2>2
<1>7. CASE p.op \notin {"not", "and", "or", "all", "any"}
 <2>1. IpldBody(p, f) = IpldBody(p, g)  BY <1>7, PredicateKinds DEF IpldBody
 <2> QED  BY <2>1, <1>7 DEF NormalBody, DecodedBody, Remade, EnlistsBody
<1> QED  BY <1>4, <1>5, <1>6, <1>7

\* So there are functions that take such turns.
LEMMA BodiesExist ==
  (\E f : IsIpld(f)) /\ (\E f : IsNormal(f)) /\ (\E f : IsDecoded(f)) /\ (\E f : IsEnlists(f))
<1>1. Size \in [Predicate -> Nat]  BY PredicatesAssumption
<1>2. Writer!Ranked(Predicate, Size) /\ Normalise!Ranked(Predicate, Size)
      /\ Decoder!Ranked(Predicate, Size) /\ Enlist!Ranked(Predicate, Size)
  BY <1>1, Bodies, Zenon DEF Writer!Ranked, Normalise!Ranked, Decoder!Ranked, Enlist!Ranked
<1>3. \E f : IsIpld(f)
  BY <1>2, Writer!RankRecursion, IpldAssumption, Zenon DEF IsIpld
<1>4. \E f : IsNormal(f)
  BY <1>2, Normalise!RankRecursion, IpldAssumption, Zenon DEF IsNormal
<1>5. \E f : IsEnlists(f)
  BY <1>2, Enlist!RankRecursion, IpldAssumption, Zenon DEF IsEnlists
<1>6. \E f : IsDecoded(f)
  BY <1>2, Decoder!RankRecursion, IpldAssumption, Zenon DEF IsDecoded
<1> QED  BY <1>3, <1>4, <1>5, <1>6

\* predicateToIpld takes such turns, and so do what a receiver holds, what the
\* decoder makes of it, and the question whether a predicate takes a map for a list.
LEMMA BodiesUnfold ==
  ASSUME NEW p \in Predicate
  PROVE  /\ PredicateToIpld[p] = IpldBody(p, PredicateToIpld)
         /\ Normal[p] = Remade(p, Received(p.value), Normal)
         /\ Decoded[p] = Remade(p, Emptied(Received(p.value)), Decoded)
         /\ Enlists[p] = EnlistsBody(p, Enlists)
<1>1. PredicateToIpld = CHOOSE f : IsIpld(f)  BY Zenon DEF PredicateToIpld, IsIpld, IpldBody
<1>2. Normal = CHOOSE f : IsNormal(f)  BY Zenon DEF Normal, IsNormal, NormalBody, Remade
<1>3. Decoded = CHOOSE f : IsDecoded(f)  BY Zenon DEF Decoded, IsDecoded, DecodedBody, Remade
<1>4. Enlists = CHOOSE f : IsEnlists(f)  BY Zenon DEF Enlists, IsEnlists, EnlistsBody
<1>5. IsIpld(PredicateToIpld) /\ IsNormal(Normal) /\ IsDecoded(Decoded) /\ IsEnlists(Enlists)
  BY <1>1, <1>2, <1>3, <1>4, BodiesExist, Zenon
<1>6. /\ \A f : IsIpld(f) => f[p] = IpldBody(p, f)
      /\ \A f : IsNormal(f) => f[p] = NormalBody(p, f)
      /\ \A f : IsDecoded(f) => f[p] = DecodedBody(p, f)
      /\ \A f : IsEnlists(f) => f[p] = EnlistsBody(p, f)
  BY DEF IsIpld, IsNormal, IsDecoded, IsEnlists
<1> QED  BY <1>5, <1>6, Zenon DEF NormalBody, DecodedBody

\* A tree of such lists, which is what the decoder may be given.
Sound(v) == Tree(v) /\ \A x \in Within(v) : Listing(x)

\* Its parts are such trees.
LEMMA SoundIs ==
  ASSUME NEW v, Tree(v)
  PROVE  Sound(v) <=> Listing(v) /\ \A p \in Parts(v) : Sound(p)
<1>1. \A p \in Parts(v) : Tree(p)  BY NearTrees
<1>2. ToWire!Within(v) = {v} \cup UNION {ToWire!Within(p) : p \in ToWire!Parts(v)}
  BY ToWire!WithinSplits, IpldAssumption DEF Tree
<1>3. Within(v) = {v} \cup UNION {Within(p) : p \in Parts(v)}
  BY <1>2, SameTrees
<1> QED  BY <1>1, <1>3 DEF Sound

\* A value without parts.
LEMMA LeafSound == \A v : v.kind \notin {"list", "map"} => Sound(v)
<1> TAKE v
<1> HAVE v.kind \notin {"list", "map"}
<1>1. Parts(v) = {}  BY PartsAre
<1>2. LowTree(v, 0 + 1)  BY <1>1, TreeIs
<1>3. Tree(v)  BY <1>2, TreeIs
<1> QED  BY <1>1, <1>3, SoundIs DEF Listing

\* A value of the arguments.
LEMMA DataSound == \A v \in Data : Sound(v)
<1> DEFINE T == {v \in Data : Sound(v)}
<1>1. Depth \in [Data -> Nat]  BY DataAssumption
<1>2. ASSUME NEW v \in Data, \A w \in Data : Depth[w] < Depth[v] => w \in T
      PROVE  v \in T
 <2>1. \A p \in Parts(v) : Sound(p)  BY <1>2, PartsInData, DataAssumption
 <2>2. Listing(v)
  <3>1. v.kind = "list" => v.items \in Seq(Data)
    BY DataAssumption DEF IsValue
  <3>2. \A s \in Seq(Data) : s \in Seq({s[n] : n \in DOMAIN s})  OBVIOUS
  <3> QED  BY <3>1, <3>2 DEF Listing
 <2> QED  BY <2>1, <2>2, DataTrees, SoundIs
<1>3. Data \subseteq T
 <2> HIDE DEF T
 <2> QED  BY <1>1, <1>2, RankInduction
<1> QED  BY <1>3

\* A list of such trees.
LEMMA SoundLists ==
  ASSUME NEW S, NEW s \in Seq(S), \A n \in DOMAIN s : Sound(s[n])
  PROVE  Sound(List(s))
<1> DEFINE v == List(s)
           T == {m \in Nat : m <= Len(s) => \E N \in Nat : \A n \in 1..m : LowTree(s[n], N)}
<1>1. v.kind = "list" /\ v.items = s /\ Parts(v) = {s[n] : n \in DOMAIN s}
  BY DEF List, Parts
<1>2. Len(s) \in Nat /\ DOMAIN s = 1..Len(s)  OBVIOUS
<1>3. 0 \in T
 <2>1. \A n \in 1..0 : LowTree(s[n], 0)  OBVIOUS
 <2> QED  BY <2>1
<1>4. ASSUME NEW m \in Nat, m \in T  PROVE m + 1 \in T
 <2> SUFFICES ASSUME m + 1 <= Len(s)  PROVE \E N \in Nat : \A n \in 1..m+1 : LowTree(s[n], N)
   OBVIOUS
 <2>1. PICK N \in Nat : \A n \in 1..m : LowTree(s[n], N)  BY <1>2, <1>4
 <2>2. PICK M \in Nat : LowTree(s[m+1], M)  BY <1>2, TreeIs DEF Sound
 <2>3. N + M \in Nat /\ N <= N + M /\ M <= N + M  OBVIOUS
 <2>4. ASSUME NEW n \in 1..m+1  PROVE LowTree(s[n], N + M)
  <3>1. CASE n = m + 1  BY <2>2, <2>3, <3>1, TreeIs
  <3>2. CASE n # m + 1
   <4>1. n \in 1..m  BY <3>2
   <4> QED  BY <2>1, <2>3, <4>1, TreeIs
  <3> QED  BY <3>1, <3>2
 <2> QED  BY <2>3, <2>4
<1>5. Len(s) \in T
 <2> HIDE DEF T
 <2> QED  BY <1>2, <1>3, <1>4, SetInduction
<1>6. PICK N \in Nat : \A n \in 1..Len(s) : LowTree(s[n], N)  BY <1>2, <1>5
<1> HIDE DEF v, T
<1>7. Tree(v)
 <2>1. \A p \in Parts(v) : LowTree(p, N)  BY <1>1, <1>2, <1>6
 <2>2. LowTree(v, N + 1)  BY <2>1, TreeIs
 <2> QED  BY <2>2, TreeIs
<1>8. Listing(v)
 <2>1. s \in Seq({s[n] : n \in DOMAIN s})  OBVIOUS
 <2> QED  BY <1>1, <2>1 DEF Listing
<1>9. Sound(v)  BY <1>1, <1>7, <1>8, SoundIs
<1> QED  BY <1>9 DEF v

\* Pairs and triples of sound trees.
LEMMA SoundPairs ==
  /\ \A a, b : Sound(a) /\ Sound(b) => Sound(Two(a, b))
  /\ \A a, b, c : Sound(a) /\ Sound(b) /\ Sound(c) => Sound(Three(a, b, c))
<1>1. ASSUME NEW a, NEW b, Sound(a), Sound(b)  PROVE Sound(Two(a, b))
 <2> DEFINE s == <<a, b>>
 <2>1. s \in Seq({a, b}) /\ \A n \in DOMAIN s : Sound(s[n])  BY <1>1
 <2> HIDE DEF s
 <2>2. Sound(List(s))  BY <2>1, SoundLists
 <2> QED  BY <2>2 DEF s, Two
<1>2. ASSUME NEW a, NEW b, NEW c, Sound(a), Sound(b), Sound(c)  PROVE Sound(Three(a, b, c))
 <2> DEFINE s == <<a, b, c>>
 <2>1. s \in Seq({a, b, c}) /\ \A n \in DOMAIN s : Sound(s[n])  BY <1>2
 <2> HIDE DEF s
 <2>2. Sound(List(s))  BY <2>1, SoundLists
 <2> QED  BY <2>2 DEF s, Three
<1> QED  BY <1>1, <1>2

\* What is written of a sound value is sound, and so is what is read of one.
LEMMA WireSound == \A v : Sound(v) => Sound(ToDagCbor(v))
<1> DEFINE T == {n \in Nat : \A v : LowTree(v, n) /\ Sound(v) => Sound(ToDagCbor(v))}
<1>1. 0 \in T  BY TreeIs
<1>2. ASSUME NEW n \in Nat, n \in T  PROVE n + 1 \in T
 <2> SUFFICES ASSUME NEW v, LowTree(v, n + 1), Sound(v)  PROVE Sound(ToDagCbor(v))
   OBVIOUS
 <2>1. Tree(v) /\ Listing(v) /\ \A p \in Parts(v) : Sound(p)  BY SoundIs DEF Sound
 <2>2. \A p \in Parts(v) : Sound(ToDagCbor(p))  BY <1>2, <2>1, TreeIs
 <2>3. Tree(ToDagCbor(v)) /\ Listing(ToDagCbor(v))  BY <2>1, WireTrees, WireShape DEF SameShape
 <2>4. \A p \in Parts(ToDagCbor(v)) : Sound(p)  BY <2>1, <2>2, WireShape
 <2> QED  BY <2>3, <2>4, SoundIs
<1>3. Nat \subseteq T
 <2> HIDE DEF T
 <2> QED  BY <1>1, <1>2, SetInduction
<1>4. ASSUME NEW v, Sound(v)  PROVE Sound(ToDagCbor(v))
 <2>1. PICK n \in Nat : LowTree(v, n)  BY <1>4, TreeIs DEF Sound
 <2> QED  BY <1>3, <1>4, <2>1
<1> QED  BY <1>4

\* The other half.
LEMMA ValueSound == \A v : Sound(v) => Sound(FromDagCbor(v))
<1> DEFINE T == {n \in Nat : \A v : LowTree(v, n) /\ Sound(v) => LowTree(FromDagCbor(v), n) /\ Sound(FromDagCbor(v))}
<1>1. 0 \in T  BY TreeIs
<1>2. ASSUME NEW n \in Nat, n \in T  PROVE n + 1 \in T
 <2> SUFFICES ASSUME NEW v, LowTree(v, n + 1), Sound(v)
              PROVE  LowTree(FromDagCbor(v), n + 1) /\ Sound(FromDagCbor(v))
   OBVIOUS
 <2>1. Tree(v) /\ Listing(v) /\ \A p \in Parts(v) : Sound(p)  BY SoundIs DEF Sound
 <2>2. \A p \in Parts(v) : LowTree(FromDagCbor(p), n) /\ Sound(FromDagCbor(p))  BY <1>2, <2>1, TreeIs
 <2>3. \A p \in Parts(FromDagCbor(v)) : LowTree(p, n) /\ Sound(p)  BY <2>1, <2>2, ValueShape
 <2>4. LowTree(FromDagCbor(v), n + 1)  BY <2>3, TreeIs
 <2>5. Tree(FromDagCbor(v)) /\ Listing(FromDagCbor(v))  BY <2>1, <2>4, TreeIs, ValueShape DEF SameShape
 <2> QED  BY <2>3, <2>4, <2>5, SoundIs
<1>3. Nat \subseteq T
 <2> HIDE DEF T
 <2> QED  BY <1>1, <1>2, SetInduction
<1>4. ASSUME NEW v, Sound(v)  PROVE Sound(FromDagCbor(v))
 <2>1. PICK n \in Nat : LowTree(v, n)  BY <1>4, TreeIs DEF Sound
 <2> QED  BY <1>3, <1>4, <2>1
<1> QED  BY <1>4

----------------------------------------------------------------------------
(* Maps with something in them                                             *)

Emptier == INSTANCE IpldProofs WITH Node <- EmptiedNode

\* How objectsToMaps unfolds on what ipldFromDagCbor made.
LEMMA EmptiedIs ==
  ASSUME NEW v, Tree(v)
  PROVE  /\ v.kind = "list" => Emptied(v) = List([n \in DOMAIN v.items |-> Emptied(v.items[n])])
         /\ v.kind = "map" => Emptied(v) = MapOf(<<>>, <<>>)
         /\ v.kind \notin {"list", "map"} => Emptied(v) = v
<1> DEFINE f == [y \in Near(v) |-> Emptied(y)]
<1>1. \A y : Emptier!Made(y) = Emptied(y)
  BY Zenon DEF Emptier!Made, Emptier!Fold, Emptied, Fold, Emptier!Within, Within, Emptier!PartsOf, PartsOf,
               Emptier!Parts, Parts
<1>2. \A y : Emptier!Near(y) = Near(y)
  BY Zenon DEF Near, PartsOf, Parts, Emptier!Near, Emptier!PartsOf, Emptier!Parts
<1>3. \A y \in Emptier!Near(v) : f[y] = Emptier!Made(y)  BY <1>1, <1>2
<1>4. \A p \in Parts(v) : f[p] = Emptied(p)  BY DEF Near
<1>5. ASSUME NEW x, NEW g, NEW h, \A y \in Parts(x) : g[y] = h[y]
      PROVE  EmptiedNode(x, g) = EmptiedNode(x, h)
 <2>1. CASE x.kind = "list"
  <3>1. \A n \in DOMAIN x.items : g[x.items[n]] = h[x.items[n]]
    BY <1>5, <2>1, PartsAre
  <3>2. [n \in DOMAIN x.items |-> g[x.items[n]]] = [n \in DOMAIN x.items |-> h[x.items[n]]]
    BY <3>1, Zenon
  <3> QED  BY <2>1, <3>2, Zenon DEF EmptiedNode
 <2>2. CASE x.kind # "list"  BY <2>2 DEF EmptiedNode
 <2> QED  BY <2>1, <2>2
<1>6. \A x : Parts(x) \subseteq Emptier!Near(x)  BY <1>2 DEF Near
<1>7. \A x, g, h : (\A y \in Emptier!Near(x) : g[y] = h[y]) => EmptiedNode(x, g) = EmptiedNode(x, h)
  BY <1>5, <1>6
<1>8. Emptier!Local(v)  BY <1>7, Zenon DEF Emptier!Local
<1>9. Emptier!IsTree(v)
 <2>1. \A u, n : Emptier!Low(u, n) = ToWire!Low(u, n)
   BY Zenon DEF ToWire!Low, ToWire!Level, ToWire!IsLevels, ToWire!PartsOf, ToWire!Parts,
                Emptier!Low, Emptier!Level, Emptier!IsLevels, Emptier!PartsOf, Emptier!Parts
 <2> QED  BY <2>1 DEF Tree, Emptier!IsTree, ToWire!IsTree
<1> HIDE DEF f
<1>10. Emptied(v) = EmptiedNode(v, f)
  BY <1>1, <1>3, <1>8, <1>9, Emptier!FoldUnfolds, IpldAssumption, Zenon
<1>11. v.kind = "list" => [n \in DOMAIN v.items |-> f[v.items[n]]] = [n \in DOMAIN v.items |-> Emptied(v.items[n])]
 <2> HAVE v.kind = "list"
 <2>1. \A n \in DOMAIN v.items : f[v.items[n]] = Emptied(v.items[n])
   BY <1>4, PartsAre
 <2> QED  BY <2>1, Zenon
<1> QED  BY <1>10, <1>11 DEF EmptiedNode

\* No map with something in it is in a value when none is in its parts, and it
\* is no such map itself.
LEMMA FlatIs ==
  ASSUME NEW v, Tree(v)
  PROVE  Flat(v) <=> (v.kind = "map" => DOMAIN v.entries = {}) /\ \A p \in Parts(v) : Flat(p)
<1>1. ToWire!Within(v) = {v} \cup UNION {ToWire!Within(p) : p \in ToWire!Parts(v)}
  BY ToWire!WithinSplits, IpldAssumption DEF Tree
<1>2. Within(v) = {v} \cup UNION {Within(p) : p \in Parts(v)}
  BY <1>1, SameTrees
<1> DEFINE Full(x) == x.kind = "map" /\ DOMAIN x.entries # {}
<1>3. \A x : Flat(x) <=> \A y \in Within(x) : ~Full(y)  BY Zenon DEF Flat, HoldsMap
<1>4. (v.kind = "map" => DOMAIN v.entries = {}) <=> ~Full(v)  OBVIOUS
<1> HIDE DEF Full
<1> QED  BY <1>2, <1>3, <1>4

\* A value without parts holds none.
LEMMA LeafFlat == \A v : v.kind \notin {"list", "map"} => Flat(v)
<1> TAKE v
<1> HAVE v.kind \notin {"list", "map"}
<1>1. Parts(v) = {} /\ Tree(v)  BY PartsAre, LeafSound DEF Sound
<1> QED  BY <1>1, FlatIs

\* Pairs and triples hold those that their items hold.
LEMMA FlatPairs ==
  /\ \A a, b : Tree(Two(a, b)) => (Flat(Two(a, b)) <=> Flat(a) /\ Flat(b))
  /\ \A a, b, c : Tree(Three(a, b, c)) => (Flat(Three(a, b, c)) <=> Flat(a) /\ Flat(b) /\ Flat(c))
  /\ \A a, b, c, d : Tree(Four(a, b, c, d)) => (Flat(Four(a, b, c, d)) => Flat(c))
<1>1. ASSUME NEW s, Tree(List(s))  PROVE Flat(List(s)) <=> \A n \in DOMAIN s : Flat(s[n])
 <2> DEFINE v == List(s)
 <2>1. v.kind = "list" /\ v.items = s  BY DEF List
 <2> HIDE DEF v
 <2>2. Parts(v) = {s[n] : n \in DOMAIN s}  BY <2>1, PartsAre
 <2>3. Tree(v)  BY <1>1 DEF v
 <2>4. Flat(v) <=> \A p \in Parts(v) : Flat(p)  BY <2>1, <2>3, FlatIs
 <2> QED  BY <2>2, <2>4, Zenon DEF v
<1>2. \A a, b : Tree(Two(a, b)) => (Flat(Two(a, b)) <=> Flat(a) /\ Flat(b))
 <2> TAKE a, b
 <2> HAVE Tree(Two(a, b))
 <2> DEFINE s == <<a, b>>
 <2>1. DOMAIN s = {1, 2} /\ s[1] = a /\ s[2] = b  OBVIOUS
 <2>2. Two(a, b) = List(s)  BY DEF Two
 <2> HIDE DEF s
 <2>3. Flat(List(s)) <=> \A n \in DOMAIN s : Flat(s[n])  BY <1>1, <2>2
 <2> QED  BY <2>1, <2>2, <2>3
<1>3. \A a, b, c : Tree(Three(a, b, c)) => (Flat(Three(a, b, c)) <=> Flat(a) /\ Flat(b) /\ Flat(c))
 <2> TAKE a, b, c
 <2> HAVE Tree(Three(a, b, c))
 <2> DEFINE s == <<a, b, c>>
 <2>1. DOMAIN s = {1, 2, 3} /\ s[1] = a /\ s[2] = b /\ s[3] = c  OBVIOUS
 <2>2. Three(a, b, c) = List(s)  BY DEF Three
 <2> HIDE DEF s
 <2>3. Flat(List(s)) <=> \A n \in DOMAIN s : Flat(s[n])  BY <1>1, <2>2
 <2> QED  BY <2>1, <2>2, <2>3
<1>4. \A a, b, c, d : Tree(Four(a, b, c, d)) => (Flat(Four(a, b, c, d)) => Flat(c))
 <2> TAKE a, b, c, d
 <2> HAVE Tree(Four(a, b, c, d))
 <2> DEFINE s == <<a, b, c, d>>
 <2>1. 3 \in DOMAIN s /\ s[3] = c  OBVIOUS
 <2>2. Four(a, b, c, d) = List(s)  BY DEF Four
 <2> HIDE DEF s
 <2>3. Flat(List(s)) <=> \A n \in DOMAIN s : Flat(s[n])  BY <1>1, <2>2
 <2> QED  BY <2>1, <2>2, <2>3
<1> QED  BY <1>2, <1>3, <1>4

\* What is written holds such a map where what it was written of does.
LEMMA WireFlat == \A v : Tree(v) => (Flat(ToDagCbor(v)) <=> Flat(v))
<1> DEFINE T == {n \in Nat : \A v : LowTree(v, n) => (Flat(ToDagCbor(v)) <=> Flat(v))}
<1>1. 0 \in T  BY TreeIs
<1>2. ASSUME NEW n \in Nat, n \in T  PROVE n + 1 \in T
 <2> SUFFICES ASSUME NEW v, LowTree(v, n + 1)  PROVE Flat(ToDagCbor(v)) <=> Flat(v)
   OBVIOUS
 <2>1. Tree(v) /\ Tree(ToDagCbor(v))  BY TreeIs, WireTrees
 <2>2. \A p \in Parts(v) : Flat(ToDagCbor(p)) <=> Flat(p)  BY <1>2, TreeIs
 <2>3. SameShape(v, ToDagCbor(v)) /\ Parts(ToDagCbor(v)) = {ToDagCbor(p) : p \in Parts(v)}
   BY <2>1, WireShape
 <2>4. (\A p \in Parts(ToDagCbor(v)) : Flat(p)) <=> \A p \in Parts(v) : Flat(p)  BY <2>2, <2>3
 <2> QED  BY <2>1, <2>3, <2>4, FlatIs DEF SameShape
<1>3. Nat \subseteq T
 <2> HIDE DEF T
 <2> QED  BY <1>1, <1>2, SetInduction
<1> QED  BY <1>3, TreeIs

\* So what is received does, too.
LEMMA ReceivedFlat == \A v \in Data : Flat(Received(v)) <=> Flat(v)
<1> TAKE v \in Data
<1> DEFINE r == Received(v)
<1>1. Tree(v) /\ Tree(r)  BY PolicyAssumption, DataTrees
<1>2. ToDagCbor(r) = ToDagCbor(v)  BY WrittenAgain
<1> HIDE DEF r
<1>3. (Flat(ToDagCbor(r)) <=> Flat(r)) /\ (Flat(ToDagCbor(v)) <=> Flat(v))
  BY <1>1, WireFlat
<1> QED  BY <1>2, <1>3 DEF r

\* Once emptied, a value holds no such map,
LEMMA EmptiedFlat == \A v \in Data : Sound(Emptied(v)) /\ Flat(Emptied(v))
<1> DEFINE T == {v \in Data : Sound(Emptied(v)) /\ Flat(Emptied(v))}
<1>1. Depth \in [Data -> Nat]  BY DataAssumption
<1>2. ASSUME NEW v \in Data, \A w \in Data : Depth[w] < Depth[v] => w \in T
      PROVE  v \in T
 <2> DEFINE m == Emptied(v)
 <2> SUFFICES Sound(m) /\ Flat(m)  OBVIOUS
 <2>1. Tree(v) /\ IsValue(v)  BY DataTrees, DataAssumption
 <2>2. CASE v.kind = "list"
  <3> DEFINE s == [n \in DOMAIN v.items |-> Emptied(v.items[n])]
  <3>1. m = List(s)  BY <2>1, <2>2, EmptiedIs
  <3>2. v.items \in Seq(Data)  BY <2>1, <2>2 DEF IsValue
  <3>3. Len(v.items) \in Nat /\ DOMAIN v.items = 1..Len(v.items)  BY <3>2
  <3>4. s \in Seq({s[n] : n \in DOMAIN s})  BY <3>3
  <3>5. \A n \in DOMAIN s : Sound(s[n]) /\ Flat(s[n])  BY <1>2, <2>2, ItemsBelow
  <3> HIDE DEF s, m
  <3>6. Sound(List(s))  BY <3>4, <3>5, SoundLists
  <3>7. Sound(m) /\ Tree(m) /\ m.kind = "list" /\ m.items = s  BY <3>1, <3>6 DEF List, Sound
  <3>8. Parts(m) = {s[n] : n \in DOMAIN s}  BY <3>7, PartsAre
  <3>9. \A p \in Parts(m) : Flat(p)  BY <3>5, <3>8
  <3> QED  BY <3>7, <3>9, FlatIs
 <2>3. CASE v.kind = "map"
  <3>1. m = MapOf(<<>>, <<>>)  BY <2>1, <2>3, EmptiedIs
  <3> HIDE DEF m
  <3>2. m.kind = "map" /\ DOMAIN m.entries = {}  BY <3>1 DEF MapOf
  <3>3. Parts(m) = {}  BY <3>2, PartsAre
  <3>4. LowTree(m, 0 + 1)  BY <3>3, TreeIs
  <3>5. Tree(m)  BY <3>4, TreeIs
  <3>6. Listing(m)  BY <3>2 DEF Listing
  <3> QED  BY <3>2, <3>3, <3>5, <3>6, SoundIs, FlatIs
 <2>4. CASE v.kind \notin {"list", "map"}
  <3>1. m = v  BY <2>1, <2>4, EmptiedIs
  <3> HIDE DEF m
  <3> QED  BY <2>4, <3>1, LeafSound, LeafFlat
 <2> QED  BY <2>2, <2>3, <2>4
<1>3. Data \subseteq T
 <2> HIDE DEF T
 <2> QED  BY <1>1, <1>2, RankInduction
<1> QED  BY <1>3

\* and one that held none is as it was.
LEMMA FlatStays == \A v \in Data : Flat(v) => Emptied(v) = v
<1> DEFINE T == {v \in Data : Flat(v) => Emptied(v) = v}
<1>1. Depth \in [Data -> Nat]  BY DataAssumption
<1>2. ASSUME NEW v \in Data, \A w \in Data : Depth[w] < Depth[v] => w \in T
      PROVE  v \in T
 <2> SUFFICES ASSUME Flat(v)  PROVE Emptied(v) = v  OBVIOUS
 <2>1. Tree(v) /\ IsValue(v)  BY DataTrees, DataAssumption
 <2>2. CASE v.kind = "list"
  <3>1. Emptied(v) = List([n \in DOMAIN v.items |-> Emptied(v.items[n])])
    BY <2>1, <2>2, EmptiedIs
  <3>2. v.items \in Seq(Data) /\ v = List(v.items)  BY <2>1, <2>2 DEF IsValue
  <3>3. \A p \in Parts(v) : Flat(p)  BY <2>1, FlatIs
  <3>4. \A n \in DOMAIN v.items : Emptied(v.items[n]) = v.items[n]
    BY <1>2, <2>2, <3>3, ItemsBelow, PartsAre
  <3> DEFINE s == v.items
  <3>5. s \in Seq(Data) /\ \A n \in DOMAIN s : Emptied(s[n]) = s[n]  BY <3>2, <3>4
  <3> HIDE DEF s
  <3>6. [n \in DOMAIN s |-> Emptied(s[n])] = s
   <4>1. [n \in DOMAIN s |-> Emptied(s[n])] = [n \in DOMAIN s |-> s[n]]  BY <3>5, Zenon
   <4>2. [n \in DOMAIN s |-> s[n]] = s  BY <3>5
   <4> QED  BY <4>1, <4>2
  <3> QED  BY <3>1, <3>2, <3>6, Zenon DEF s
 <2>3. CASE v.kind = "map"
  <3>1. Emptied(v) = MapOf(<<>>, <<>>)  BY <2>1, <2>3, EmptiedIs
  <3>2. v = MapOf(v.entries, v.order) /\ v.entries \in [DOMAIN v.entries -> Data] /\ v.order \in Seq(DOMAIN v.entries)
    BY <2>1, <2>3 DEF IsValue
  <3>3. DOMAIN v.entries = {}  BY <2>1, <2>3, FlatIs
  <3> DEFINE e == v.entries
             o == v.order
  <3>4. e \in [{} -> Data] /\ o \in Seq({})  BY <3>2, <3>3
  <3> HIDE DEF e, o
  <3>5. e = <<>>  BY <3>4
  <3>6. o = <<>>  BY <3>4
  <3> QED  BY <3>1, <3>2, <3>5, <3>6, Zenon DEF e, o
 <2>4. CASE v.kind \notin {"list", "map"}  BY <2>1, <2>4, EmptiedIs
 <2> QED  BY <2>2, <2>3, <2>4
<1>3. Data \subseteq T
 <2> HIDE DEF T
 <2> QED  BY <1>1, <1>2, RankInduction
<1> QED  BY <1>3

----------------------------------------------------------------------------
(* What the decoder reads                                                  *)

\* What is made of a value by its items, when it is a list that begins with a name.
LEMMA ReadNodeIs ==
  ASSUME NEW x, NEW h
  PROVE  IF x.kind # "list" \/ x.items = <<>> \/ x.items[1].kind # "string" THEN ReadNode(x, h) = <<>>
         ELSE ReadNode(x, h) = ReadItems(x.items, NameOf(x.items[1]), Parse(x.items[2].text), h)
BY Zenon DEF ReadNode, ReadItems, ReadNot, ReadMany, ReadEach

\* The decoder looks at the parts of a list and theirs only.
LEMMA ReadLocal == \A v : Sound(v) => Reader!Local(v)
<1>1. ASSUME NEW x, Listing(x), NEW f, NEW g, \A y \in Near(x) : f[y] = g[y]
      PROVE  ReadNode(x, f) = ReadNode(x, g)
 <2> DEFINE s == x.items
            op == NameOf(s[1])
            fs == Parse(s[2].text)
 <2>1. CASE x.kind # "list" \/ s = <<>> \/ s[1].kind # "string"
   BY <2>1, Zenon DEF ReadNode
 <2>2. CASE x.kind = "list" /\ s # <<>> /\ s[1].kind = "string"
  <3>1. s \in Seq({s[n] : n \in DOMAIN s})  BY <1>1, <2>2, Zenon DEF Listing
  <3>2. Len(s) \in Nat /\ DOMAIN s = 1..Len(s) /\ Parts(x) = {s[n] : n \in DOMAIN s}
    BY <2>2, <3>1, PartsAre
  <3> DEFINE Read(h) == ReadItems(s, op, fs, h)
  <3>3. \A h : ReadNode(x, h) = Read(h)  BY <2>2, ReadNodeIs
  <3>4. Len(s) = 2 => f[s[2]] = g[s[2]]  BY <1>1, <3>2 DEF Near
  <3>5. Len(s) >= 3 => f[s[3]] = g[s[3]]
   <4> HIDE DEF s
   <4>1. Len(s) >= 3 => 3 \in DOMAIN s  BY <3>2
   <4>2. Len(s) >= 3 => s[3] \in Near(x)  BY <3>2, <4>1 DEF Near
   <4> QED  BY <1>1, <4>2
  <3>6. Len(s) = 2 /\ s[2].kind = "list" => \A n \in DOMAIN s[2].items : f[s[2].items[n]] = g[s[2].items[n]]
   <4> SUFFICES ASSUME Len(s) = 2, s[2].kind = "list", NEW n \in DOMAIN s[2].items
                PROVE  s[2].items[n] \in Near(x)
     BY <1>1
   <4>1. s[2] \in Parts(x) /\ s[2].items[n] \in Parts(s[2])
     BY <3>2, PartsAre
   <4> QED  BY <4>1 DEF Near, PartsOf
  <3> HIDE DEF op, fs, s
  <3>7. Len(s) = 2 /\ s[2].kind = "list" =>
          [n \in DOMAIN s[2].items |-> f[s[2].items[n]]] = [n \in DOMAIN s[2].items |-> g[s[2].items[n]]]
    BY <3>6, Zenon
  <3> SUFFICES Read(f) = Read(g)  BY <3>3, Zenon
  <3>8. CASE Len(s) = 2 /\ op = "not"  BY <3>4, <3>8 DEF ReadItems
  <3>9. CASE Len(s) = 2 /\ op \in {"and", "or"} /\ s[2].kind = "list"
   <4>1. op # "not" /\ Len(s) = 2  BY <3>9
   <4> QED  BY <3>7, <3>9, <4>1, Zenon DEF ReadItems
  <3>10. CASE Len(s) >= 3 /\ s[2].kind = "string"
   <4>1. Len(s) # 2  BY <3>2, <3>10
   <4> QED  BY <3>5, <3>10, <4>1, Zenon DEF ReadItems
  <3>11. CASE /\ ~(Len(s) = 2 /\ op = "not") /\ ~(Len(s) = 2 /\ op \in {"and", "or"} /\ s[2].kind = "list")
             /\ ~(Len(s) >= 3 /\ s[2].kind = "string")
    BY <3>11, Zenon DEF ReadItems
  <3> HIDE DEF Read
  <3> QED  BY <3>8, <3>9, <3>10, <3>11
 <2> QED  BY <2>1, <2>2
<1>2. ASSUME NEW v, Sound(v)  PROVE Reader!Local(v)
 <2>1. \A x \in Reader!Within(v) : Listing(x)
  <3>1. Reader!Within(v) = Within(v)
    BY Zenon DEF Reader!Within, Within, Reader!PartsOf, PartsOf, Reader!Parts, Parts
  <3> QED  BY <1>2, <3>1 DEF Sound
 <2> QED  BY <1>1, <2>1, SameTrees, Zenon DEF Reader!Local
<1> QED  BY <1>2

\* How it unfolds.
LEMMA ReadUnfolds ==
  ASSUME NEW i, Sound(i)
  PROVE  \E f : (\A y \in Near(i) : f[y] = IpldToPredicate(y)) /\ IpldToPredicate(i) = ReadNode(i, f)
<1> DEFINE f == [y \in Near(i) |-> IpldToPredicate(y)]
<1>1. \A y : Reader!Made(y) = IpldToPredicate(y)
  BY Zenon DEF Reader!Made, Reader!Fold, IpldToPredicate, Fold, Reader!Within, Within, Reader!PartsOf, PartsOf,
               Reader!Parts, Parts
<1>2. \A y \in Near(i) : f[y] = IpldToPredicate(y)  OBVIOUS
<1> HIDE DEF f
<1>3. \A y \in Reader!Near(i) : f[y] = Reader!Made(y)  BY <1>1, <1>2, SameTrees
<1>4. Reader!IsTree(i) /\ Reader!Local(i)  BY SameTrees, ReadLocal DEF Sound
<1>5. IpldToPredicate(i) = ReadNode(i, f)
  BY <1>1, <1>3, <1>4, Reader!FoldUnfolds, IpldAssumption, Zenon
<1> QED  BY <1>2, <1>5

----------------------------------------------------------------------------
(* What this library writes is read                                        *)

\* The conversions of a list are the lists of the conversions.
LEMMA ListsAre ==
  ASSUME NEW s, Tree(List(s))
  PROVE  /\ ToDagCbor(List(s)) = List([n \in DOMAIN s |-> ToDagCbor(s[n])])
         /\ FromDagCbor(List(s)) = List([n \in DOMAIN s |-> FromDagCbor(s[n])])
         /\ Received(List(s)) = List([n \in DOMAIN s |-> Received(s[n])])
<1> DEFINE v == List(s)
<1>1. v.kind = "list" /\ v.items = s  BY DEF List
<1> HIDE DEF v
<1>2. Tree(v)  BY DEF v
<1>3. /\ ToDagCbor(v) = List([n \in DOMAIN s |-> ToDagCbor(s[n])])
      /\ FromDagCbor(v) = List([n \in DOMAIN s |-> FromDagCbor(s[n])])
      /\ Received(v) = List([n \in DOMAIN s |-> Received(s[n])])
  BY <1>1, <1>2, WireIs, ValueIs, ReceivedIs
<1> QED  BY <1>3 DEF v

\* The conversions of pairs and triples.
LEMMA ShortLists ==
  /\ \A a, b : Tree(Two(a, b)) =>
       /\ ToDagCbor(Two(a, b)) = Two(ToDagCbor(a), ToDagCbor(b))
       /\ FromDagCbor(Two(a, b)) = Two(FromDagCbor(a), FromDagCbor(b))
       /\ Received(Two(a, b)) = Two(Received(a), Received(b))
  /\ \A a, b, c : Tree(Three(a, b, c)) =>
       /\ ToDagCbor(Three(a, b, c)) = Three(ToDagCbor(a), ToDagCbor(b), ToDagCbor(c))
       /\ FromDagCbor(Three(a, b, c)) = Three(FromDagCbor(a), FromDagCbor(b), FromDagCbor(c))
       /\ Received(Three(a, b, c)) = Three(Received(a), Received(b), Received(c))
<1>1. ASSUME NEW a, NEW b
      PROVE  /\ [n \in DOMAIN <<a, b>> |-> ToDagCbor(<<a, b>>[n])] = <<ToDagCbor(a), ToDagCbor(b)>>
             /\ [n \in DOMAIN <<a, b>> |-> FromDagCbor(<<a, b>>[n])] = <<FromDagCbor(a), FromDagCbor(b)>>
             /\ [n \in DOMAIN <<a, b>> |-> Received(<<a, b>>[n])] = <<Received(a), Received(b)>>
  OBVIOUS
<1>2. ASSUME NEW a, NEW b, NEW c
      PROVE  /\ [n \in DOMAIN <<a, b, c>> |-> ToDagCbor(<<a, b, c>>[n])] = <<ToDagCbor(a), ToDagCbor(b), ToDagCbor(c)>>
             /\ [n \in DOMAIN <<a, b, c>> |-> FromDagCbor(<<a, b, c>>[n])] = <<FromDagCbor(a), FromDagCbor(b), FromDagCbor(c)>>
             /\ [n \in DOMAIN <<a, b, c>> |-> Received(<<a, b, c>>[n])] = <<Received(a), Received(b), Received(c)>>
  OBVIOUS
<1> QED  BY <1>1, <1>2, ListsAre DEF Two, Three

\* Names and strings are sound and the same on either side.
LEMMA TextIs ==
  /\ \A s : Sound(Str(s)) /\ ToDagCbor(Str(s)) = Str(s) /\ FromDagCbor(Str(s)) = Str(s) /\ Received(Str(s)) = Str(s)
  /\ \A op : Sound(Op(op)) /\ ToDagCbor(Op(op)) = Op(op) /\ FromDagCbor(Op(op)) = Op(op) /\ Received(Op(op)) = Op(op)
  /\ \A s : Str(s).kind = "string" /\ Str(s).text = s
  /\ \A op : Op(op).kind = "string" /\ NameOf(Op(op)) = op
  /\ \A x, y : Op(x) = Op(y) => x = y
<1>1. \A v : v.kind = "string" => Sound(v) /\ ToDagCbor(v) = v /\ FromDagCbor(v) = v /\ Received(v) = v
  BY LeafSound, WireIs, ValueIs, ReceivedIs DEF Sound
<1>2. \A s : Str(s).kind = "string" /\ Str(s).text = s  BY DEF Str
<1>3. \A op : Op(op).kind = "string" /\ NameOf(Op(op)) = op  BY DEF NameOf, Op, Str
<1>4. \A x, y : Op(x) = Op(y) => x = y
 <2> TAKE x, y
 <2>1. NameOf(Op(x)) = x /\ NameOf(Op(y)) = y  BY <1>3
 <2> QED  BY <2>1
<1> QED  BY <1>1, <1>2, <1>3, <1>4

\* So are the lists that begin with them, but for what follows.
LEMMA TaggedIs ==
  /\ \A a, b, c : Two(a, b).kind = "list" /\ Three(a, b, c).kind = "list"
  /\ \A op, v : Sound(v) => Sound(Two(Op(op), v))
  /\ \A op, t, v : Sound(v) => Sound(Three(Op(op), Str(t), v))
  /\ \A op, v : Tree(Two(Op(op), v)) =>
       /\ ToDagCbor(Two(Op(op), v)) = Two(Op(op), ToDagCbor(v))
       /\ FromDagCbor(Two(Op(op), v)) = Two(Op(op), FromDagCbor(v))
       /\ Received(Two(Op(op), v)) = Two(Op(op), Received(v))
  /\ \A op, t, v : Tree(Three(Op(op), Str(t), v)) =>
       /\ ToDagCbor(Three(Op(op), Str(t), v)) = Three(Op(op), Str(t), ToDagCbor(v))
       /\ FromDagCbor(Three(Op(op), Str(t), v)) = Three(Op(op), Str(t), FromDagCbor(v))
       /\ Received(Three(Op(op), Str(t), v)) = Three(Op(op), Str(t), Received(v))
<1>1. \A a, b, c : Two(a, b).kind = "list" /\ Three(a, b, c).kind = "list"  BY DEF Two, Three, List
<1>2. /\ \A op, v : Sound(v) => Sound(Two(Op(op), v))
      /\ \A op, t, v : Sound(v) => Sound(Three(Op(op), Str(t), v))
  BY TextIs, SoundPairs
<1>3. \A op, v : Tree(Two(Op(op), v)) =>
       /\ ToDagCbor(Two(Op(op), v)) = Two(Op(op), ToDagCbor(v))
       /\ FromDagCbor(Two(Op(op), v)) = Two(Op(op), FromDagCbor(v))
       /\ Received(Two(Op(op), v)) = Two(Op(op), Received(v))
  BY TextIs, ShortLists
<1>4. \A op, t, v : Tree(Three(Op(op), Str(t), v)) =>
       /\ ToDagCbor(Three(Op(op), Str(t), v)) = Three(Op(op), Str(t), ToDagCbor(v))
       /\ FromDagCbor(Three(Op(op), Str(t), v)) = Three(Op(op), Str(t), FromDagCbor(v))
       /\ Received(Three(Op(op), Str(t), v)) = Three(Op(op), Str(t), Received(v))
  BY TextIs, ShortLists
<1> QED  BY <1>1, <1>2, <1>3, <1>4

\* How predicates are written.
LEMMA IpldIs ==
  ASSUME NEW p \in Predicate
  PROVE  /\ p.op \in {"==", "like"} \cup Orderings =>
              PredicateToIpld[p] = Three(Op(p.op), Str(ToString(p.select)), p.value)
         /\ p.op = "not" /\ p.inner.op = "==" =>
              PredicateToIpld[p] = Three(Op("!="), Str(ToString(p.inner.select)), p.inner.value)
         /\ p.op = "not" /\ p.inner.op # "==" => PredicateToIpld[p] = Two(Op("not"), PredicateToIpld[p.inner])
         /\ p.op \in {"and", "or"} =>
              PredicateToIpld[p] = Two(Op(p.op), List([n \in DOMAIN p.inner |-> PredicateToIpld[p.inner[n]]]))
         /\ p.op \in {"all", "any"} =>
              PredicateToIpld[p] = Three(Op(p.op), Str(ToString(p.select)), PredicateToIpld[p.inner])
<1>1. PredicateToIpld[p] = IpldBody(p, PredicateToIpld)  BY BodiesUnfold
<1>2. CASE p.op \in {"==", "like"} \cup Orderings
 <2>1. p.op \notin {"not", "and", "or", "all", "any"}  BY <1>2 DEF Orderings
 <2> QED  BY <1>1, <1>2, <2>1, Zenon DEF IpldBody, Two, Three
<1>3. CASE p.op = "not"
 <2>1. p.op \notin {"==", "like"} \cup Orderings /\ p.op \notin {"and", "or", "all", "any"}
   BY <1>3 DEF Orderings
 <2> QED  BY <1>1, <1>3, <2>1 DEF IpldBody, Two, Three
<1>4. CASE p.op \in {"and", "or"}
 <2>1. p.op \notin {"==", "like"} \cup Orderings /\ p.op \notin {"not", "all", "any"}
   BY <1>4 DEF Orderings
 <2> QED  BY <1>1, <1>4, <2>1 DEF IpldBody, Two, Three
<1>5. CASE p.op \in {"all", "any"}
 <2>1. p.op \notin {"==", "like"} \cup Orderings /\ p.op \notin {"not", "and", "or"}
   BY <1>5 DEF Orderings
 <2> QED  BY <1>1, <1>5, <2>1 DEF IpldBody, Two, Three
<1> QED  BY <1>2, <1>3, <1>4, <1>5, PredicateKinds

\* The operators are what they are.
LEMMA OpsDiffer ==
  ASSUME NEW p \in Predicate
  PROVE  /\ p.op \in Compares \/ p.op = "not" \/ p.op \in {"and", "or"} \/ p.op \in {"all", "any"}
         /\ p.op \in Compares => p.op \notin {"not", "and", "or", "all", "any", "!=", "unknown"}
BY PredicateKinds DEF Compares, Orderings


\* What one is with another operand, and with others in it.
LEMMA RemadeIs ==
  ASSUME NEW p \in Predicate, NEW w, NEW f
  PROVE  /\ p.op \in Compares => Remade(p, w, f) = Compare(p.op, p.select, w)
         /\ p.op = "not" => Remade(p, w, f) = Not(f[p.inner])
         /\ p.op \in {"and", "or"} => Remade(p, w, f) = Connect(p.op, [n \in DOMAIN p.inner |-> f[p.inner[n]]])
         /\ p.op \in {"all", "any"} => Remade(p, w, f) = Quantifier(p.op, p.select, f[p.inner])
<1>1. /\ \A op, fs, v, x : [Compare(op, fs, v) EXCEPT !.value = x] = Compare(op, fs, x)
      /\ \A q, x : [Not(q) EXCEPT !.inner = x] = Not(x)
      /\ \A op, q, x : [Connect(op, q) EXCEPT !.inner = x] = Connect(op, x)
      /\ \A op, fs, q, x : [Quantifier(op, fs, q) EXCEPT !.inner = x] = Quantifier(op, fs, x)
  BY DEF Compare, Not, Connect, Quantifier
<1>2. CASE p.op \in Compares
 <2>1. Remade(p, w, f) = [p EXCEPT !.value = w]  BY <1>2, OpsDiffer DEF Remade
 <2>2. p = Compare(p.op, p.select, p.value)  BY <1>2, PredicateKinds DEF Compares
 <2> QED  BY <1>1, <1>2, <2>1, <2>2, OpsDiffer
<1>3. CASE p.op = "not"
 <2>1. Remade(p, w, f) = [p EXCEPT !.inner = f[p.inner]] /\ p = Not(p.inner)
   BY <1>3, PredicateKinds DEF Remade
 <2> QED  BY <1>1, <1>3, <2>1, OpsDiffer
<1>4. CASE p.op \in {"and", "or"}
 <2>1. Remade(p, w, f) = [p EXCEPT !.inner = [n \in DOMAIN p.inner |-> f[p.inner[n]]]] /\ p = Connect(p.op, p.inner)
   BY <1>4, PredicateKinds DEF Remade
 <2> QED  BY <1>1, <1>4, <2>1, OpsDiffer
<1>5. CASE p.op \in {"all", "any"}
 <2>1. Remade(p, w, f) = [p EXCEPT !.inner = f[p.inner]] /\ p = Quantifier(p.op, p.select, p.inner)
   BY <1>5, PredicateKinds DEF Remade
 <2> QED  BY <1>1, <1>5, <2>1, OpsDiffer
<1> QED  BY <1>2, <1>3, <1>4, <1>5, OpsDiffer

\* And the parts of it.
LEMMA RemadeParts ==
  ASSUME NEW p \in Predicate, NEW w, NEW f, NEW m, m = Remade(p, w, f)
  PROVE  /\ m.op = p.op
         /\ p.op \notin {"not", "and", "or"} => m.select = p.select
         /\ p.op \in Compares => m.value = w
         /\ p.op \in {"not", "all", "any"} => m.inner = f[p.inner]
         /\ p.op \in {"and", "or"} => m.inner = [n \in DOMAIN p.inner |-> f[p.inner[n]]]
<1>1. /\ \A op, fs, v : Compare(op, fs, v).op = op /\ Compare(op, fs, v).select = fs /\ Compare(op, fs, v).value = v
      /\ \A q : Not(q).op = "not" /\ Not(q).inner = q
      /\ \A op, s : Connect(op, s).op = op /\ Connect(op, s).inner = s
      /\ \A op, fs, q : Quantifier(op, fs, q).op = op /\ Quantifier(op, fs, q).select = fs
                        /\ Quantifier(op, fs, q).inner = q
  BY DEF Compare, Not, Connect, Quantifier
<1>2. CASE p.op \in Compares  BY <1>1, <1>2, RemadeIs, OpsDiffer
<1>3. CASE p.op = "not"
 <2>1. m = Not(f[p.inner])  BY <1>3, RemadeIs
 <2> QED  BY <1>1, <1>3, <2>1, OpsDiffer
<1>4. CASE p.op \in {"and", "or"}
 <2> DEFINE s == [n \in DOMAIN p.inner |-> f[p.inner[n]]]
 <2>1. m = Connect(p.op, s)  BY <1>4, RemadeIs
 <2> HIDE DEF s
 <2>2. m.op = p.op /\ m.inner = s  BY <1>1, <2>1
 <2> QED  BY <1>4, <2>2, OpsDiffer DEF s
<1>5. CASE p.op \in {"all", "any"}  BY <1>1, <1>5, RemadeIs, OpsDiffer
<1> QED  BY <1>2, <1>3, <1>4, <1>5, OpsDiffer

\* What the decoder makes of one.
LEMMA DecodedIs ==
  ASSUME NEW p \in Predicate
  PROVE  /\ p.op \in Compares => Decoded[p] = Compare(p.op, p.select, Emptied(Received(p.value)))
         /\ p.op = "not" => Decoded[p] = Not(Decoded[p.inner])
         /\ p.op \in {"and", "or"} => Decoded[p] = Connect(p.op, [n \in DOMAIN p.inner |-> Decoded[p.inner[n]]])
         /\ p.op \in {"all", "any"} => Decoded[p] = Quantifier(p.op, p.select, Decoded[p.inner])
<1>1. Decoded[p] = Remade(p, Emptied(Received(p.value)), Decoded)  BY BodiesUnfold
<1> QED  BY <1>1, RemadeIs

\* The parts of a pair are its two.
LEMMA PairParts == \A a, b : Tree(Two(a, b)) => Tree(b)
<1> TAKE a, b
<1> HAVE Tree(Two(a, b))
<1> DEFINE v == Two(a, b)
<1>1. v.kind = "list" /\ v.items = <<a, b>>  BY DEF Two, List
<1> HIDE DEF v
<1>2. 2 \in DOMAIN v.items /\ v.items[2] = b  BY <1>1
<1>3. b \in Parts(v)  BY <1>1, <1>2, PartsAre
<1>4. Tree(v)  BY DEF v
<1> QED  BY <1>3, <1>4, NearTrees

\* What is written of a predicate is a sound list.
LEMMA IpldSound == \A p \in Predicate : Sound(PredicateToIpld[p]) /\ PredicateToIpld[p].kind = "list"
<1> DEFINE T == {p \in Predicate : Sound(PredicateToIpld[p]) /\ PredicateToIpld[p].kind = "list"}
<1>1. Size \in [Predicate -> Nat]  BY PredicatesAssumption
<1>2. ASSUME NEW p \in Predicate, \A q \in Predicate : Size[q] < Size[p] => q \in T
      PROVE  p \in T
 <2>1. \A q : Lower(p, q) => Sound(PredicateToIpld[q])  BY <1>2 DEF Lower
 <2> SUFFICES Sound(PredicateToIpld[p]) /\ PredicateToIpld[p].kind = "list"  OBVIOUS
 <2>2. CASE p.op \in Compares
  <3>1. PredicateToIpld[p] = Three(Op(p.op), Str(ToString(p.select)), p.value) /\ p.value \in Data
    BY <2>2, IpldIs, PredicateKinds DEF Compares
  <3>2. Sound(p.value)  BY <3>1, DataSound
  <3> QED  BY <3>1, <3>2, TaggedIs
 <2>3. CASE p.op = "not" /\ p.inner.op = "=="
  <3>1. p.inner \in Predicate  BY <2>3, PredicateKinds DEF Lower
  <3>2. p.inner.value \in Data  BY <2>3, <3>1, PredicateKinds
  <3>3. PredicateToIpld[p] = Three(Op("!="), Str(ToString(p.inner.select)), p.inner.value)
    BY <2>3, IpldIs
  <3>4. Sound(p.inner.value)  BY <3>2, DataSound
  <3> QED  BY <3>3, <3>4, TaggedIs
 <2>4. CASE p.op = "not" /\ p.inner.op # "=="
  <3>1. PredicateToIpld[p] = Two(Op("not"), PredicateToIpld[p.inner])
    BY <2>4, IpldIs
  <3>2. Sound(PredicateToIpld[p.inner])  BY <2>1, <2>4, PredicateKinds
  <3> QED  BY <3>1, <3>2, TaggedIs
 <2>5. CASE p.op \in {"and", "or"}
  <3> DEFINE s == [n \in DOMAIN p.inner |-> PredicateToIpld[p.inner[n]]]
  <3>1. p.inner \in Seq(Predicate) /\ \A n \in DOMAIN p.inner : Lower(p, p.inner[n])
    BY <2>5, PredicateKinds
  <3>2. Len(p.inner) \in Nat /\ DOMAIN p.inner = 1..Len(p.inner)  BY <3>1
  <3>3. s \in Seq({s[n] : n \in DOMAIN s}) /\ \A n \in DOMAIN s : Sound(s[n])
    BY <2>1, <3>1, <3>2
  <3> HIDE DEF s
  <3>4. Sound(List(s))  BY <3>3, SoundLists
  <3>5. PredicateToIpld[p] = Two(Op(p.op), List(s))  BY <2>5, IpldIs DEF s
  <3> QED  BY <3>4, <3>5, TaggedIs
 <2>6. CASE p.op \in {"all", "any"}
  <3>1. PredicateToIpld[p] = Three(Op(p.op), Str(ToString(p.select)), PredicateToIpld[p.inner])
    BY <2>6, IpldIs
  <3>2. Sound(PredicateToIpld[p.inner])  BY <2>1, <2>6, PredicateKinds
  <3> QED  BY <3>1, <3>2, TaggedIs
 <2> QED  BY <2>2, <2>3, <2>4, <2>5, <2>6, OpsDiffer
<1>3. Predicate \subseteq T
 <2> HIDE DEF T
 <2> QED  BY <1>1, <1>2, RankInduction
<1> QED  BY <1>3

\* How predicates are in DAG-CBOR, and when it has been read: the same, but for
\* their numbers.
LEMMA Forms ==
  ASSUME NEW p \in Predicate
  PROVE  /\ p.op \in Compares =>
              /\ ToDagCbor(PredicateToIpld[p]) = Three(Op(p.op), Str(ToString(p.select)), ToDagCbor(p.value))
              /\ Received(PredicateToIpld[p]) = Three(Op(p.op), Str(ToString(p.select)), Received(p.value))
         /\ p.op = "not" /\ p.inner.op = "==" =>
              /\ ToDagCbor(PredicateToIpld[p]) = Three(Op("!="), Str(ToString(p.inner.select)), ToDagCbor(p.inner.value))
              /\ Received(PredicateToIpld[p]) = Three(Op("!="), Str(ToString(p.inner.select)), Received(p.inner.value))
         /\ p.op = "not" /\ p.inner.op # "==" =>
              /\ ToDagCbor(PredicateToIpld[p]) = Two(Op("not"), ToDagCbor(PredicateToIpld[p.inner]))
              /\ Received(PredicateToIpld[p]) = Two(Op("not"), Received(PredicateToIpld[p.inner]))
         /\ p.op \in {"and", "or"} =>
              /\ ToDagCbor(PredicateToIpld[p]) =
                   Two(Op(p.op), List([n \in DOMAIN p.inner |-> ToDagCbor(PredicateToIpld[p.inner[n]])]))
              /\ Received(PredicateToIpld[p]) =
                   Two(Op(p.op), List([n \in DOMAIN p.inner |-> Received(PredicateToIpld[p.inner[n]])]))
         /\ p.op \in {"all", "any"} =>
              /\ ToDagCbor(PredicateToIpld[p]) =
                   Three(Op(p.op), Str(ToString(p.select)), ToDagCbor(PredicateToIpld[p.inner]))
              /\ Received(PredicateToIpld[p]) =
                   Three(Op(p.op), Str(ToString(p.select)), Received(PredicateToIpld[p.inner]))
<1>1. Tree(PredicateToIpld[p])  BY IpldSound DEF Sound
<1>2. CASE p.op \in Compares
 <2>1. PredicateToIpld[p] = Three(Op(p.op), Str(ToString(p.select)), p.value)
   BY <1>2, IpldIs DEF Compares
 <2>2. /\ ToDagCbor(PredicateToIpld[p]) = Three(Op(p.op), Str(ToString(p.select)), ToDagCbor(p.value))
       /\ Received(PredicateToIpld[p]) = Three(Op(p.op), Str(ToString(p.select)), Received(p.value))
   BY <1>1, <2>1, TaggedIs
 <2> QED  BY <1>2, <2>2, OpsDiffer
<1>3. CASE p.op = "not" /\ p.inner.op = "=="
 <2>1. PredicateToIpld[p] = Three(Op("!="), Str(ToString(p.inner.select)), p.inner.value)
   BY <1>3, IpldIs
 <2>2. /\ ToDagCbor(PredicateToIpld[p]) = Three(Op("!="), Str(ToString(p.inner.select)), ToDagCbor(p.inner.value))
       /\ Received(PredicateToIpld[p]) = Three(Op("!="), Str(ToString(p.inner.select)), Received(p.inner.value))
   BY <1>1, <2>1, TaggedIs
 <2> QED  BY <1>3, <2>2, OpsDiffer
<1>4. CASE p.op = "not" /\ p.inner.op # "=="
 <2>1. PredicateToIpld[p] = Two(Op("not"), PredicateToIpld[p.inner])
   BY <1>4, IpldIs
 <2>2. /\ ToDagCbor(PredicateToIpld[p]) = Two(Op("not"), ToDagCbor(PredicateToIpld[p.inner]))
       /\ Received(PredicateToIpld[p]) = Two(Op("not"), Received(PredicateToIpld[p.inner]))
   BY <1>1, <2>1, TaggedIs
 <2> QED  BY <1>4, <2>2, OpsDiffer
<1>5. CASE p.op \in {"and", "or"}
 <2> DEFINE s == [n \in DOMAIN p.inner |-> PredicateToIpld[p.inner[n]]]
 <2>1. PredicateToIpld[p] = Two(Op(p.op), List(s))  BY <1>5, IpldIs
 <2>2. /\ [n \in DOMAIN s |-> ToDagCbor(s[n])] = [n \in DOMAIN p.inner |-> ToDagCbor(PredicateToIpld[p.inner[n]])]
       /\ [n \in DOMAIN s |-> Received(s[n])] = [n \in DOMAIN p.inner |-> Received(PredicateToIpld[p.inner[n]])]
   BY Zenon
 <2> HIDE DEF s
 <2>3. Tree(List(s))  BY <1>1, <2>1, PairParts
 <2>4. /\ ToDagCbor(List(s)) = List([n \in DOMAIN s |-> ToDagCbor(s[n])])
       /\ Received(List(s)) = List([n \in DOMAIN s |-> Received(s[n])])
   BY <2>3, ListsAre
 <2>5. /\ ToDagCbor(PredicateToIpld[p]) = Two(Op(p.op), ToDagCbor(List(s)))
       /\ Received(PredicateToIpld[p]) = Two(Op(p.op), Received(List(s)))
   BY <1>1, <2>1, TaggedIs
 <2> QED  BY <1>5, <2>2, <2>4, <2>5, OpsDiffer
<1>6. CASE p.op \in {"all", "any"}
 <2>1. PredicateToIpld[p] = Three(Op(p.op), Str(ToString(p.select)), PredicateToIpld[p.inner])
   BY <1>6, IpldIs
 <2>2. /\ ToDagCbor(PredicateToIpld[p]) = Three(Op(p.op), Str(ToString(p.select)), ToDagCbor(PredicateToIpld[p.inner]))
       /\ Received(PredicateToIpld[p]) = Three(Op(p.op), Str(ToString(p.select)), Received(PredicateToIpld[p.inner]))
   BY <1>1, <2>1, TaggedIs
 <2> QED  BY <1>6, <2>2, OpsDiffer
<1> QED  BY <1>2, <1>3, <1>4, <1>5, <1>6, OpsDiffer

\* They are sound lists, too.
LEMMA BackSound ==
  \A p \in Predicate :
    Sound(Received(PredicateToIpld[p])) /\ Received(PredicateToIpld[p]).kind = "list" /\ ToDagCbor(PredicateToIpld[p]).kind = "list"
<1> TAKE p \in Predicate
<1> DEFINE i == PredicateToIpld[p]
<1>1. Sound(i) /\ i.kind = "list"  BY IpldSound
<1> HIDE DEF i
<1>2. Sound(ToDagCbor(i)) /\ Sound(Received(i)) /\ Tree(i) /\ Tree(ToDagCbor(i))
  BY <1>1, WireSound, ValueSound DEF Received, Sound
<1>3. ToDagCbor(i).kind = "list" /\ Received(i).kind = "list"
  BY <1>1, <1>2, WireShape, ValueShape DEF SameShape, Received
<1> QED  BY <1>2, <1>3 DEF i

\* How a list of two is read, and one of three or more.
LEMMA ReadTwo ==
  ASSUME NEW op, NEW v, Sound(Two(Op(op), v))
  PROVE  /\ op = "not" => IpldToPredicate(Two(Op(op), v)) = ReadNot(IpldToPredicate(v))
         /\ op \in {"and", "or"} /\ v.kind = "list" =>
              IpldToPredicate(Two(Op(op), v)) = ReadMany(op, [n \in DOMAIN v.items |-> IpldToPredicate(v.items[n])])
         /\ op \in {"and", "or"} /\ v.kind # "list" => IpldToPredicate(Two(Op(op), v)) = <<>>
         /\ op \notin {"not", "and", "or"} => IpldToPredicate(Two(Op(op), v)) = <<>>
<1> DEFINE s == <<Op(op), v>>
           x == Two(Op(op), v)
           fs == Parse(s[2].text)
<1>1. PICK f : (\A y \in Near(x) : f[y] = IpldToPredicate(y)) /\ IpldToPredicate(x) = ReadNode(x, f)
  BY ReadUnfolds
<1>2. x.kind = "list" /\ x.items = s  BY DEF Two, List
<1>3. s # <<>> /\ Len(s) = 2 /\ ~(Len(s) >= 3) /\ s[1] = Op(op) /\ s[2] = v /\ 2 \in DOMAIN s  OBVIOUS
<1> HIDE DEF s, x
<1>4. IpldToPredicate(x) = ReadItems(s, op, fs, f)  BY <1>1, <1>2, <1>3, TextIs, ReadNodeIs
<1>5. v \in Parts(x)  BY <1>2, <1>3, PartsAre
<1>6. f[v] = IpldToPredicate(v)  BY <1>1, <1>5 DEF Near
<1>7. v.kind = "list" => [n \in DOMAIN v.items |-> f[v.items[n]]] = [n \in DOMAIN v.items |-> IpldToPredicate(v.items[n])]
 <2> HAVE v.kind = "list"
 <2>1. \A n \in DOMAIN v.items : v.items[n] \in Near(x)  BY <1>5, PartsAre DEF Near, PartsOf
 <2> QED  BY <1>1, <2>1, Zenon
<1> HIDE DEF fs
<1>8. CASE op = "not"  BY <1>3, <1>4, <1>6, <1>8 DEF ReadItems, x
<1>9. CASE op \in {"and", "or"} /\ v.kind = "list"
 <2>1. op # "not"  BY <1>9
 <2> QED  BY <1>3, <1>4, <1>7, <1>9, <2>1, Zenon DEF ReadItems, x
<1>10. CASE op # "not" /\ ~(op \in {"and", "or"} /\ v.kind = "list")
 <2>1. ReadItems(s, op, fs, f) = <<>>  BY <1>3, <1>10, Zenon DEF ReadItems
 <2> QED  BY <1>4, <1>10, <2>1 DEF x
<1> QED  BY <1>8, <1>9, <1>10

\* A longer one is a quantifier or a comparison, by its operator.
LEMMA ReadLong ==
  ASSUME NEW op, NEW t, NEW S, NEW s \in Seq(S), Len(s) >= 3, s[1] = Op(op), s[2] = Str(t), Sound(List(s))
  PROVE  IpldToPredicate(List(s)) =
           IF Parse(t) = <<>> THEN <<>>
           ELSE IF op \notin {"all", "any"} THEN ReadTriple(op, Parse(t)[1], Emptied(s[3]))
           ELSE ReadEach(op, Parse(t)[1], IpldToPredicate(s[3]))
<1> DEFINE x == List(s)
<1>1. PICK f : (\A y \in Near(x) : f[y] = IpldToPredicate(y)) /\ IpldToPredicate(x) = ReadNode(x, f)
  BY ReadUnfolds
<1>2. x.kind = "list" /\ x.items = s  BY DEF List
<1>3. s # <<>> /\ Len(s) # 2 /\ 3 \in DOMAIN s  OBVIOUS
<1> HIDE DEF x
<1>4. s[1].kind = "string" /\ NameOf(s[1]) = op /\ s[2].kind = "string" /\ s[2].text = t  BY TextIs
<1>5. IpldToPredicate(x) = ReadItems(s, op, Parse(t), f)  BY <1>1, <1>2, <1>3, <1>4, ReadNodeIs
<1>6. s[3] \in Parts(x)  BY <1>2, <1>3, PartsAre
<1>7. f[s[3]] = IpldToPredicate(s[3])  BY <1>1, <1>6 DEF Near
<1> QED  BY <1>3, <1>4, <1>5, <1>7, Zenon DEF ReadItems, x

\* One of three.
LEMMA ReadThree ==
  ASSUME NEW op, NEW t, NEW v, Sound(Three(Op(op), Str(t), v))
  PROVE  IpldToPredicate(Three(Op(op), Str(t), v)) =
           IF Parse(t) = <<>> THEN <<>>
           ELSE IF op \notin {"all", "any"} THEN ReadTriple(op, Parse(t)[1], Emptied(v))
           ELSE ReadEach(op, Parse(t)[1], IpldToPredicate(v))
<1> DEFINE s == <<Op(op), Str(t), v>>
<1>1. s \in Seq({Op(op), Str(t), v}) /\ Len(s) >= 3 /\ s[1] = Op(op) /\ s[2] = Str(t) /\ s[3] = v
  OBVIOUS
<1>2. Three(Op(op), Str(t), v) = List(s)  BY DEF Three
<1> HIDE DEF s
<1>3. Sound(List(s))  BY <1>2
<1> QED  BY <1>1, <1>2, <1>3, ReadLong

\* A comparison with a value of the same kind is read.
LEMMA ReadCompares ==
  ASSUME NEW op \in Compares, NEW fs, NEW v, op = "like" => v.kind = "string", op \in Orderings => IsNumber(v)
  PROVE  ReadTriple(op, fs, v) = <<Compare(op, fs, v)>> /\ ReadTriple("!=", fs, v) = <<Not(Compare("==", fs, v))>>
BY DEF ReadTriple, ReadCompare, Compares, Orderings

\* What is received is of the kind that was sent, unless it is a bigint.
LEMMA ReceivedKinds ==
  ASSUME NEW v \in Data
  PROVE  /\ Received(v) \in Data
         /\ IsNumber(v) => IsNumber(Received(v))
         /\ ~IsNumber(v) => Received(v).kind = v.kind
<1>1. Tree(v) /\ v.kind \notin {"int", "float"}
 <2>1. IsValue(v)  BY DataAssumption
 <2> QED  BY <2>1, DataTrees DEF IsValue
<1> DEFINE r == Received(v)
<1>2. \A h, x, y : Number(h).kind = "number" /\ List(x).kind = "list" /\ MapOf(x, y).kind = "map"
  BY DEF Number, List, MapOf
<1> HIDE DEF r
<1>3. CASE IsNumber(v)
 <2>1. r = Number(v.halves) \/ r = [kind |-> "bigint", halves |-> v.halves]
   BY <1>1, <1>3, ReceivedIs DEF IsNumber, r
 <2>2. r.kind \in {"number", "bigint"}  BY <1>2, <2>1
 <2> QED  BY <1>3, <2>2, PolicyAssumption DEF IsNumber, r
<1>4. CASE v.kind = "list"
 <2>1. r.kind = "list"  BY <1>2, <1>1, <1>4, ReceivedIs, Zenon DEF r
 <2> QED  BY <1>4, <2>1, PolicyAssumption DEF IsNumber, r
<1>5. CASE v.kind = "map"
 <2>1. r = MapOf([k \in DOMAIN v.entries |-> Received(v.entries[k])], Sorted(DOMAIN v.entries))
   BY <1>1, <1>5, ReceivedIs DEF r
 <2>2. r.kind = "map"  BY <1>2, <2>1, Zenon
 <2> QED  BY <1>5, <2>2, PolicyAssumption DEF IsNumber, r
<1>6. CASE v.kind \notin {"number", "bigint", "list", "map"}
  BY <1>1, <1>6, ReceivedIs, PolicyAssumption DEF IsNumber, r
<1> QED  BY <1>3, <1>4, <1>5, <1>6 DEF IsNumber, r

\* The selector of a predicate is read as it is, if at all.
LEMMA SelectReads ==
  ASSUME NEW p \in Predicate, p.op \notin {"not", "and", "or"}
  PROVE  /\ Parse(ToString(p.select)) \in {<<>>, <<p.select>>}
         /\ SelectorsReadable => Parse(ToString(p.select)) = <<p.select>>
<1>1. p.select \in Seq(Filter)  BY PredicateKinds
<1> QED  BY <1>1, ParseReads DEF SelectorsReadable

\* A predicate is read as it was written, but for its numbers and maps, if at all.
LEMMA ReadBack == \A p \in Predicate : Reads(p, IpldToPredicate(Received(PredicateToIpld[p])))
<1> DEFINE T == {p \in Predicate : Reads(p, IpldToPredicate(Received(PredicateToIpld[p])))}
<1>1. Size \in [Predicate -> Nat]  BY PredicatesAssumption
<1>2. ASSUME NEW p \in Predicate, \A q \in Predicate : Size[q] < Size[p] => q \in T
      PROVE  p \in T
 <2>1. \A q : Lower(p, q) => Reads(q, IpldToPredicate(Received(PredicateToIpld[q])))
   BY <1>2 DEF Lower
 <2> DEFINE r == IpldToPredicate(Received(PredicateToIpld[p]))
 <2> SUFFICES Reads(p, r)  OBVIOUS
 <2>2. Sound(Received(PredicateToIpld[p]))  BY BackSound
 <2>3. CASE p.op \in Compares
  <3> DEFINE u == Received(p.value)
             w == Emptied(u)
             t == ToString(p.select)
  <3>1. p.op \notin {"not", "and", "or", "all", "any"}  BY <2>3, OpsDiffer
  <3>2. p.value \in Data /\ (p.op = "like" => p.value.kind = "string") /\ (p.op \in Orderings => IsNumber(p.value))
    BY <2>3, PredicateKinds DEF Compares
  <3>3. (p.op = "like" => w.kind = "string") /\ (p.op \in Orderings => IsNumber(w))
   <4>1. p.value.kind = "string" => ~IsNumber(p.value)  BY DEF IsNumber
   <4>2. (p.op = "like" => u.kind = "string") /\ (p.op \in Orderings => IsNumber(u))
     BY <3>2, <4>1, ReceivedKinds
   <4>3. u \in Data  BY <3>2, ReceivedKinds
   <4> HIDE DEF u
   <4>4. Tree(u)  BY <4>3, DataTrees
   <4>5. u.kind \notin {"list", "map"} => w = u  BY <4>4, EmptiedIs
   <4> QED  BY <4>2, <4>5 DEF IsNumber
  <3>4. Received(PredicateToIpld[p]) = Three(Op(p.op), Str(t), u)
    BY <2>3, Forms
  <3>5. Decoded[p] = Compare(p.op, p.select, w)  BY <2>3, DecodedIs DEF Compares
  <3> HIDE DEF u, t
  <3>6. r = IF Parse(t) = <<>> THEN <<>> ELSE ReadTriple(p.op, Parse(t)[1], w)
    BY <2>2, <3>1, <3>4, ReadThree
  <3> HIDE DEF w
  <3>7. ReadTriple(p.op, p.select, w) = <<Decoded[p]>>
    BY <2>3, <3>3, <3>5, ReadCompares
  <3>8. Parse(t) \in {<<>>, <<p.select>>} /\ (SelectorsReadable => Parse(t) = <<p.select>>)
    BY <3>1, SelectReads DEF t
  <3>9. <<p.select>>[1] = p.select /\ <<p.select>> # <<>> /\ <<Decoded[p]>> # <<>>
    OBVIOUS
  <3> HIDE DEF r
  <3> QED  BY <3>6, <3>7, <3>8, <3>9, Zenon DEF Reads
 <2>4. CASE p.op = "not" /\ p.inner.op = "=="
  <3> DEFINE q == p.inner
             u == Received(q.value)
             w == Emptied(u)
             t == ToString(q.select)
  <3>1. q \in Predicate /\ q.op = "=="  BY <2>4, PredicateKinds DEF Lower
  <3>2. Received(PredicateToIpld[p]) = Three(Op("!="), Str(t), u)
    BY <2>4, Forms
  <3>3. Decoded[p] = Not(Compare("==", q.select, w))
   <4>1. Decoded[p] = Not(Decoded[q])  BY <2>4, DecodedIs
   <4>2. q.op \in Compares  BY <3>1 DEF Compares
   <4>3. Decoded[q] = Compare(q.op, q.select, w)  BY <3>1, <4>2, DecodedIs
   <4> QED  BY <3>1, <4>1, <4>3
  <3> HIDE DEF q, u, t
  <3>4. r = IF Parse(t) = <<>> THEN <<>> ELSE ReadTriple("!=", Parse(t)[1], w)
    BY <2>2, <3>2, ReadThree
  <3> HIDE DEF w
  <3>5. ReadTriple("!=", q.select, w) = <<Decoded[p]>>
   <4>1. ReadTriple("!=", q.select, w) = <<Not(Compare("==", q.select, w))>>
     BY DEF ReadTriple, ReadCompare, Orderings
   <4> QED  BY <3>3, <4>1
  <3>6. Parse(t) \in {<<>>, <<q.select>>} /\ (SelectorsReadable => Parse(t) = <<q.select>>)
    BY <3>1, SelectReads DEF t
  <3>7. <<q.select>>[1] = q.select /\ <<q.select>> # <<>> /\ <<Decoded[p]>> # <<>>
    OBVIOUS
  <3> HIDE DEF r
  <3> QED  BY <3>4, <3>5, <3>6, <3>7, Zenon DEF Reads
 <2>5. CASE p.op = "not" /\ p.inner.op # "=="
  <3> DEFINE q == p.inner
             i == IpldToPredicate(Received(PredicateToIpld[q]))
  <3>1. Received(PredicateToIpld[p]) = Two(Op("not"), Received(PredicateToIpld[q]))
    BY <2>5, Forms
  <3>2. r = ReadNot(i)
   <4> DEFINE v == Received(PredicateToIpld[q])
              o == "not"
   <4>1. Received(PredicateToIpld[p]) = Two(Op(o), v)  BY <3>1
   <4> HIDE DEF v, o
   <4>2. Sound(Two(Op(o), v))  BY <2>2, <4>1
   <4>3. o = "not" => IpldToPredicate(Two(Op(o), v)) = ReadNot(IpldToPredicate(v))
     BY <4>2, ReadTwo
   <4> QED  BY <4>1, <4>3, Zenon DEF o, v
  <3>3. Reads(q, i)  BY <2>1, <2>5, PredicateKinds
  <3>4. Decoded[p] = Not(Decoded[q])  BY <2>5, DecodedIs
  <3> HIDE DEF r, q, i
  <3> QED  BY <3>2, <3>3, <3>4 DEF Reads, ReadNot
 <2>6. CASE p.op \in {"and", "or"}
  <3> DEFINE s == [n \in DOMAIN p.inner |-> Received(PredicateToIpld[p.inner[n]])]
             v == List(s)
             i == [n \in DOMAIN p.inner |-> IpldToPredicate(Received(PredicateToIpld[p.inner[n]]))]
             m == [n \in DOMAIN p.inner |-> Decoded[p.inner[n]]]
  <3>1. Received(PredicateToIpld[p]) = Two(Op(p.op), v)  BY <2>6, Forms
  <3>2. v.kind = "list" /\ v.items = s  BY DEF List
  <3>3. [n \in DOMAIN s |-> IpldToPredicate(s[n])] = i  BY Zenon
  <3>4. Decoded[p] = Connect(p.op, m)  BY <2>6, DecodedIs
  <3>5. \A n \in DOMAIN p.inner : Reads(p.inner[n], i[n]) /\ m[n] = Decoded[p.inner[n]]
    BY <2>1, <2>6, PredicateKinds
  <3>6. DOMAIN i = DOMAIN p.inner /\ m = [n \in DOMAIN p.inner |-> m[n]]
    OBVIOUS
  <3> HIDE DEF s, v, i, m
  <3>7. r = ReadMany(p.op, i)  BY <2>2, <2>6, <3>1, <3>2, <3>3, ReadTwo
  <3>8. CASE \E n \in DOMAIN i : i[n] = <<>>
   <4>1. r = <<>>  BY <3>7, <3>8 DEF ReadMany
   <4>2. ~SelectorsReadable  BY <3>5, <3>6, <3>8 DEF Reads
   <4> QED  BY <4>1, <4>2 DEF Reads
  <3>9. CASE \A n \in DOMAIN i : i[n] # <<>>
   <4>1. \A n \in DOMAIN p.inner : i[n][1] = m[n]
    <5> SUFFICES ASSUME NEW n \in DOMAIN p.inner  PROVE i[n][1] = m[n]
      OBVIOUS
    <5>1. i[n] = <<Decoded[p.inner[n]]>> /\ m[n] = Decoded[p.inner[n]]
      BY <3>5, <3>6, <3>9 DEF Reads
    <5>2. \A x : <<x>>[1] = x  OBVIOUS
    <5> QED  BY <5>1, <5>2, Zenon
   <4>2. [n \in DOMAIN i |-> i[n][1]] = m  BY <3>6, <4>1
   <4>3. r = <<Decoded[p]>>  BY <3>4, <3>7, <3>9, <4>2, Zenon DEF ReadMany
   <4> HIDE DEF r
   <4> QED  BY <4>3 DEF Reads
  <3> QED  BY <3>8, <3>9
 <2>7. CASE p.op \in {"all", "any"}
  <3> DEFINE q == p.inner
             i == IpldToPredicate(Received(PredicateToIpld[q]))
             t == ToString(p.select)
  <3>1. Received(PredicateToIpld[p]) = Three(Op(p.op), Str(t), Received(PredicateToIpld[q]))
    BY <2>7, Forms
  <3>2. r = IF Parse(t) = <<>> THEN <<>> ELSE ReadEach(p.op, Parse(t)[1], i)
    BY <2>2, <2>7, <3>1, ReadThree
  <3>3. Reads(q, i)  BY <2>1, <2>7, PredicateKinds
  <3>4. Decoded[p] = Quantifier(p.op, p.select, Decoded[q])  BY <2>7, DecodedIs
  <3>5. Parse(t) \in {<<>>, <<p.select>>} /\ (SelectorsReadable => Parse(t) = <<p.select>>)
    BY <2>7, SelectReads
  <3>6. <<p.select>>[1] = p.select /\ <<p.select>> # <<>>  OBVIOUS
  <3> HIDE DEF r, q, i, t
  <3>7. Reads(p, ReadEach(p.op, p.select, i))
    BY <3>3, <3>4 DEF Reads, ReadEach
  <3>8. CASE Parse(t) = <<p.select>>
   <4>1. r = ReadEach(p.op, p.select, i)  BY <3>2, <3>6, <3>8
   <4> QED  BY <3>7, <4>1
  <3>9. CASE Parse(t) = <<>>
   <4>1. r = <<>>  BY <3>2, <3>9
   <4>2. ~SelectorsReadable  BY <3>5, <3>6, <3>9
   <4> QED  BY <4>1, <4>2 DEF Reads
  <3> QED  BY <3>5, <3>8, <3>9
 <2> QED  BY <2>3, <2>4, <2>5, <2>6, <2>7, OpsDiffer
<1>3. Predicate \subseteq T
 <2> HIDE DEF T
 <2> QED  BY <1>1, <1>2, RankInduction
<1> QED  BY <1>3

\* The parts of a predicate as its receiver holds it.
LEMMA NormalParts ==
  ASSUME NEW p \in Predicate
  PROVE  /\ Normal[p] \in Predicate /\ Normal[p].op = p.op
         /\ p.op \notin {"not", "and", "or"} => Normal[p].select = p.select
         /\ p.op \in Compares => Normal[p].value = Received(p.value)
         /\ p.op \in {"not", "all", "any"} => Normal[p].inner = Normal[p.inner]
         /\ p.op \in {"and", "or"} => Normal[p].inner = [n \in DOMAIN p.inner |-> Normal[p.inner[n]]]
<1>1. Normal[p] = Remade(p, Received(p.value), Normal)  BY BodiesUnfold
<1> QED  BY <1>1, RemadeParts, PolicyAssumption

\* It is written as the predicate is.
LEMMA WrittenAlike == \A p \in Predicate : ToDagCbor(PredicateToIpld[Normal[p]]) = ToDagCbor(PredicateToIpld[p])
<1> DEFINE T == {p \in Predicate : ToDagCbor(PredicateToIpld[Normal[p]]) = ToDagCbor(PredicateToIpld[p])}
<1>1. Size \in [Predicate -> Nat]  BY PredicatesAssumption
<1>2. ASSUME NEW p \in Predicate, \A q \in Predicate : Size[q] < Size[p] => q \in T
      PROVE  p \in T
 <2>1. \A q : Lower(p, q) => ToDagCbor(PredicateToIpld[Normal[q]]) = ToDagCbor(PredicateToIpld[q])
   BY <1>2 DEF Lower
 <2> DEFINE m == Normal[p]
 <2> SUFFICES ToDagCbor(PredicateToIpld[m]) = ToDagCbor(PredicateToIpld[p])
   OBVIOUS
 <2>2. m \in Predicate /\ m.op = p.op  BY NormalParts
 <2>3. CASE p.op \in Compares
  <3>1. m.select = p.select /\ m.value = Received(p.value) /\ p.value \in Data
    BY <2>3, NormalParts, PredicateKinds, OpsDiffer DEF Compares
  <3> HIDE DEF m
  <3>2. ToDagCbor(m.value) = ToDagCbor(p.value)  BY <3>1, WrittenAgain
  <3>3. ToDagCbor(PredicateToIpld[m]) = Three(Op(p.op), Str(ToString(p.select)), ToDagCbor(m.value))
    BY <2>2, <2>3, <3>1, Forms
  <3> QED  BY <2>3, <3>2, <3>3, Forms
 <2>4. CASE p.op = "not"
  <3> DEFINE q == p.inner
             o == m.inner
  <3>1. o = Normal[q] /\ Lower(p, q)  BY <2>4, NormalParts, PredicateKinds
  <3>2. q \in Predicate /\ o \in Predicate /\ o.op = q.op
    BY <3>1, NormalParts DEF Lower
  <3>3. CASE q.op = "=="
   <4>1. o.select = q.select /\ o.value = Received(q.value) /\ q.value \in Data
    <5>1. Normal[q].select = q.select /\ Normal[q].value = Received(q.value)
      BY <3>2, <3>3, NormalParts DEF Compares
    <5>2. q.value \in Data  BY <3>2, <3>3, PredicateKinds
    <5> HIDE DEF o
    <5> QED  BY <3>1, <5>1, <5>2
   <4>2. ToDagCbor(o.value) = ToDagCbor(q.value)  BY <4>1, WrittenAgain
   <4>3. ToDagCbor(PredicateToIpld[p]) = Three(Op("!="), Str(ToString(q.select)), ToDagCbor(q.value))
     BY <2>4, <3>3, Forms
   <4> HIDE DEF m
   <4>4. ToDagCbor(PredicateToIpld[m]) = Three(Op("!="), Str(ToString(o.select)), ToDagCbor(o.value))
     BY <2>2, <2>4, <3>2, <3>3, Forms
   <4> QED  BY <4>1, <4>2, <4>3, <4>4
  <3>4. CASE q.op # "=="
   <4>1. ToDagCbor(PredicateToIpld[p]) = Two(Op("not"), ToDagCbor(PredicateToIpld[q]))
     BY <2>4, <3>4, Forms
   <4>2. ToDagCbor(PredicateToIpld[o]) = ToDagCbor(PredicateToIpld[q])
     BY <2>1, <3>1
   <4> HIDE DEF m
   <4>3. ToDagCbor(PredicateToIpld[m]) = Two(Op("not"), ToDagCbor(PredicateToIpld[o]))
     BY <2>2, <2>4, <3>2, <3>4, Forms
   <4> QED  BY <4>1, <4>2, <4>3
  <3> QED  BY <3>3, <3>4
 <2>5. CASE p.op \in {"and", "or"}
  <3> DEFINE i == [n \in DOMAIN p.inner |-> ToDagCbor(PredicateToIpld[p.inner[n]])]
  <3>1. m.inner = [n \in DOMAIN p.inner |-> Normal[p.inner[n]]]
    BY <2>5, NormalParts
  <3>2. DOMAIN m.inner = DOMAIN p.inner  BY <3>1
  <3>3. ASSUME NEW n \in DOMAIN p.inner
        PROVE  ToDagCbor(PredicateToIpld[m.inner[n]]) = ToDagCbor(PredicateToIpld[p.inner[n]])
   <4>1. m.inner[n] = Normal[p.inner[n]] /\ Lower(p, p.inner[n])
     BY <2>5, <3>1, PredicateKinds
   <4> QED  BY <2>1, <4>1
  <3> HIDE DEF m
  <3>4. [n \in DOMAIN m.inner |-> ToDagCbor(PredicateToIpld[m.inner[n]])] = i
    BY <3>2, <3>3, Zenon
  <3>5. ToDagCbor(PredicateToIpld[m]) =
          Two(Op(m.op), List([n \in DOMAIN m.inner |-> ToDagCbor(PredicateToIpld[m.inner[n]])]))
    BY <2>2, <2>5, Forms
  <3> QED  BY <2>2, <2>5, <3>4, <3>5, Forms
 <2>6. CASE p.op \in {"all", "any"}
  <3>1. m.select = p.select /\ m.inner = Normal[p.inner] /\ Lower(p, p.inner)
    BY <2>6, NormalParts, PredicateKinds
  <3>2. ToDagCbor(PredicateToIpld[m.inner]) = ToDagCbor(PredicateToIpld[p.inner])
    BY <2>1, <3>1
  <3> HIDE DEF m
  <3>3. ToDagCbor(PredicateToIpld[m]) =
          Three(Op(m.op), Str(ToString(m.select)), ToDagCbor(PredicateToIpld[m.inner]))
    BY <2>2, <2>6, Forms
  <3> QED  BY <2>2, <2>6, <3>1, <3>2, <3>3, Forms
 <2> QED  BY <2>3, <2>4, <2>5, <2>6, OpsDiffer
<1>3. Predicate \subseteq T
 <2> HIDE DEF T
 <2> QED  BY <1>1, <1>2, RankInduction
<1> QED  BY <1>3

----------------------------------------------------------------------------
(* What others write                                                       *)

\* What appending makes of a sequence.
LEMMA Appended ==
  ASSUME NEW S, NEW s \in Seq(S), NEW x \in S, NEW t, t = Append(s, x)
  PROVE  t \in Seq(S) /\ Len(t) = Len(s) + 1 /\ t[Len(s) + 1] = x /\ \A i \in 1..Len(s) : t[i] = s[i]
<1>1. Append(s, x) \in Seq(S)  BY AppendProperties, Zenon
<1>2. Len(Append(s, x)) = Len(s) + 1  BY AppendProperties, Zenon
<1>3. Append(s, x)[Len(s) + 1] = x  BY AppendProperties, Zenon
<1>4. ASSUME NEW i \in 1..Len(s)  PROVE Append(s, x)[i] = s[i]
  OBVIOUS
<1> QED  BY <1>1, <1>2, <1>3, <1>4, Zenon

\* Of a list of two.
LEMMA AppendThree ==
  ASSUME NEW S, NEW s \in Seq(S), NEW x \in S, Len(s) = 2
  PROVE  Append(s, x) = <<s[1], s[2], x>>
<1>1. PICK t : t = Append(s, x)  OBVIOUS
<1>2. /\ t \in Seq(S) /\ Len(t) = Len(s) + 1 /\ t[Len(s) + 1] = x
      /\ \A i \in 1..Len(s) : t[i] = s[i]
  BY <1>1, Appended
<1>3. Len(t) = 3 /\ t[3] = x /\ t[1] = s[1] /\ t[2] = s[2]  BY <1>2
<1>4. t = <<s[1], s[2], x>>  BY <1>2, <1>3
<1> QED  BY <1>1, <1>4, Zenon

\* And of a list of three.
LEMMA AppendFour ==
  ASSUME NEW S, NEW s \in Seq(S), NEW x \in S, Len(s) = 3
  PROVE  Append(s, x) = <<s[1], s[2], s[3], x>>
<1>1. PICK t : t = Append(s, x)  OBVIOUS
<1>2. /\ t \in Seq(S) /\ Len(t) = Len(s) + 1 /\ t[Len(s) + 1] = x
      /\ \A i \in 1..Len(s) : t[i] = s[i]
  BY <1>1, Appended
<1>3. Len(t) = 4 /\ t[4] = x /\ t[1] = s[1] /\ t[2] = s[2] /\ t[3] = s[3]  BY <1>2
<1>4. t = <<s[1], s[2], s[3], x>>  BY <1>2, <1>3
<1> QED  BY <1>1, <1>4, Zenon

\* The first item of a pair or of a triple, and the last.
LEMMA EndsAre ==
  /\ \A a, b : Two(a, b).items[1] = a /\ Two(a, b).items[2] = b /\ Len(Two(a, b).items) = 2
  /\ \A a, b, c : Three(a, b, c).items[1] = a /\ Three(a, b, c).items[3] = c /\ Len(Three(a, b, c).items) = 3
BY DEF Two, Three, List

\* Lists are rewritten as their items are.
LEMMA ListEdits ==
  ASSUME NEW s, NEW x
  PROVE  /\ Longer(List(s), x) = List(Append(s, x))
         /\ NewFirst(List(s), x) = List([s EXCEPT ![1] = x])
         /\ NewLast(List(s), x) = List([s EXCEPT ![Len(s)] = x])
<1>1. \A y : [List(s) EXCEPT !.items = y] = List(y)  BY DEF List
<1>2. List(s).items = s  BY DEF List
<1> QED  BY <1>1, <1>2, Zenon DEF Longer, NewFirst, NewLast

\* What adding to a pair, or changing an end of it, makes of it.
LEMMA EditsTwo ==
  ASSUME NEW a, NEW b, NEW x
  PROVE  /\ Longer(Two(a, b), x) = Three(a, b, x)
         /\ NewFirst(Two(a, b), x) = Two(x, b)
         /\ NewLast(Two(a, b), x) = Two(a, x)
<1> DEFINE own   == <<a, b>>
           first == [own EXCEPT ![1] = x]
           last  == [own EXCEPT ![Len(own)] = x]
           more  == Append(own, x)
<1>1. first = <<x, b>> /\ last = <<a, x>>
 <2>1. Len(own) = 2  OBVIOUS
 <2> QED  BY <2>1
<1>2. more = <<a, b, x>>
 <2> DEFINE s == <<a, b>>
            S == {a, b, x}
 <2>1. s \in Seq(S) /\ x \in S /\ Len(s) = 2 /\ s[1] = a /\ s[2] = b  OBVIOUS
 <2> HIDE DEF s, S
 <2>2. Append(s, x) = <<s[1], s[2], x>>  BY <2>1, AppendThree
 <2> QED  BY <2>1, <2>2 DEF s
<1>3. Two(a, b) = List(own)  BY DEF Two
<1>4. Longer(List(own), x) = List(more) /\ NewFirst(List(own), x) = List(first) /\ NewLast(List(own), x) = List(last)
  BY ListEdits
<1> HIDE DEF own, first, last, more
<1> QED  BY <1>1, <1>2, <1>3, <1>4 DEF Two, Three

\* And of a triple.
LEMMA EditsThree ==
  ASSUME NEW a, NEW b, NEW c, NEW x
  PROVE  /\ Longer(Three(a, b, c), x) = Four(a, b, c, x)
         /\ NewFirst(Three(a, b, c), x) = Three(x, b, c)
         /\ NewLast(Three(a, b, c), x) = Three(a, b, x)
<1> DEFINE own   == <<a, b, c>>
           first == [own EXCEPT ![1] = x]
           last  == [own EXCEPT ![Len(own)] = x]
           more  == Append(own, x)
<1>1. first = <<x, b, c>> /\ last = <<a, b, x>>
 <2>1. Len(own) = 3  OBVIOUS
 <2> QED  BY <2>1
<1>2. more = <<a, b, c, x>>
 <2> DEFINE s == <<a, b, c>>
            S == {a, b, c, x}
 <2>1. s \in Seq(S) /\ x \in S /\ Len(s) = 3 /\ s[1] = a /\ s[2] = b /\ s[3] = c
   OBVIOUS
 <2> HIDE DEF s, S
 <2>2. Append(s, x) = <<s[1], s[2], s[3], x>>  BY <2>1, AppendFour
 <2> QED  BY <2>1, <2>2 DEF s
<1>3. Three(a, b, c) = List(own)  BY DEF Three
<1>4. Longer(List(own), x) = List(more) /\ NewFirst(List(own), x) = List(first) /\ NewLast(List(own), x) = List(last)
  BY ListEdits
<1> HIDE DEF own, first, last, more
<1> QED  BY <1>1, <1>2, <1>3, <1>4 DEF Three, Four

\* The last item of a sound list is sound.
LEMMA LastSound ==
  /\ \A a, b : Sound(Two(a, b)) => Sound(b)
  /\ \A a, b, c : Sound(Three(a, b, c)) => Sound(c)
<1>1. ASSUME NEW s, NEW n \in DOMAIN s, Sound(List(s))  PROVE Sound(s[n])
 <2>1. s[n] \in Parts(List(s))  BY DEF Parts, List
 <2>2. Tree(List(s))  BY <1>1 DEF Sound
 <2> DEFINE v == List(s)
 <2> HIDE DEF v
 <2>3. Tree(v) /\ Sound(v) /\ s[n] \in Parts(v)  BY <1>1, <2>1, <2>2 DEF v
 <2> QED  BY <2>3, SoundIs
<1>2. ASSUME NEW a, NEW b, Sound(Two(a, b))  PROVE Sound(b)
 <2> DEFINE s == <<a, b>>
 <2>1. 2 \in DOMAIN s /\ s[2] = b /\ Sound(List(s))  BY <1>2 DEF Two
 <2> HIDE DEF s
 <2> QED  BY <1>1, <2>1
<1>3. ASSUME NEW a, NEW b, NEW c, Sound(Three(a, b, c))  PROVE Sound(c)
 <2> DEFINE s == <<a, b, c>>
 <2>1. 3 \in DOMAIN s /\ s[3] = c /\ Sound(List(s))  BY <1>3 DEF Three
 <2> HIDE DEF s
 <2> QED  BY <1>1, <2>1
<1> QED  BY <1>2, <1>3

\* Null is sound and no predicate.
LEMMA NullIs ==
  /\ Sound(Null) /\ FromDagCbor(Null) = Null /\ Null.kind = "null" /\ IpldToPredicate(Null) = <<>>
<1> DEFINE v == Null
<1>1. v.kind = "null"  BY DEF Null
<1> HIDE DEF v
<1>2. Sound(v) /\ Tree(v)  BY <1>1, LeafSound DEF Sound
<1>3. FromDagCbor(v) = v  BY <1>1, <1>2, ValueIs
<1>4. IpldToPredicate(v) = <<>>
 <2>1. PICK f : IpldToPredicate(v) = ReadNode(v, f)  BY <1>2, ReadUnfolds
 <2> QED  BY <1>1, <2>1, Zenon DEF ReadNode
<1> QED  BY <1>1, <1>2, <1>3, <1>4 DEF v

\* A list that does not begin with a name is read as no predicate, nor is a
\* longer one whose second item is a list.
LEMMA NoPredicate ==
  ASSUME NEW S, NEW s \in Seq(S), s # <<>>, \A n \in DOMAIN s : Sound(s[n]),
         FromDagCbor(s[1]).kind # "string" \/ (Len(s) >= 3 /\ FromDagCbor(s[2]).kind # "string")
  PROVE  ReadWire(List(s)) = <<>>
<1> DEFINE m == [n \in DOMAIN s |-> FromDagCbor(s[n])]
           x == List(m)
           fs == Parse(m[2].text)
<1>1. Sound(List(s))  BY SoundLists
<1>2. FromDagCbor(List(s)) = x  BY <1>1, ListsAre DEF Sound
<1>3. Sound(x)  BY <1>1, <1>2, ValueSound
<1>4. m # <<>> /\ (m[1].kind # "string" \/ (Len(m) # 2 /\ m[2].kind # "string"))
 <2>1. Len(s) \in Nat /\ Len(s) > 0 /\ DOMAIN s = 1..Len(s)  OBVIOUS
 <2>2. Len(m) = Len(s) /\ DOMAIN m = 1..Len(s) /\ m[1] = FromDagCbor(s[1])
       /\ (Len(s) >= 3 => m[2] = FromDagCbor(s[2]))
   BY <2>1
 <2> HIDE DEF m
 <2> QED  BY <2>1, <2>2
<1>5. x.kind = "list" /\ x.items = m  BY DEF List
<1> HIDE DEF x, m
<1>6. PICK f : IpldToPredicate(x) = ReadNode(x, f)  BY <1>3, ReadUnfolds
<1>7. ReadItems(m, NameOf(m[1]), fs, f) = <<>> \/ m[1].kind # "string"
 <2> HIDE DEF fs
 <2> QED  BY <1>4, Zenon DEF ReadItems
<1>8. IpldToPredicate(x) = <<>>  BY <1>4, <1>5, <1>6, <1>7, ReadNodeIs
<1> QED  BY <1>2, <1>8 DEF ReadWire

\* A pair that somebody rewrote is no predicate.
LEMMA PairsRewritten ==
  ASSUME NEW op \in {"not", "and", "or"}, NEW b, b.kind = "list", Sound(b)
  PROVE  /\ ReadWire(Three(Op(op), b, Null)) = <<>>
         /\ ReadWire(Two(Op("unknown"), b)) = <<>>
         /\ ReadWire(Two(Null, b)) = <<>>
         /\ ReadWire(Two(Op(op), Null)) = <<>>
<1> DEFINE o == Op(op)
           r == FromDagCbor(b)
<1>1. Sound(o) /\ FromDagCbor(o) = o /\ o.kind = "string"  BY TextIs
<1>2. Sound(r) /\ r.kind = "list"  BY ValueSound, ValueShape DEF Sound, SameShape
<1>3. ReadWire(Three(o, b, Null)) = <<>>
 <2> DEFINE c == Null
            s == <<o, b, c>>
 <2>1. Sound(c)  BY NullIs
 <2> HIDE DEF o, c
 <2>2. s \in Seq({o, b, c}) /\ s # <<>> /\ (\A n \in DOMAIN s : Sound(s[n])) /\ Len(s) >= 3 /\ s[2] = b
       /\ Three(o, b, c) = List(s)
   BY <1>1, <2>1 DEF Three
 <2> HIDE DEF s
 <2> QED  BY <1>2, <2>2, NoPredicate DEF c
<1>4. ReadWire(Two(Op("unknown"), b)) = <<>>
 <2> DEFINE u == "unknown"
 <2>1. u \notin {"not", "and", "or"}  OBVIOUS
 <2> HIDE DEF u
 <2>2. Sound(Two(Op(u), b)) /\ Sound(Two(Op(u), r))  BY <1>2, TaggedIs
 <2>3. FromDagCbor(Two(Op(u), b)) = Two(Op(u), r)  BY <2>2, TaggedIs DEF Sound
 <2> HIDE DEF r
 <2>4. IpldToPredicate(Two(Op(u), r)) = <<>>  BY <2>1, <2>2, ReadTwo
 <2> QED  BY <2>3, <2>4 DEF u, ReadWire
<1>5. ReadWire(Two(Null, b)) = <<>>
 <2> DEFINE c == Null
            s == <<c, b>>
 <2>1. Sound(c) /\ FromDagCbor(c) = c /\ c.kind = "null"  BY NullIs
 <2> HIDE DEF c
 <2>2. s \in Seq({c, b}) /\ s # <<>> /\ (\A n \in DOMAIN s : Sound(s[n])) /\ s[1] = c /\ Two(c, b) = List(s)
   BY <2>1 DEF Two
 <2> HIDE DEF s
 <2> QED  BY <2>1, <2>2, NoPredicate DEF c
<1>6. ReadWire(Two(Op(op), Null)) = <<>>
 <2> DEFINE c == Null
 <2>1. Sound(c) /\ FromDagCbor(c) = c /\ c.kind = "null" /\ IpldToPredicate(c) = <<>>
   BY NullIs
 <2> HIDE DEF c, o
 <2>2. Sound(Two(Op(op), c))  BY <2>1, TaggedIs
 <2>3. FromDagCbor(Two(Op(op), c)) = Two(Op(op), c)
   BY <2>1, <2>2, TaggedIs DEF Sound
 <2>4. c.kind # "list" /\ ReadNot(<<>>) = <<>>  BY <2>1 DEF ReadNot
 <2>5. IpldToPredicate(Two(Op(op), c)) = <<>>
  <3> DEFINE i == IpldToPredicate(Two(Op(op), c))
  <3>1. /\ op = "not" => i = ReadNot(IpldToPredicate(c))
        /\ op \in {"and", "or"} /\ c.kind # "list" => i = <<>>
    BY <2>2, ReadTwo
  <3> HIDE DEF i
  <3>2. i = <<>>  BY <2>1, <2>4, <3>1
  <3> QED  BY <3>2 DEF i
 <2> QED  BY <2>3, <2>5 DEF ReadWire, c
<1> QED  BY <1>3, <1>4, <1>5, <1>6 DEF o

\* A triple that somebody rewrote is read as it was, or is no predicate.
LEMMA TriplesRewritten ==
  ASSUME NEW op, NEW t, NEW c, Sound(c)
  PROVE  /\ ReadWire(Four(Op(op), Str(t), c, Null)) = ReadWire(Three(Op(op), Str(t), c))
         /\ ReadWire(Three(Op("unknown"), Str(t), c)) = <<>>
         /\ ReadWire(Three(Null, Str(t), c)) = <<>>
         /\ op \notin {"==", "!="} => ReadWire(Three(Op(op), Str(t), Null)) = <<>>
         /\ c.kind = "int" /\ Safe(c.halves) =>
              ReadWire(Three(Op(op), Str(t), WireFloat(c.halves))) = ReadWire(Three(Op(op), Str(t), c))
<1> DEFINE o == Op(op)
           x == Str(t)
           z == Null
           r == FromDagCbor(c)
<1>1. /\ Sound(o) /\ FromDagCbor(o) = o /\ o.kind = "string" /\ NameOf(o) = op
      /\ Sound(x) /\ FromDagCbor(x) = x /\ x.kind = "string" /\ x.text = t
  BY TextIs
<1>2. Sound(z) /\ FromDagCbor(z) = z /\ z.kind = "null" /\ IpldToPredicate(z) = <<>>
  BY NullIs
<1>3. Sound(r)  BY ValueSound
<1>4. \A name, v : Sound(v) =>
        /\ Sound(Three(Op(name), Str(t), v))
        /\ FromDagCbor(Three(Op(name), Str(t), v)) = Three(Op(name), Str(t), FromDagCbor(v))
  BY TaggedIs DEF Sound
<1>5. \A name, v : Sound(v) =>
        ReadWire(Three(Op(name), Str(t), v)) =
          IF Parse(t) = <<>> THEN <<>>
          ELSE IF name \notin {"all", "any"} THEN ReadTriple(name, Parse(t)[1], Emptied(FromDagCbor(v)))
          ELSE ReadEach(name, Parse(t)[1], IpldToPredicate(FromDagCbor(v)))
 <2> TAKE name, v
 <2> HAVE Sound(v)
 <2> DEFINE u == FromDagCbor(v)
 <2>1. Sound(u)  BY ValueSound
 <2>2. FromDagCbor(Three(Op(name), Str(t), v)) = Three(Op(name), Str(t), u)
   BY <1>4
 <2> HIDE DEF u
 <2>3. Sound(Three(Op(name), Str(t), u))  BY <1>4, <2>1
 <2>4. ReadWire(Three(Op(name), Str(t), v)) = IpldToPredicate(Three(Op(name), Str(t), u))
   BY <2>2 DEF ReadWire
 <2>5. IpldToPredicate(Three(Op(name), Str(t), u)) =
         IF Parse(t) = <<>> THEN <<>>
         ELSE IF name \notin {"all", "any"} THEN ReadTriple(name, Parse(t)[1], Emptied(u))
         ELSE ReadEach(name, Parse(t)[1], IpldToPredicate(u))
   BY <2>3, ReadThree
 <2> QED  BY <2>4, <2>5, Zenon DEF u
<1>6. ReadWire(Four(o, x, c, z)) = ReadWire(Three(o, x, c))
 <2> HIDE DEF o, x, z
 <2> DEFINE s == <<o, x, c, z>>
            m == <<o, x, r, z>>
 <2>1. s \in Seq({o, x, c, z}) /\ (\A n \in DOMAIN s : Sound(s[n])) /\ Four(o, x, c, z) = List(s)
   BY <1>1, <1>2 DEF Four
 <2>2. [n \in DOMAIN s |-> FromDagCbor(s[n])] = m  BY <1>1, <1>2
 <2> HIDE DEF s, r
 <2>3. Sound(List(s))  BY <2>1, SoundLists
 <2>4. FromDagCbor(List(s)) = List(m)  BY <2>2, <2>3, ListsAre DEF Sound
 <2>5. /\ m \in Seq({o, x, r, z}) /\ (\A n \in DOMAIN m : Sound(m[n])) /\ Len(m) >= 3
       /\ m[1] = o /\ m[2] = x /\ m[3] = r
   BY <1>1, <1>2, <1>3
 <2> HIDE DEF m
 <2>6. Sound(List(m))  BY <2>5, SoundLists
 <2>7. m[1] = Op(op) /\ m[2] = Str(t)  BY <2>5 DEF o, x
 <2> DEFINE i == IpldToPredicate(List(m))
 <2>8. i = IF Parse(t) = <<>> THEN <<>>
           ELSE IF op \notin {"all", "any"} THEN ReadTriple(op, Parse(t)[1], Emptied(m[3]))
           ELSE ReadEach(op, Parse(t)[1], IpldToPredicate(m[3]))
   BY <2>5, <2>6, <2>7, ReadLong
 <2> HIDE DEF i
 <2>9. i = IF Parse(t) = <<>> THEN <<>>
           ELSE IF op \notin {"all", "any"} THEN ReadTriple(op, Parse(t)[1], Emptied(r))
           ELSE ReadEach(op, Parse(t)[1], IpldToPredicate(r))
   BY <2>5, <2>8, Zenon
 <2>10. ReadWire(Four(o, x, c, z)) = i  BY <2>1, <2>4, Zenon DEF ReadWire, i
 <2>11. ReadWire(Three(Op(op), Str(t), c)) = i  BY <1>5, <2>9, Zenon DEF r
 <2> QED  BY <2>10, <2>11 DEF o, x
<1>7. ReadWire(Three(Op("unknown"), x, c)) = <<>>
 <2>1. ReadTriple("unknown", Parse(t)[1], Emptied(r)) = <<>>
   BY DEF ReadTriple, ReadCompare, Orderings
 <2> DEFINE u == "unknown"
 <2>2. u \notin {"all", "any"}  OBVIOUS
 <2>3. ReadTriple(u, Parse(t)[1], Emptied(r)) = <<>>  BY <2>1
 <2> HIDE DEF u
 <2> QED  BY <1>5, <2>2, <2>3, Zenon DEF u
<1>8. ReadWire(Three(z, x, c)) = <<>>
 <2> HIDE DEF x, z
 <2> DEFINE s == <<z, x, c>>
 <2>1. s \in Seq({z, x, c}) /\ s # <<>> /\ (\A n \in DOMAIN s : Sound(s[n])) /\ s[1] = z /\ Three(z, x, c) = List(s)
   BY <1>1, <1>2 DEF Three
 <2> HIDE DEF s
 <2> QED  BY <1>2, <2>1, NoPredicate
<1>9. ASSUME op \notin {"==", "!="}  PROVE ReadWire(Three(o, x, z)) = <<>>
 <2> HIDE DEF z
 <2>1. ReadTriple(op, Parse(t)[1], z) = <<>>
  <3>1. ~IsNumber(z) /\ z.kind # "string"  BY <1>2 DEF IsNumber
  <3> QED  BY <1>9, <3>1 DEF ReadTriple, ReadCompare
 <2>2. ReadEach(op, Parse(t)[1], <<>>) = <<>>  BY DEF ReadEach
 <2>3. Emptied(z) = z  BY <1>2, EmptiedIs DEF Sound
 <2>4. ReadWire(Three(o, x, z)) =
         IF Parse(t) = <<>> THEN <<>>
         ELSE IF op \notin {"all", "any"} THEN ReadTriple(op, Parse(t)[1], z) ELSE ReadEach(op, Parse(t)[1], <<>>)
   BY <1>2, <1>5, <2>3
 <2> QED  BY <2>1, <2>2, <2>4, Zenon
<1>10. ASSUME c.kind = "int" /\ Safe(c.halves)
       PROVE  ReadWire(Three(o, x, WireFloat(c.halves))) = ReadWire(Three(o, x, c))
 <2> DEFINE f == WireFloat(c.halves)
 <2>1. f.kind = "float" /\ f.halves = c.halves  BY DEF WireFloat
 <2> HIDE DEF f
 <2>2. Sound(f) /\ Tree(f)  BY <2>1, LeafSound DEF Sound
 <2>3. FromDagCbor(f) = Number(c.halves)  BY <2>1, <2>2, ValueIs
 <2>4. FromDagCbor(c) = Number(c.halves)  BY <1>10, ValueIs DEF Sound
 <2> QED  BY <1>4, <2>2, <2>3, <2>4 DEF f, ReadWire
<1> QED  BY <1>6, <1>7, <1>8, <1>9, <1>10, Zenon DEF o, x, z

\* A predicate is written as a pair or as a triple.
LEMMA WrittenForms ==
  ASSUME NEW p \in Predicate
  PROVE  \/ \E op \in {"not", "and", "or"} : \E b :
              /\ b.kind = "list" /\ Sound(b) /\ ToDagCbor(PredicateToIpld[p]) = Two(Op(op), b)
              /\ p.op = "not" => b = ToDagCbor(PredicateToIpld[p.inner]) /\ op = "not"
         \/ \E op, t, c : Sound(c) /\ ToDagCbor(PredicateToIpld[p]) = Three(Op(op), Str(t), c)
<1>1. Sound(ToDagCbor(PredicateToIpld[p]))  BY IpldSound, WireSound
<1>2. CASE p.op \in Compares
 <2>1. ToDagCbor(PredicateToIpld[p]) = Three(Op(p.op), Str(ToString(p.select)), ToDagCbor(p.value))
   BY <1>2, Forms
 <2> DEFINE c == ToDagCbor(p.value)
 <2>2. Sound(c)  BY <1>1, <2>1, LastSound
 <2> QED  BY <2>1, <2>2
<1>3. CASE p.op = "not" /\ p.inner.op = "=="
 <2>1. ToDagCbor(PredicateToIpld[p]) = Three(Op("!="), Str(ToString(p.inner.select)), ToDagCbor(p.inner.value))
   BY <1>3, Forms
 <2>2. Sound(ToDagCbor(p.inner.value))  BY <1>1, <2>1, LastSound
 <2> QED  BY <2>1, <2>2
<1>4. CASE p.op = "not" /\ p.inner.op # "=="
 <2> DEFINE b == ToDagCbor(PredicateToIpld[p.inner])
 <2>1. ToDagCbor(PredicateToIpld[p]) = Two(Op("not"), b)  BY <1>4, Forms
 <2>2. p.inner \in Predicate  BY <1>4, PredicateKinds DEF Lower
 <2>3. Sound(b) /\ b.kind = "list"  BY <1>1, <2>1, <2>2, LastSound, BackSound
 <2> QED  BY <1>4, <2>1, <2>3, Zenon
<1>5. CASE p.op \in {"and", "or"}
 <2> DEFINE s == [n \in DOMAIN p.inner |-> ToDagCbor(PredicateToIpld[p.inner[n]])]
            b == List(s)
 <2>1. ToDagCbor(PredicateToIpld[p]) = Two(Op(p.op), b)  BY <1>5, Forms
 <2>2. b.kind = "list"  BY DEF List
 <2> HIDE DEF b
 <2>3. Sound(b)  BY <1>1, <2>1, LastSound
 <2>4. p.op \in {"not", "and", "or"} /\ p.op # "not"  BY <1>5
 <2> QED  BY <2>1, <2>2, <2>3, <2>4, Zenon
<1>6. CASE p.op \in {"all", "any"}
 <2>1. ToDagCbor(PredicateToIpld[p]) =
         Three(Op(p.op), Str(ToString(p.select)), ToDagCbor(PredicateToIpld[p.inner]))
   BY <1>6, Forms
 <2>2. Sound(ToDagCbor(PredicateToIpld[p.inner]))  BY <1>1, <2>1, LastSound
 <2> QED  BY <2>1, <2>2
<1> QED  BY <1>2, <1>3, <1>4, <1>5, <1>6, OpsDiffer

\* What this library wrote arrives.
LEMMA OwnReads ==
  ASSUME NEW p \in Predicate
  PROVE  /\ ReadWire(ToDagCbor(PredicateToIpld[p])) \in Readings(p)
         /\ SelectorsReadable => ReadWire(ToDagCbor(PredicateToIpld[p])) # <<>>
BY ReadBack DEF Readings, Reads, ReadWire, Received

\* The parts of a predicate as the decoder makes it.
LEMMA DecodedParts ==
  ASSUME NEW p \in Predicate
  PROVE  /\ Decoded[p] \in Predicate /\ Decoded[p].op = p.op
         /\ p.op \in Compares => Decoded[p].value = Emptied(Received(p.value))
         /\ p.op \in {"not", "all", "any"} => Decoded[p].inner = Decoded[p.inner]
         /\ p.op \in {"and", "or"} => Decoded[p].inner = [n \in DOMAIN p.inner |-> Decoded[p.inner[n]]]
<1>1. Decoded[p] = Remade(p, Emptied(Received(p.value)), Decoded)  BY BodiesUnfold
<1> QED  BY <1>1, RemadeParts, PolicyAssumption

\* A predicate compares with a map with something in it where its parts do.
LEMMA FlatForms ==
  ASSUME NEW p \in Predicate
  PROVE  /\ p.op \in Compares => (Flat(PredicateToIpld[p]) <=> Flat(p.value))
         /\ p.op \in {"not", "all", "any"} => (Flat(PredicateToIpld[p]) <=> Flat(PredicateToIpld[p.inner]))
         /\ p.op \in {"and", "or"} =>
              (Flat(PredicateToIpld[p]) <=> \A n \in DOMAIN p.inner : Flat(PredicateToIpld[p.inner[n]]))
<1> DEFINE own == PredicateToIpld[p]
<1>1. \A op, t : Flat(Op(op)) /\ Flat(Str(t))  BY TextIs, LeafFlat
<1>2. \A q \in Predicate : Tree(PredicateToIpld[q])  BY IpldSound DEF Sound
<1>3. ASSUME NEW op, NEW t, NEW v, Tree(Three(Op(op), Str(t), v))
      PROVE  Flat(Three(Op(op), Str(t), v)) <=> Flat(v)
  BY <1>1, <1>3, FlatPairs
<1>4. ASSUME NEW op, NEW v, Tree(Two(Op(op), v))  PROVE Flat(Two(Op(op), v)) <=> Flat(v)
  BY <1>1, <1>4, FlatPairs
<1>5. CASE p.op \in Compares
 <2>1. own = Three(Op(p.op), Str(ToString(p.select)), p.value)
   BY <1>5, IpldIs DEF Compares
 <2>2. Flat(own) <=> Flat(p.value)  BY <1>2, <1>3, <2>1
 <2> QED  BY <1>5, <2>2, OpsDiffer
<1>6. CASE p.op = "not"
 <2> DEFINE q == p.inner
            b == PredicateToIpld[q]
 <2>1. q \in Predicate  BY <1>6, PredicateKinds DEF Lower
 <2>2. ASSUME q.op # "=="  PROVE Flat(own) <=> Flat(b)
  <3>1. own = Two(Op("not"), b)  BY <1>6, <2>2, IpldIs
  <3> QED  BY <1>2, <1>4, <3>1
 <2>3. ASSUME q.op = "=="  PROVE Flat(own) <=> Flat(b)
  <3>1. own = Three(Op("!="), Str(ToString(q.select)), q.value)
    BY <1>6, <2>3, IpldIs
  <3>2. b = Three(Op("=="), Str(ToString(q.select)), q.value)
    BY <2>1, <2>3, IpldIs
  <3> HIDE DEF b, own
  <3>3. Flat(own) <=> Flat(q.value)  BY <1>2, <1>3, <3>1 DEF own
  <3>4. Flat(b) <=> Flat(q.value)  BY <1>2, <1>3, <2>1, <3>2 DEF b
  <3> QED  BY <3>3, <3>4 DEF b, own
 <2>4. Flat(own) <=> Flat(b)  BY <2>2, <2>3
 <2> QED  BY <1>6, <2>4, OpsDiffer
<1>7. CASE p.op \in {"and", "or"}
 <2> DEFINE s == [n \in DOMAIN p.inner |-> PredicateToIpld[p.inner[n]]]
            v == List(s)
 <2>1. own = Two(Op(p.op), v)  BY <1>7, IpldIs
 <2>2. v.kind = "list" /\ v.items = s  BY DEF List
 <2>3. DOMAIN s = DOMAIN p.inner /\ \A n \in DOMAIN s : s[n] = PredicateToIpld[p.inner[n]]
   OBVIOUS
 <2> HIDE DEF s, v
 <2>4. Tree(v)  BY <1>2, <2>1, PairParts
 <2>5. Parts(v) = {s[n] : n \in DOMAIN s}  BY <2>2, PartsAre
 <2>6. Flat(v) <=> \A x \in Parts(v) : Flat(x)  BY <2>2, <2>4, FlatIs
 <2>7. Flat(own) <=> Flat(v)  BY <1>2, <1>4, <2>1
 <2>8. Flat(v) <=> \A n \in DOMAIN s : Flat(s[n])  BY <2>5, <2>6, Zenon
 <2>9. Flat(own) <=> \A n \in DOMAIN p.inner : Flat(PredicateToIpld[p.inner[n]])
   BY <2>3, <2>7, <2>8
 <2> QED  BY <1>7, <2>9, OpsDiffer
<1>8. CASE p.op \in {"all", "any"}
 <2>1. own = Three(Op(p.op), Str(ToString(p.select)), PredicateToIpld[p.inner])
   BY <1>8, IpldIs
 <2>2. Flat(own) <=> Flat(PredicateToIpld[p.inner])  BY <1>2, <1>3, <2>1
 <2> QED  BY <1>8, <2>2, OpsDiffer
<1> QED  BY <1>5, <1>6, <1>7, <1>8, OpsDiffer

\* What the decoder makes compares with none,
LEMMA DecodedFlat == \A p \in Predicate : Flat(PredicateToIpld[Decoded[p]])
<1> DEFINE T == {p \in Predicate : Flat(PredicateToIpld[Decoded[p]])}
<1>1. Size \in [Predicate -> Nat]  BY PredicatesAssumption
<1>2. ASSUME NEW p \in Predicate, \A q \in Predicate : Size[q] < Size[p] => q \in T
      PROVE  p \in T
 <2> DEFINE m == Decoded[p]
 <2> SUFFICES Flat(PredicateToIpld[m])  OBVIOUS
 <2>1. \A q : Lower(p, q) => Flat(PredicateToIpld[Decoded[q]])  BY <1>2 DEF Lower
 <2>2. m \in Predicate /\ m.op = p.op  BY DecodedParts
 <2>3. CASE p.op \in Compares
  <3>1. m.value = Emptied(Received(p.value)) /\ p.value \in Data
    BY <2>3, DecodedParts, PredicateKinds, OpsDiffer DEF Compares
  <3>2. Flat(Emptied(Received(p.value)))  BY <3>1, EmptiedFlat, PolicyAssumption
  <3> HIDE DEF m
  <3> QED  BY <2>2, <2>3, <3>1, <3>2, FlatForms
 <2>4. CASE p.op \in {"not", "all", "any"}
  <3>1. m.inner = Decoded[p.inner] /\ Lower(p, p.inner)
    BY <2>4, DecodedParts, PredicateKinds
  <3> HIDE DEF m
  <3> QED  BY <2>1, <2>2, <2>4, <3>1, FlatForms
 <2>5. CASE p.op \in {"and", "or"}
  <3>1. m.inner = [n \in DOMAIN p.inner |-> Decoded[p.inner[n]]]
    BY <2>5, DecodedParts
  <3>2. \A n \in DOMAIN p.inner : Lower(p, p.inner[n])  BY <2>5, PredicateKinds
  <3> HIDE DEF m
  <3>3. \A n \in DOMAIN m.inner : Flat(PredicateToIpld[m.inner[n]])
    BY <2>1, <3>1, <3>2
  <3> QED  BY <2>2, <2>5, <3>3, FlatForms
 <2> QED  BY <2>3, <2>4, <2>5, OpsDiffer
<1>3. Predicate \subseteq T
 <2> HIDE DEF T
 <2> QED  BY <1>1, <1>2, RankInduction
<1> QED  BY <1>3

\* and a predicate that compares with none is what it makes.
LEMMA FlatArrives == \A p \in Predicate : Flat(PredicateToIpld[p]) => Decoded[p] = Normal[p]
<1> DEFINE T == {p \in Predicate : Flat(PredicateToIpld[p]) => Decoded[p] = Normal[p]}
<1>1. Size \in [Predicate -> Nat]  BY PredicatesAssumption
<1>2. ASSUME NEW p \in Predicate, \A q \in Predicate : Size[q] < Size[p] => q \in T
      PROVE  p \in T
 <2> SUFFICES ASSUME Flat(PredicateToIpld[p])  PROVE Decoded[p] = Normal[p]
   OBVIOUS
 <2>1. \A q : Lower(p, q) /\ Flat(PredicateToIpld[q]) => Decoded[q] = Normal[q]
   BY <1>2 DEF Lower
 <2> DEFINE r == Received(p.value)
 <2> SUFFICES Remade(p, Emptied(r), Decoded) = Remade(p, r, Normal)
   BY BodiesUnfold
 <2>2. CASE p.op \in Compares
  <3>1. p.value \in Data /\ Flat(p.value)
    BY <2>2, PredicateKinds, FlatForms DEF Compares
  <3>2. r \in Data /\ Flat(r)  BY <3>1, ReceivedFlat, PolicyAssumption
  <3>3. Emptied(r) = r  BY <3>2, FlatStays
  <3> QED  BY <2>2, <3>3, OpsDiffer DEF Remade
 <2>3. CASE p.op \in {"not", "all", "any"}
  <3>1. Lower(p, p.inner)  BY <2>3, PredicateKinds
  <3>2. Decoded[p.inner] = Normal[p.inner]  BY <2>1, <2>3, <3>1, FlatForms
  <3> QED  BY <2>3, <3>2 DEF Remade
 <2>4. CASE p.op \in {"and", "or"}
  <3>1. \A n \in DOMAIN p.inner : Lower(p, p.inner[n]) /\ Flat(PredicateToIpld[p.inner[n]])
    BY <2>4, PredicateKinds, FlatForms
  <3>2. \A n \in DOMAIN p.inner : Decoded[p.inner[n]] = Normal[p.inner[n]]
    BY <2>1, <3>1
  <3>3. [n \in DOMAIN p.inner |-> Decoded[p.inner[n]]] = [n \in DOMAIN p.inner |-> Normal[p.inner[n]]]
    BY <3>2, Zenon
  <3> QED  BY <2>4, <3>3 DEF Remade
 <2> QED  BY <2>2, <2>3, <2>4, OpsDiffer
<1>3. Predicate \subseteq T
 <2> HIDE DEF T
 <2> QED  BY <1>1, <1>2, RankInduction
<1> QED  BY <1>3

\* What is written of a predicate holds such a map where the predicate does.
LEMMA OwnFlat ==
  \A p \in Predicate : Flat(ToDagCbor(PredicateToIpld[p])) <=> Flat(PredicateToIpld[p])
BY IpldSound, WireFlat DEF Sound

\* A negated equality in full holds what it holds when it is abbreviated.
LEMMA FullFlat ==
  ASSUME NEW p \in Predicate, p.op = "not"
  PROVE  Flat(List(<<Op("not"), ToDagCbor(PredicateToIpld[p.inner])>>)) => Flat(ToDagCbor(PredicateToIpld[p]))
<1> DEFINE b == ToDagCbor(PredicateToIpld[p.inner])
<1>1. p.inner \in Predicate  BY PredicateKinds DEF Lower
<1>2. Sound(b)  BY <1>1, IpldSound, WireSound
<1>3. Flat(ToDagCbor(PredicateToIpld[p])) <=> Flat(b)  BY <1>1, FlatForms, OwnFlat
<1> HIDE DEF b
<1>4. Tree(Two(Op("not"), b))  BY <1>2, TaggedIs DEF Sound
<1>5. Flat(Two(Op("not"), b)) => Flat(b)  BY <1>4, FlatPairs
<1> QED  BY <1>3, <1>5 DEF b, Two

\* A triple holds no map with something in it when its last item is a number,
\* or when none is in a longer one.
LEMMA TripleFlat ==
  ASSUME NEW op, NEW t, NEW c, Sound(c)
  PROVE  Flat(Four(Op(op), Str(t), c, Null)) \/ c.kind = "int" => Flat(Three(Op(op), Str(t), c))
<1> DEFINE o == Op(op)
           x == Str(t)
           z == Null
<1>1. Sound(o) /\ Sound(x) /\ Sound(z) /\ Flat(o) /\ Flat(x)
 <2>1. Sound(o) /\ Sound(x) /\ o.kind = "string" /\ x.kind = "string"  BY TextIs
 <2>2. Sound(z)  BY NullIs
 <2> HIDE DEF o, x, z
 <2> QED  BY <2>1, <2>2, LeafFlat
<1> HIDE DEF o, x, z
<1>2. Tree(Three(o, x, c))  BY <1>1, SoundPairs DEF Sound
<1>3. Tree(Four(o, x, c, z))
 <2> DEFINE s == <<o, x, c, z>>
 <2>1. s \in Seq({o, x, c, z}) /\ (\A n \in DOMAIN s : Sound(s[n])) /\ Four(o, x, c, z) = List(s)
   BY <1>1 DEF Four
 <2> HIDE DEF s
 <2>2. Sound(List(s))  BY <2>1, SoundLists
 <2> QED  BY <2>1, <2>2 DEF Sound
<1>4. Flat(Four(o, x, c, z)) \/ c.kind = "int" => Flat(c)  BY <1>3, FlatPairs, LeafFlat
<1> QED  BY <1>1, <1>2, <1>4, FlatPairs DEF o, x, z

\* What somebody wrote in its place is no predicate, or the same, and holds a
\* map with something in it where the predicate does.
LEMMA RewritingsRead ==
  ASSUME NEW p \in Predicate, NEW w \in Rewritings(p)
  PROVE  /\ ReadWire(w) \in Readings(p)
         /\ ReadWire(w) # <<>> /\ Flat(w) => Flat(ToDagCbor(PredicateToIpld[p]))
<1> DEFINE own == ToDagCbor(PredicateToIpld[p])
           last == own.items[Len(own.items)]
           full == List(<<Op("not"), ToDagCbor(PredicateToIpld[p.inner])>>)
<1>1. \/ w = own
      \/ w = Longer(own, Null)
      \/ w = NewFirst(own, Op("unknown"))
      \/ w = NewFirst(own, Null)
      \/ p.op = "not" /\ w = full
      \/ last.kind = "int" /\ Safe(last.halves) /\ w = NewLast(own, WireFloat(last.halves))
      \/ own.items[1] \notin {Op("=="), Op("!=")} /\ w = NewLast(own, Null)
  BY Zenon DEF Rewritings, Longer, NewFirst, NewLast
<1>2. ReadWire(own) \in Readings(p) /\ <<>> \in Readings(p)
  BY OwnReads DEF Readings
<1>3. CASE p.op = "not" /\ w = full
 <2> DEFINE q == p.inner
            b == ToDagCbor(PredicateToIpld[q])
            i == IpldToPredicate(FromDagCbor(b))
            o == "not"
 <2>1. q \in Predicate  BY <1>3, PredicateKinds DEF Lower
 <2>2. Sound(b)  BY <2>1, IpldSound, WireSound
 <2>3. i \in Readings(q)  BY <2>1, OwnReads DEF ReadWire
 <2>4. Decoded[p] = Not(Decoded[q])  BY <1>3, DecodedIs
 <2>5. w = Two(Op(o), b)  BY <1>3 DEF Two
 <2> DEFINE u == FromDagCbor(b)
 <2>6. Sound(u) /\ i = IpldToPredicate(u)  BY <2>2, ValueSound
 <2> HIDE DEF b, o, q
 <2>7. Sound(Two(Op(o), b))  BY <2>2, TaggedIs
 <2>8. FromDagCbor(Two(Op(o), b)) = Two(Op(o), u)  BY <2>7, TaggedIs DEF Sound
 <2> HIDE DEF u, i
 <2>9. Sound(Two(Op(o), u))  BY <2>6, TaggedIs
 <2>10. o = "not" => IpldToPredicate(Two(Op(o), u)) = ReadNot(IpldToPredicate(u))
   BY <2>9, ReadTwo
 <2>11. ReadWire(w) = ReadNot(i)
   BY <2>5, <2>6, <2>8, <2>10, Zenon DEF ReadWire, o
 <2>12. ReadWire(w) \in Readings(p)  BY <2>3, <2>4, <2>11 DEF ReadNot, Readings
 <2>13. Flat(w) => Flat(own)  BY <1>3, FullFlat
 <2> QED  BY <2>12, <2>13
<1>4. CASE \E op \in {"not", "and", "or"} : \E b : b.kind = "list" /\ Sound(b) /\ own = Two(Op(op), b)
 <2> PICK op \in {"not", "and", "or"} : \E b : b.kind = "list" /\ Sound(b) /\ own = Two(Op(op), b)
   BY <1>4
 <2>1. PICK b : b.kind = "list" /\ Sound(b) /\ own = Two(Op(op), b)  OBVIOUS
 <2> HIDE DEF own
 <2>2. own.items[Len(own.items)] = b  BY <2>1, EndsAre
 <2>3. /\ Longer(own, Null) = Three(Op(op), b, Null)
       /\ NewFirst(own, Op("unknown")) = Two(Op("unknown"), b)
       /\ NewFirst(own, Null) = Two(Null, b)
       /\ NewLast(own, Null) = Two(Op(op), Null)
   BY <2>1, EditsTwo
 <2>4. /\ ReadWire(Three(Op(op), b, Null)) = <<>>
       /\ ReadWire(Two(Op("unknown"), b)) = <<>>
       /\ ReadWire(Two(Null, b)) = <<>>
       /\ ReadWire(Two(Op(op), Null)) = <<>>
   BY <2>1, PairsRewritten
 <2>5. last.kind # "int"  BY <2>1, <2>2
 <2> HIDE DEF own, full, last
 <2> QED  BY <1>1, <1>2, <1>3, <2>3, <2>4, <2>5 DEF last, own
<1>5. CASE \E op, t, c : Sound(c) /\ own = Three(Op(op), Str(t), c)
 <2>1. PICK op, t, c : Sound(c) /\ own = Three(Op(op), Str(t), c)  BY <1>5
 <2> HIDE DEF own
 <2>2. own.items[Len(own.items)] = c /\ own.items[1] = Op(op)
   BY <2>1, EndsAre
 <2>3. /\ Longer(own, Null) = Four(Op(op), Str(t), c, Null)
       /\ NewFirst(own, Op("unknown")) = Three(Op("unknown"), Str(t), c)
       /\ NewFirst(own, Null) = Three(Null, Str(t), c)
       /\ NewLast(own, WireFloat(c.halves)) = Three(Op(op), Str(t), WireFloat(c.halves))
       /\ NewLast(own, Null) = Three(Op(op), Str(t), Null)
   BY <2>1, EditsThree
 <2>4. last = c  BY <2>2
 <2>5. own.items[1] \notin {Op("=="), Op("!=")} => op \notin {"==", "!="}
   BY <2>2
 <2>6. /\ ReadWire(Four(Op(op), Str(t), c, Null)) = ReadWire(own)
       /\ ReadWire(Three(Op("unknown"), Str(t), c)) = <<>>
       /\ ReadWire(Three(Null, Str(t), c)) = <<>>
       /\ op \notin {"==", "!="} => ReadWire(Three(Op(op), Str(t), Null)) = <<>>
       /\ c.kind = "int" /\ Safe(c.halves) =>
            ReadWire(Three(Op(op), Str(t), WireFloat(c.halves))) = ReadWire(own)
   BY <2>1, TriplesRewritten
 <2>7. Flat(Four(Op(op), Str(t), c, Null)) \/ c.kind = "int" => Flat(own)
   BY <2>1, TripleFlat
 <2> HIDE DEF own, full, last
 <2>8. CASE w = own \/ ReadWire(w) = <<>>  BY <1>2, <2>8 DEF own
 <2>9. CASE w = Four(Op(op), Str(t), c, Null) \/ (c.kind = "int" /\ Safe(c.halves) /\ w = Three(Op(op), Str(t), WireFloat(c.halves)))
   BY <1>2, <2>6, <2>7, <2>9 DEF own
 <2> QED  BY <1>1, <1>3, <2>3, <2>4, <2>5, <2>6, <2>8, <2>9
<1> QED  BY <1>4, <1>5, WrittenForms

----------------------------------------------------------------------------
(* The journey of a policy                                                 *)

\* Nothing that is sent is Null.
LEMMA NullIsNotWritten == \A p \in Predicate : ToDagCbor(PredicateToIpld[p]) # Null
<1> TAKE p \in Predicate
<1>1. ToDagCbor(PredicateToIpld[p]).kind = "list"  BY BackSound
<1> QED  BY <1>1, NullIs

\* It holds at first, and every step keeps it.
LEMMA JourneyInvInit == PolicyInit => JourneyInv
<1> SUFFICES ASSUME PolicyInit  PROVE JourneyInv  OBVIOUS
<1>1. predicate \in Predicate  BY JudgingAssumption DEF PolicyInit, Untried
<1> QED  BY <1>1 DEF PolicyInit, JourneyInv, Journeys

\* No step of the journey takes that away.
LEMMA JourneyInvStep == JourneyInv /\ [PolicyNext]_policyVars => JourneyInv'
<1> SUFFICES ASSUME JourneyInv, [PolicyNext]_policyVars  PROVE JourneyInv'
  OBVIOUS
<1> DEFINE own == ToDagCbor(PredicateToIpld[predicate])
<1> USE DEF JourneyInv
<1>1. CASE RunHere
 <2>1. stage = "build" /\ stage' = "built" /\ UNCHANGED <<predicate, wire, policy>>
   BY <1>1 DEF RunHere, Run
 <2> QED  BY <2>1
<1>2. CASE WritePolicy
 <2>1. /\ stage = "built" /\ UNCHANGED <<predicate, policy>>
       /\ (stage' = "done" /\ wire' = wire) \/ (stage' = "sent" /\ wire' = own)
   BY <1>2, Zenon DEF WritePolicy
 <2>2. wire # own  BY <2>1, NullIsNotWritten
 <2> HIDE DEF own
 <2>3. predicate' = predicate /\ policy' = policy  BY <2>1
 <2>4. own' = own  BY <2>3 DEF own
 <2> QED  BY <2>1, <2>2, <2>3, <2>4 DEF own
<1>3. CASE WriteElsewhere
 <2>1. /\ stage = "built" /\ UNCHANGED <<predicate, policy>>
       /\ stage' = "sent" /\ wire' \in Rewritings(predicate)
   BY <1>3, Zenon DEF WriteElsewhere
 <2> QED  BY <2>1
<1>4. CASE ReadPolicy
 <2> DEFINE read == ReadWire(wire)
            canonical == read # <<>> /\ ToDagCbor(PredicateToIpld[read[1]]) = wire
 <2>1. /\ stage = "sent" /\ UNCHANGED <<predicate, wire>>
       /\ (~canonical /\ stage' = "done" /\ UNCHANGED policy) \/ (canonical /\ policy' = read /\ stage' = "run")
   BY <1>4, Zenon DEF ReadPolicy, ReadWire
 <2> DEFINE flat == Flat(PredicateToIpld[predicate])
 <2>2. read \in Readings(predicate) /\ (read # <<>> /\ Flat(wire) => Flat(own))
   BY <2>1, OwnReads, RewritingsRead
 <2>3. policy = <<>> /\ <<>> \in Journeys(predicate)  BY <2>1 DEF Journeys
 <2>4. canonical => read = <<Normal[predicate]>> /\ flat
  <3> SUFFICES ASSUME canonical  PROVE read = <<Normal[predicate]>> /\ flat  OBVIOUS
  <3> DEFINE m == Decoded[predicate]
  <3>1. read = <<m>> /\ m \in Predicate  BY <2>2, PolicyAssumption DEF Readings
  <3> HIDE DEF read, m
  <3>2. read[1] = m /\ read # <<>>  BY <3>1
  <3>3. wire = ToDagCbor(PredicateToIpld[m])  BY <3>2
  <3>4. Flat(wire)  BY <3>1, <3>3, DecodedFlat, OwnFlat DEF m
  <3>5. flat  BY <2>2, <3>2, <3>4, OwnFlat
  <3> QED  BY <3>1, <3>5, FlatArrives DEF m
 <2>5. SelectorsReadable /\ wire = own /\ flat => canonical
  <3> SUFFICES ASSUME SelectorsReadable, wire = own, flat  PROVE canonical  OBVIOUS
  <3>1. read # <<>>  BY OwnReads
  <3>2. read = <<Normal[predicate]>>  BY <2>2, <3>1, FlatArrives DEF Readings
  <3> HIDE DEF read
  <3>3. read[1] = Normal[predicate]  BY <3>2
  <3> QED  BY <3>1, <3>3, WrittenAlike
 <2>6. canonical => read # <<>>  OBVIOUS
 <2>7. <<Normal[predicate]>> \in Journeys(predicate)  BY DEF Journeys
 <2>8. predicate' = predicate /\ wire' = wire  BY <2>1
 <2> HIDE DEF canonical, read, own, flat
 <2>9. own' = own /\ flat' = flat  BY <2>8 DEF own, flat
 <2>10. policy' \in Journeys(predicate')
   BY <2>1, <2>3, <2>4, <2>7, <2>8
 <2>11. SelectorsReadable /\ wire' = own' => (policy' = <<>> <=> ~flat')
   BY <2>1, <2>3, <2>4, <2>5, <2>6, <2>8, <2>9
 <2> QED  BY <2>1, <2>8, <2>10, <2>11 DEF own, flat
<1>5. CASE RunThere
 <2>1. stage = "run" /\ stage' = "done" /\ UNCHANGED <<predicate, wire, policy>>
   BY <1>5 DEF RunThere
 <2> QED  BY <2>1
<1>6. CASE UNCHANGED policyVars  BY <1>6 DEF policyVars
<1> QED  BY <1>1, <1>2, <1>3, <1>4, <1>5, <1>6 DEF PolicyNext

\* Whoever wrote it, a policy that is accepted is the one that was issued.
THEOREM AcceptedIsTheIssued == PolicySpec => [](policy \in {<<>>, <<Normal[predicate]>>})
<1>1. JourneyInv => policy \in {<<>>, <<Normal[predicate]>>}
  BY DEF JourneyInv, Journeys
<1> QED  BY <1>1, JourneyInvInit, JourneyInvStep, PTL DEF PolicySpec

\* And what this library wrote is accepted just when it compares with no map
\* that has something in it, if the decoder reads the selectors in it: a policy
\* of any depth, with values of any depth, in any numbers.
THEOREM PolicyArrives == SelectorsReadable => (PolicySpec => []ArrivesAsIssued)
<1> SUFFICES ASSUME SelectorsReadable  PROVE PolicySpec => []ArrivesAsIssued
  OBVIOUS
<1>1. JourneyInv => ArrivesAsIssued
  BY DEF JourneyInv, Journeys, ArrivesAsIssued, Flat
<1> QED  BY <1>1, JourneyInvInit, JourneyInvStep, PTL DEF PolicySpec

----------------------------------------------------------------------------
(* Values as they arrive                                                   *)

\* What arrives is a value of the same parts, as they arrive.
LEMMA ArrivedIs ==
  ASSUME NEW v \in Data
  PROVE  /\ Received(v) \in Data
         /\ IsNumber(v) =>
              /\ IsNumber(Received(v)) /\ Received(v).halves = v.halves
              /\ v.kind = "number" => Received(v).kind = "number"
              /\ ~Safe(v.halves) => Received(v).kind = v.kind
         /\ ~IsNumber(v) => Received(v).kind = v.kind
         /\ v.kind = "list" => /\ Received(v) = List(Received(v).items)
                               /\ Received(v).items = [n \in DOMAIN v.items |-> Received(v.items[n])]
         /\ v.kind = "map" => /\ Received(v).entries = [k \in DOMAIN v.entries |-> Received(v.entries[k])]
                              /\ Received(v).order = Sorted(DOMAIN v.entries)
         /\ v.kind \notin {"number", "bigint", "list", "map"} => Received(v) = v
<1> DEFINE w == Received(v)
<1>1. /\ v.kind = "bigint" => w = IF Safe(v.halves) THEN Number(v.halves) ELSE [kind |-> "bigint", halves |-> v.halves]
      /\ v.kind = "number" => w = Number(v.halves)
      /\ v.kind = "list" => w = List([n \in DOMAIN v.items |-> Received(v.items[n])])
      /\ v.kind = "map" => w = MapOf([k \in DOMAIN v.entries |-> Received(v.entries[k])], Sorted(DOMAIN v.entries))
      /\ v.kind \notin {"bigint", "number", "list", "map", "int", "float"} => w = v
  BY DataTrees, ReceivedIs
<1>2. w \in Data /\ (~IsNumber(v) => w.kind = v.kind)  BY ReceivedKinds
<1>3. v.kind \notin {"int", "float"}
 <2>1. IsValue(v)  BY DataAssumption
 <2> QED  BY <2>1 DEF IsValue
<1> HIDE DEF w
<1>4. CASE v.kind = "list"
 <2> DEFINE s == [n \in DOMAIN v.items |-> Received(v.items[n])]
 <2>1. w = List(s)  BY <1>1, <1>4
 <2> HIDE DEF s
 <2>2. w.items = s  BY <2>1 DEF List
 <2> QED  BY <1>2, <1>4, <2>1, <2>2 DEF s, w, IsNumber
<1>5. CASE v.kind = "map"
 <2> DEFINE f == [k \in DOMAIN v.entries |-> Received(v.entries[k])]
            o == Sorted(DOMAIN v.entries)
 <2>1. w = MapOf(f, o)  BY <1>1, <1>5
 <2> HIDE DEF f, o
 <2>2. w.entries = f /\ w.order = o  BY <2>1 DEF MapOf
 <2> QED  BY <1>2, <1>5, <2>2 DEF f, o, w, IsNumber
<1>6. CASE IsNumber(v)
 <2>1. w.halves = v.halves /\ w.kind \in {"number", "bigint"} /\ (v.kind = "number" => w.kind = "number")
   BY <1>1, <1>6 DEF IsNumber, Number
 <2>2. ~Safe(v.halves) => w.kind = v.kind  BY <1>1, <1>6 DEF IsNumber, Number
 <2> QED  BY <1>2, <1>6, <2>1, <2>2 DEF w, IsNumber
<1>7. CASE v.kind \notin {"number", "bigint", "list", "map"}
  BY <1>1, <1>2, <1>3, <1>7 DEF w, IsNumber
<1> QED  BY <1>4, <1>5, <1>6, <1>7 DEF IsNumber

\* Numbers are compared by their values.
LEMMA EqualNumbers ==
  ASSUME NEW a \in Data, NEW b \in Data, IsNumber(a), IsNumber(b)
  PROVE  IpldEquals[a][b] <=> /\ a.halves = b.halves /\ a.halves # NaN
                              /\ Mixed(a, b) => Safe(a.halves)
<1>1. IpldEquals[a][b] <=> EqualBody(IpldEquals, a, b)  BY EqualUnfolds
<1>2. IsValue(a) /\ IsValue(b)  BY DataAssumption
<1>3. \A h : Whole(h) => h # NaN  BY IpldAssumption DEF Whole
<1>4. CASE Mixed(a, b)  BY <1>1, <1>3, <1>4 DEF EqualBody, Mixed, Safe
<1>5. CASE ~Mixed(a, b) /\ a.kind = "number"
  BY <1>1, <1>5 DEF EqualBody, Mixed, IsNumber
<1>6. CASE ~Mixed(a, b) /\ a.kind = "bigint"
 <2>1. b.kind = "bigint"  BY <1>6 DEF Mixed, IsNumber
 <2>2. a = b <=> a.halves = b.halves  BY <1>2, <1>6, <2>1 DEF IsValue
 <2>3. a.halves # NaN  BY <1>2, <1>3, <1>6 DEF IsValue
 <2>4. EqualBody(IpldEquals, a, b) <=> a = b  BY <1>6, <2>1 DEF EqualBody
 <2> QED  BY <1>1, <1>6, <2>2, <2>3, <2>4
<1> QED  BY <1>4, <1>5, <1>6 DEF IsNumber

\* A comparison survives the wire when those of its parts do.
LEMMA ArriveAlike == \A a \in Data : Alike(a)
<1> DEFINE T == {a \in Data : Alike(a)}
<1>1. Depth \in [Data -> Nat]  BY DataAssumption
<1>2. ASSUME NEW a \in Data, \A c \in Data : Depth[c] < Depth[a] => c \in T
      PROVE  a \in T
 <2> SUFFICES ASSUME NEW b \in Data  PROVE IpldEquals[a][b] <=> IpldEquals[Received(a)][Received(b)]
   BY DEF Alike
 <2> DEFINE x == Received(a)
            y == Received(b)
 <2>1. x \in Data /\ y \in Data  BY ArrivedIs
 <2>2. /\ IpldEquals[a][b] <=> EqualBody(IpldEquals, a, b)
       /\ IpldEquals[x][y] <=> EqualBody(IpldEquals, x, y)
   BY <2>1, EqualUnfolds
 <2>3. CASE IsNumber(a) /\ IsNumber(b)
  <3>1. /\ IsNumber(x) /\ x.halves = a.halves /\ (~Safe(a.halves) => x.kind = a.kind)
        /\ IsNumber(y) /\ y.halves = b.halves /\ (~Safe(b.halves) => y.kind = b.kind)
    BY <2>3, ArrivedIs
  <3> HIDE DEF x, y
  <3>2. /\ IpldEquals[a][b] <=> a.halves = b.halves /\ a.halves # NaN /\ (Mixed(a, b) => Safe(a.halves))
        /\ IpldEquals[x][y] <=> x.halves = y.halves /\ x.halves # NaN /\ (Mixed(x, y) => Safe(x.halves))
    BY <2>1, <2>3, <3>1, EqualNumbers
  <3>3. a.halves = b.halves /\ ~Safe(a.halves) => (Mixed(a, b) <=> Mixed(x, y))
    BY <3>1 DEF Mixed
  <3> QED  BY <3>1, <3>2, <3>3 DEF x, y
 <2>4. CASE ~(IsNumber(a) /\ IsNumber(b)) /\ a.kind # b.kind
  <3>1. x.kind # y.kind /\ ~(IsNumber(x) /\ IsNumber(y))
    BY <2>4, ArrivedIs DEF IsNumber
  <3> HIDE DEF x, y
  <3>2. ~EqualBody(IpldEquals, a, b)  BY <2>4 DEF EqualBody, IsNumber
  <3>3. ~EqualBody(IpldEquals, x, y)  BY <3>1 DEF EqualBody, IsNumber
  <3> QED  BY <2>2, <3>2, <3>3 DEF x, y
 <2>5. CASE a.kind = "list" /\ b.kind = "list"
  <3>1. /\ x.kind = "list" /\ x.items = [n \in DOMAIN a.items |-> Received(a.items[n])]
        /\ y.kind = "list" /\ y.items = [n \in DOMAIN b.items |-> Received(b.items[n])]
    BY <2>5, ArrivedIs DEF IsNumber
  <3>2. a.items \in Seq(Data) /\ b.items \in Seq(Data)
    BY <2>5, DataAssumption DEF IsValue
  <3> HIDE DEF x, y
  <3>3. Len(x.items) = Len(a.items) /\ Len(y.items) = Len(b.items)
    BY <3>1, <3>2
  <3>4. \A n \in 1..Len(a.items) : Len(a.items) = Len(b.items) =>
          (IpldEquals[a.items[n]][b.items[n]] <=> IpldEquals[x.items[n]][y.items[n]])
   <4> SUFFICES ASSUME NEW n \in 1..Len(a.items), Len(a.items) = Len(b.items)
                PROVE  IpldEquals[a.items[n]][b.items[n]] <=> IpldEquals[x.items[n]][y.items[n]]
     OBVIOUS
   <4>1. n \in DOMAIN a.items /\ n \in DOMAIN b.items  BY <3>2
   <4>2. Alike(a.items[n]) /\ b.items[n] \in Data
     BY <1>2, <2>5, <3>2, <4>1, ItemsBelow
   <4>3. x.items[n] = Received(a.items[n]) /\ y.items[n] = Received(b.items[n])
     BY <3>1, <4>1
   <4> QED  BY <4>2, <4>3 DEF Alike
  <3>5. EqualBody(IpldEquals, a, b) <=>
          Len(a.items) = Len(b.items) /\ \A n \in 1..Len(a.items) : IpldEquals[a.items[n]][b.items[n]]
    BY <2>5 DEF EqualBody
  <3>6. EqualBody(IpldEquals, x, y) <=>
          Len(x.items) = Len(y.items) /\ \A n \in 1..Len(x.items) : IpldEquals[x.items[n]][y.items[n]]
    BY <3>1 DEF EqualBody
  <3> QED  BY <2>2, <3>3, <3>4, <3>5, <3>6 DEF x, y
 <2>6. CASE a.kind = "map" /\ b.kind = "map"
  <3>1. /\ x.kind = "map" /\ x.entries = [k \in DOMAIN a.entries |-> Received(a.entries[k])]
        /\ y.kind = "map" /\ y.entries = [k \in DOMAIN b.entries |-> Received(b.entries[k])]
    BY <2>6, ArrivedIs DEF IsNumber
  <3> HIDE DEF x, y
  <3>2. DOMAIN x.entries = DOMAIN a.entries /\ DOMAIN y.entries = DOMAIN b.entries
    BY <3>1
  <3>3. \A k \in DOMAIN a.entries : DOMAIN a.entries = DOMAIN b.entries =>
          (IpldEquals[a.entries[k]][b.entries[k]] <=> IpldEquals[x.entries[k]][y.entries[k]])
   <4> SUFFICES ASSUME NEW k \in DOMAIN a.entries, DOMAIN a.entries = DOMAIN b.entries
                PROVE  IpldEquals[a.entries[k]][b.entries[k]] <=> IpldEquals[x.entries[k]][y.entries[k]]
     OBVIOUS
   <4>1. Alike(a.entries[k]) /\ b.entries[k] \in Data
     BY <1>2, <2>6, EntriesBelow
   <4>2. x.entries[k] = Received(a.entries[k]) /\ y.entries[k] = Received(b.entries[k])
     BY <3>1
   <4> QED  BY <4>1, <4>2 DEF Alike
  <3>4. EqualBody(IpldEquals, a, b) <=>
          /\ DOMAIN a.entries = DOMAIN b.entries
          /\ \A k \in DOMAIN a.entries : IpldEquals[a.entries[k]][b.entries[k]]
    BY <2>6 DEF EqualBody
  <3>5. EqualBody(IpldEquals, x, y) <=>
          /\ DOMAIN x.entries = DOMAIN y.entries
          /\ \A k \in DOMAIN x.entries : IpldEquals[x.entries[k]][y.entries[k]]
    BY <3>1 DEF EqualBody
  <3> QED  BY <2>2, <3>2, <3>3, <3>4, <3>5 DEF x, y
 <2>7. CASE a.kind = b.kind /\ a.kind \notin {"number", "bigint", "list", "map"}
  <3>1. x = a /\ y = b  BY <2>7, ArrivedIs
  <3> QED  BY <3>1
 <2> QED  BY <2>3, <2>4, <2>5, <2>6, <2>7 DEF IsNumber
<1>3. Data \subseteq T
 <2> HIDE DEF T
 <2> QED  BY <1>1, <1>2, RankInduction
<1> QED  BY <1>3

\* What passes for a value is of its kind, or the same number.
LEMMA PassesAs ==
  ASSUME NEW v, NEW w, Passes(v, w)
  PROVE  /\ IsNumber(v) => /\ IsNumber(w) /\ w.halves = v.halves
                           /\ v.kind = "number" => w.kind = "number"
         /\ ~IsNumber(v) => w = Received(v) /\ w.kind = v.kind
<1>1. v \in Data  BY DEF Passes
<1>2. /\ IsNumber(v) => /\ IsNumber(Received(v)) /\ Received(v).halves = v.halves
                        /\ v.kind = "number" => Received(v).kind = "number"
      /\ ~IsNumber(v) => Received(v).kind = v.kind
  BY <1>1, ArrivedIs
<1>3. CASE w = Received(v)  BY <1>2, <1>3
<1>4. CASE w = v /\ v.kind = "bigint"  BY <1>4 DEF IsNumber
<1> QED  BY <1>3, <1>4 DEF Passes

\* A comparison that reaches a verdict reaches it on what arrives.
LEMMA ComparisonArrives ==
  ASSUME NEW op \in Orderings \cup {"==", "like"}, NEW v, NEW w, Passes(v, w), Fits(op, v), NEW value \in Data,
         op = "like" => value.kind = "string", op \in Orderings => IsNumber(value),
         RunCompare(op, v, value) # "error"
  PROVE  RunCompare(op, w, Received(value)) = RunCompare(op, v, value)
<1> DEFINE x == Received(value)
<1>1. /\ x \in Data
      /\ IsNumber(value) => /\ IsNumber(x) /\ x.halves = value.halves
                            /\ value.kind = "number" => x.kind = "number"
      /\ ~IsNumber(value) => x.kind = value.kind
      /\ value.kind = "string" => x = value
  BY ArrivedIs DEF IsNumber
<1> HIDE DEF x
<1>2. /\ v \in Data /\ w \in Data
      /\ IsNumber(v) => /\ IsNumber(w) /\ w.halves = v.halves
                        /\ v.kind = "number" => w.kind = "number"
      /\ ~IsNumber(v) => w = Received(v) /\ w.kind = v.kind
  BY PassesAs DEF Passes
<1>3. CASE op \in Orderings
 <2> DEFINE o == NumberCompare(v, value)
            u == NumberCompare(w, x)
 <2>1. Orders(o, v.halves, value.halves)  BY <1>2, <1>3, CompareIs DEF Fits
 <2>2. Orders(u, v.halves, value.halves)
  <3>1. IsNumber(w) /\ IsNumber(x) /\ w.halves = v.halves /\ x.halves = value.halves
    BY <1>1, <1>2, <1>3 DEF Fits
  <3> HIDE DEF u
  <3>2. Orders(u, w.halves, x.halves)  BY <1>1, <1>2, <3>1, CompareIs DEF u
  <3> QED  BY <3>1, <3>2
 <2>3. RunCompare(op, v, value) = RunOrdering(op, v, value) /\ RunCompare(op, w, x) = RunOrdering(op, w, x)
   BY <1>3 DEF RunCompare, Orderings
 <2>4. /\ RunOrdering(op, v, value) = Verdict(CASE op = ">"  -> o = 1
               [] op = ">=" -> o \in {0, 1}
               [] op = "<"  -> o = -1
               [] op = "<=" -> o \in {-1, 0})
       /\ RunOrdering(op, w, x) = Verdict(CASE op = ">"  -> u = 1
               [] op = ">=" -> u \in {0, 1}
               [] op = "<"  -> u = -1
               [] op = "<=" -> u \in {-1, 0})
   BY Zenon DEF RunOrdering
 <2> HIDE DEF o, u
 <2>5. (o = 1 <=> u = 1) /\ (o = -1 <=> u = -1) /\ (o = 0 <=> u = 0)
   BY <2>1, <2>2 DEF Orders
 <2>6. op \in {">", ">=", "<", "<="}  BY <1>3 DEF Orderings
 <2> QED  BY <2>3, <2>4, <2>5, <2>6 DEF x, Verdict
<1>4. CASE op = "like"
 <2>1. v.kind = "string" /\ w = v  BY <1>2, <1>4, ArrivedIs DEF Fits, IsNumber
 <2> QED  BY <1>1, <1>4, <2>1 DEF x
<1>5. CASE op = "=="
 <2>1. RunCompare(op, v, value) = RunEqual(v, value) /\ RunCompare(op, w, x) = RunEqual(w, x)
   BY <1>5 DEF RunCompare, Orderings
 <2>2. \A a, b : RunEqual(a, b) =
         IF ~Mixed(a, b) THEN Verdict(IpldEquals[a][b])
         ELSE IF Whole(IF a.kind = "number" THEN a.halves ELSE b.halves) THEN Verdict(a.halves = b.halves)
         ELSE "error"
   BY DEF RunEqual, Mixed
 <2>3. CASE IsNumber(v) /\ IsNumber(value)
  <3> DEFINE same == v.halves = value.halves /\ v.halves # NaN
  <3>1. \A h : Whole(h) => h # NaN  BY IpldAssumption DEF Whole
  <3>2. \A a \in Data, b \in Data : IsNumber(a) /\ IsNumber(b) =>
          /\ Mixed(a, b) <=> a.kind # b.kind
          /\ a.kind = "bigint" => Whole(a.halves)
          /\ b.kind = "bigint" => Whole(b.halves)
   <4> TAKE a \in Data, b \in Data
   <4> HAVE IsNumber(a) /\ IsNumber(b)
   <4>1. a.kind \in {"number", "bigint"} /\ b.kind \in {"number", "bigint"}
     BY DEF IsNumber
   <4>2. Mixed(a, b) <=> a.kind # b.kind  BY <4>1 DEF Mixed
   <4>3. IsValue(a) /\ IsValue(b)  BY DataAssumption
   <4> QED  BY <4>2, <4>3 DEF IsValue
  <3>3. \A a \in Data, b \in Data : IsNumber(a) /\ IsNumber(b) =>
          RunEqual(a, b) = IF a.kind = b.kind \/ (Whole(a.halves) /\ Whole(b.halves))
                           THEN Verdict(a.halves = b.halves /\ a.halves # NaN) ELSE "error"
   <4> SUFFICES ASSUME NEW a \in Data, NEW b \in Data, IsNumber(a), IsNumber(b)
                PROVE  RunEqual(a, b) = IF a.kind = b.kind \/ (Whole(a.halves) /\ Whole(b.halves))
                          THEN Verdict(a.halves = b.halves /\ a.halves # NaN) ELSE "error"
     OBVIOUS
   <4>1. /\ Mixed(a, b) <=> a.kind # b.kind
         /\ a.kind = "bigint" => Whole(a.halves)
         /\ b.kind = "bigint" => Whole(b.halves)
     BY <3>2
   <4>2. CASE a.kind = b.kind
    <5>1. IpldEquals[a][b] <=> a.halves = b.halves /\ a.halves # NaN
      BY <4>1, <4>2, EqualNumbers
    <5>2. Verdict(IpldEquals[a][b]) = Verdict(a.halves = b.halves /\ a.halves # NaN)
      BY <5>1, VerdictIs
    <5> QED  BY <2>2, <4>1, <4>2, <5>2
   <4>3. CASE a.kind # b.kind
    <5>1. Whole(IF a.kind = "number" THEN a.halves ELSE b.halves) <=> Whole(a.halves) /\ Whole(b.halves)
      BY <4>1, <4>3 DEF IsNumber
    <5>2. Whole(a.halves) => (a.halves = b.halves <=> a.halves = b.halves /\ a.halves # NaN)
      BY <3>1
    <5>3. Whole(a.halves) => Verdict(a.halves = b.halves) = Verdict(a.halves = b.halves /\ a.halves # NaN)
      BY <5>2, VerdictIs
    <5> QED  BY <2>2, <4>1, <4>3, <5>1, <5>3
   <4> QED  BY <4>2, <4>3
  <3>4. /\ RunEqual(v, value) = IF v.kind = value.kind \/ (Whole(v.halves) /\ Whole(value.halves))
                                THEN Verdict(same) ELSE "error"
        /\ RunEqual(w, x) = IF w.kind = x.kind \/ (Whole(w.halves) /\ Whole(x.halves))
                            THEN Verdict(w.halves = x.halves /\ w.halves # NaN) ELSE "error"
    BY <1>1, <1>2, <2>3, <3>3
  <3>5. w.halves = v.halves /\ x.halves = value.halves  BY <1>1, <1>2, <2>3
  <3>6. v.kind = value.kind /\ w.kind # x.kind => Whole(w.halves) /\ Whole(x.halves)
   <4>1. v.kind = "bigint" => Whole(v.halves)  BY <1>2, <2>3, <3>2
   <4>2. value.kind = "bigint" => Whole(value.halves)  BY <1>2, <2>3, <3>2
   <4> QED  BY <1>1, <1>2, <2>3, <3>5, <4>1, <4>2 DEF IsNumber
  <3> QED  BY <2>1, <3>4, <3>5, <3>6 DEF x
 <2>4. CASE ~(IsNumber(v) /\ IsNumber(value))
  <3>1. ~(IsNumber(w) /\ IsNumber(x))  BY <1>1, <1>2, <2>4 DEF IsNumber
  <3>2. \A a, b : ~(IsNumber(a) /\ IsNumber(b)) => ~Mixed(a, b)
    BY DEF IsNumber, Mixed
  <3>3. RunEqual(v, value) = Verdict(IpldEquals[v][value]) /\ RunEqual(w, x) = Verdict(IpldEquals[w][x])
    BY <2>2, <2>4, <3>1, <3>2
  <3>4. IpldEquals[v][value] <=> IpldEquals[w][x]
   <4>1. CASE w = Received(v)
    <5>1. Alike(v)  BY <1>2, ArriveAlike
    <5> QED  BY <4>1, <5>1 DEF Alike, x
   <4>2. CASE w = v /\ IsNumber(v)
    <5>1. \A a \in Data, b \in Data : IsNumber(a) /\ ~IsNumber(b) => ~IpldEquals[a][b]
      BY EqualUnfolds DEF EqualBody, IsNumber
    <5> QED  BY <1>1, <1>2, <2>4, <3>1, <4>2, <5>1
   <4> QED  BY <4>1, <4>2 DEF Passes, IsNumber
  <3>5. Verdict(IpldEquals[v][value]) = Verdict(IpldEquals[w][x])
    BY <3>4, VerdictIs
  <3> QED  BY <2>1, <3>3, <3>5 DEF x
 <2> QED  BY <2>3, <2>4
<1> QED  BY <1>3, <1>4, <1>5

----------------------------------------------------------------------------
(* Selectors on what arrives                                               *)

\* A value is in order when it lists its keys as DAG-CBOR does, and so do its parts.
LEMMA OrderIs ==
  ASSUME NEW v \in Data
  PROVE  OutOfOrder(v) <=> \/ v.kind = "map" /\ v.order # Sorted(DOMAIN v.entries)
                           \/ \E p \in Parts(v) : OutOfOrder(p)
<1>1. Tree(v)  BY DataTrees
<1>2. ToWire!Within(v) = {v} \cup UNION {ToWire!Within(p) : p \in ToWire!Parts(v)}
  BY <1>1, ToWire!WithinSplits, IpldAssumption DEF Tree
<1>3. Within(v) = {v} \cup UNION {Within(p) : p \in Parts(v)}
  BY <1>2, SameTrees
<1> QED  BY <1>3, Zenon DEF OutOfOrder

\* What arrives for a slice is the slice of what arrives.
LEMMA SliceArrives ==
  ASSUME NEW s \in Seq(Data), NEW start, NEW end,
         start = NoEnd \/ start \in Int, end = NoEnd \/ end \in Int
  PROVE  /\ SliceOf(Arrivals(s), start, end) = Arrivals(SliceOf(s, start, end))
         /\ Elements(SliceOf(s, start, end)) \subseteq Elements(s)
<1> DEFINE t == [n \in DOMAIN s |-> Received(s[n])]
           N == Len(s)
           from == IF start = NoEnd THEN 0 ELSE Bounded(start, N)
           to == IF end = NoEnd THEN N ELSE Bounded(end, N)
           last == Max({from, to})
           S == {s[n] : n \in DOMAIN s}
           R == {Received(x) : x \in S}
           u == SubSeq(s, from + 1, last)
           w == SubSeq(t, from + 1, last)
<1>1. N \in Nat /\ DOMAIN s = 1..N /\ s \in Seq(S) /\ t \in Seq(R) /\ Len(t) = N
  OBVIOUS
<1>2. SliceOf(s, start, end) = u  BY DEF SliceOf, Bounded
<1>3. SliceOf(t, start, end) = w
 <2> HIDE DEF t
 <2> QED  BY <1>1, Zenon DEF SliceOf, Bounded
<1>4. from \in Nat /\ from <= N /\ to \in Nat /\ to <= N
 <2>1. 0 \in Nat /\ 0 <= N /\ N <= N  BY <1>1
 <2> QED  BY <1>1, <2>1, BoundDivides, Zenon
<1> HIDE DEF from, to
<1>5. last = from \/ last = to
 <2>1. from \in Int /\ to \in Int /\ (from <= to \/ to <= from)  BY <1>4
 <2> QED  BY <2>1, OfTwo, Zenon
<1> HIDE DEF last
<1>6. from \in Nat /\ last \in Nat /\ last <= N  BY <1>4, <1>5
<1>7. \A i \in from + 1 .. last : i \in 1..N /\ s[i] \in S /\ t[i] = Received(s[i]) /\ t[i] \in R
 <2>1. \A i \in 1..N : s[i] \in S /\ t[i] = Received(s[i]) /\ t[i] \in R
   BY <1>1
 <2>2. \A i \in from + 1 .. last : i \in 1..N  BY <1>1, <1>6
 <2> HIDE DEF S, R, t
 <2> QED  BY <2>1, <2>2
<1> DEFINE L == IF from + 1 <= last THEN last - (from + 1) + 1 ELSE 0
<1>8. /\ u \in Seq(S) /\ Len(u) = L
      /\ \A i \in 1..L : u[i] = s[from + 1 + i - 1]
 <2> HIDE DEF S, t
 <2> QED  BY <1>6, <1>7, SubSeqProperties
<1>9. /\ w \in Seq(R) /\ Len(w) = L
      /\ \A i \in 1..L : w[i] = t[from + 1 + i - 1]
 <2> HIDE DEF R, t
 <2> QED  BY <1>6, <1>7, SubSeqProperties
<1>10. L \in Nat  BY <1>6
<1>11. \A i \in 1..L : from + 1 + i - 1 \in from + 1 .. last  BY <1>6
<1> HIDE DEF u, w, t, R, L
<1>12. \A i \in 1..L : w[i] = Received(u[i]) /\ u[i] \in S
  BY <1>7, <1>8, <1>9, <1>11
<1>13. w = [n \in 1..L |-> w[n]] /\ DOMAIN u = 1..L  BY <1>8, <1>9, <1>10
<1>14. w = [n \in DOMAIN u |-> Received(u[n])]  BY <1>12, <1>13
<1>15. {u[n] : n \in DOMAIN u} \subseteq S  BY <1>12, <1>13
<1> QED  BY <1>2, <1>3, <1>14, <1>15, Zenon DEF t, S, Arrivals, Elements

\* A part of a value, and what arrives for it.
LEMMA PartsFollow ==
  ASSUME NEW v \in Data, NEW w, NEW a \in Parts(v)
  PROVE  Follow(v, w, a, Received(a))
<1>1. a \in Data  BY PartsInData
<1>2. Received(a) \in Data  BY <1>1, ArrivedIs
<1>3. \A d \in Data : d.kind # "error"  BY DataAssumption DEF IsValue
<1>4. OutOfOrder(a) => OutOfOrder(v)  BY OrderIs
<1> QED  BY <1>1, <1>2, <1>3, <1>4 DEF Follow, Passes

\* A filter picks from what arrives what arrives for its pick.
LEMMA FilterArrives ==
  ASSUME NEW v, NEW w, Passes(v, w), NEW f \in Plain, ~OutOfOrder(v) \/ f # Values
  PROVE  Follow(v, w, ApplyFilter(v, f), ApplyFilter(w, f))
<1> DEFINE a == ApplyFilter(v, f)
           b == ApplyFilter(w, f)
<1>1. \A why : Error(why).kind = "error"  BY DEF Error
<1>2. v \in Data /\ w \in Data /\ IsValue(v) /\ IsValue(w)
  BY DataAssumption DEF Passes
<1>3. (a.kind = "error" \/ a \in Data) /\ (b.kind = "error" \/ b \in Data)
  BY <1>2, PredicatesAssumption
<1>4. \A d \in Data : d.kind # "error"  BY DataAssumption DEF IsValue
<1>5. a.kind = "error" /\ b.kind = "error" => Follow(v, w, a, b)  BY DEF Follow
<1>6. CASE v.kind \notin {"list", "bytes", "map"}
 <2>1. w.kind \notin {"list", "bytes", "map"}  BY <1>6, PassesAs DEF IsNumber
 <2>2. \A x : x.kind \notin {"list", "bytes", "map"} => ApplyFilter(x, f).kind = "error"
   BY <1>1, PlainKinds DEF ApplyFilter
 <2> QED  BY <1>5, <1>6, <2>1, <2>2
<1> SUFFICES ASSUME v.kind \in {"list", "bytes", "map"}  PROVE Follow(v, w, a, b)
  BY <1>6
<1>7. w = Received(v) /\ w.kind = v.kind  BY PassesAs DEF IsNumber
<1>8. CASE v.kind = "bytes"
 <2>1. w = v  BY <1>2, <1>7, <1>8, ArrivedIs
 <2>2. b = a  BY <2>1
 <2>3. a.kind # "error" => a.kind \in {"bigint", "bytes"}
  <3> HIDE DEF a
  <3>1. f.kind = "field" => a.kind = "error"  BY <1>1, <1>8 DEF ApplyFilter, a
  <3>2. f.kind = "values" => a.kind = "error"
    BY <1>1, <1>8 DEF ApplyFilter, a
  <3>3. f.kind = "arrayIndex" => a.kind \in {"error", "bigint"}
    BY <1>1, <1>8 DEF ApplyFilter, BigInt, a
  <3>4. f.kind = "slice" => a.kind = "bytes"
   <4>1. v = BytesOf(v.items)  BY <1>2, <1>8 DEF IsValue
   <4>2. f.kind = "slice" => a = [v EXCEPT !.items = SliceOf(v.items, f.start, f.end)]
     BY <1>8 DEF ApplyFilter, a
   <4> QED  BY <1>8, <4>1, <4>2 DEF BytesOf
  <3> QED  BY <3>1, <3>2, <3>3, <3>4, PlainKinds
 <2>4. a.kind # "error" => Passes(a, b) /\ ~OutOfOrder(a)
  <3> HIDE DEF a, b
  <3> SUFFICES ASSUME a.kind # "error"  PROVE Passes(a, b) /\ ~OutOfOrder(a)
    OBVIOUS
  <3>1. a \in Data  BY <1>3
  <3>2. a.kind = "bytes" => Received(a) = a  BY <3>1, ArrivedIs
  <3>3. Parts(a) = {} /\ a.kind # "map"  BY <2>3, PartsAre
  <3>4. ~OutOfOrder(a)  BY <3>1, <3>3, OrderIs
  <3> QED  BY <2>2, <2>3, <3>1, <3>2, <3>4 DEF Passes
 <2> HIDE DEF a, b
 <2> QED  BY <2>2, <2>4 DEF Follow
<1>9. CASE v.kind = "list"
 <2> DEFINE s == v.items
            t == w.items
 <2>1. w.kind = "list" /\ t = [n \in DOMAIN s |-> Received(s[n])] /\ s \in Seq(Data) /\ w = List(t) /\ v = List(s)
   BY <1>2, <1>7, <1>9, ArrivedIs DEF IsValue
 <2>2. Len(t) = Len(s) /\ \A n \in 1..Len(s) : t[n] = Received(s[n]) /\ s[n] \in Parts(v)
  <3>1. Parts(v) = {s[n] : n \in DOMAIN s}  BY <1>9, PartsAre
  <3> HIDE DEF s, t
  <3> QED  BY <2>1, <3>1
 <2>3. CASE f.kind = "field"  BY <1>1, <1>5, <1>9, <2>1, <2>3 DEF ApplyFilter
 <2>4. CASE f.kind = "arrayIndex"
  <3> DEFINE k == IF f.index >= 0 THEN f.index ELSE Len(s) + f.index
  <3>1. a = IF k < 0 \/ k >= Len(s) THEN Error("indexOutOfBounds") ELSE s[k+1]
    BY <1>9, <2>4 DEF ApplyFilter
  <3>2. b = IF k < 0 \/ k >= Len(s) THEN Error("indexOutOfBounds") ELSE t[k+1]
   <4>1. b = IF (IF f.index >= 0 THEN f.index ELSE Len(t) + f.index) < 0
                \/ (IF f.index >= 0 THEN f.index ELSE Len(t) + f.index) >= Len(t)
             THEN Error("indexOutOfBounds") ELSE t[(IF f.index >= 0 THEN f.index ELSE Len(t) + f.index) + 1]
     BY <2>1, <2>4 DEF ApplyFilter
   <4> QED  BY <2>2, <4>1
  <3> HIDE DEF a, b, s, t
  <3>3. f.index \in Int /\ Len(s) \in Nat  BY <2>1, <2>4, PlainKinds
  <3>4. CASE k < 0 \/ k >= Len(s)  BY <1>1, <1>5, <3>1, <3>2, <3>4
  <3>5. CASE ~(k < 0 \/ k >= Len(s))
   <4>1. k + 1 \in 1..Len(s)  BY <3>3, <3>5
   <4>2. a = s[k+1] /\ b = t[k+1]  BY <3>1, <3>2, <3>5
   <4> HIDE DEF k
   <4>3. a \in Parts(v) /\ b = Received(a)  BY <2>2, <4>1, <4>2
   <4> QED  BY <1>2, <4>3, PartsFollow
  <3> QED  BY <3>4, <3>5
 <2>5. CASE f.kind = "slice"
  <3> DEFINE u == SliceOf(s, f.start, f.end)
             x == SliceOf(t, f.start, f.end)
  <3>1. (f.start = NoEnd \/ f.start \in Int) /\ (f.end = NoEnd \/ f.end \in Int)
    BY <2>5, PlainKinds
  <3>2. a = [v EXCEPT !.items = u] /\ b = [w EXCEPT !.items = x]
    BY <1>9, <2>1, <2>5 DEF ApplyFilter
  <3>3. a = List(u) /\ b = List(x)
   <4> HIDE DEF a, b, u, x, s, t
   <4>1. \A q, r : [List(q) EXCEPT !.items = r] = List(r)  BY DEF List
   <4> QED  BY <2>1, <3>2, <4>1
  <3>4. x = [n \in DOMAIN u |-> Received(u[n])] /\ {u[n] : n \in DOMAIN u} \subseteq {s[n] : n \in DOMAIN s}
   <4> HIDE DEF s, t
   <4>1. t = Arrivals(s)  BY <2>1 DEF Arrivals
   <4>2. s \in Seq(Data)  BY <2>1
   <4>3. /\ SliceOf(Arrivals(s), f.start, f.end) = Arrivals(u)
         /\ Elements(u) \subseteq Elements(s)
     BY <3>1, <4>2, SliceArrives
   <4> QED  BY <4>1, <4>3, Zenon DEF Arrivals, Elements
  <3> HIDE DEF a, b, u, x, s, t
  <3>5. a.kind = "list" /\ a.items = u /\ b.kind = "list"  BY <3>3 DEF List
  <3>6. a \in Data /\ b \in Data  BY <1>3, <3>5
  <3>7. Received(a) = List(Received(a).items) /\ Received(a).items = [n \in DOMAIN u |-> Received(u[n])]
    BY <3>5, <3>6, ArrivedIs
  <3>8. Received(a) = b  BY <3>3, <3>4, <3>7
  <3>9. Parts(a) \subseteq Parts(v)
   <4>1. Parts(a) = {u[n] : n \in DOMAIN u}  BY <3>5, PartsAre
   <4>2. Parts(v) = {s[n] : n \in DOMAIN s}  BY <1>9, PartsAre DEF s
   <4> QED  BY <3>4, <4>1, <4>2
  <3>10. OutOfOrder(a) => OutOfOrder(v)  BY <1>2, <3>5, <3>6, <3>9, OrderIs
  <3> QED  BY <3>5, <3>6, <3>8, <3>10 DEF Follow, Passes
 <2>6. CASE f.kind = "values"
  <3>1. a = v /\ b = w  BY <1>9, <2>1, <2>6 DEF ApplyFilter
  <3> HIDE DEF a, b
  <3> QED  BY <1>9, <2>1, <3>1 DEF Follow
 <2> QED  BY <2>3, <2>4, <2>5, <2>6, PlainKinds
<1>10. CASE v.kind = "map"
 <2>1. /\ w.kind = "map" /\ w.entries = [k \in DOMAIN v.entries |-> Received(v.entries[k])]
       /\ w.order = Sorted(DOMAIN v.entries)
   BY <1>2, <1>7, <1>10, ArrivedIs
 <2>2. Parts(v) = {v.entries[k] : k \in DOMAIN v.entries}  BY <1>10, PartsAre
 <2>3. CASE f.kind = "field"
  <3>1. a = IF f.key \notin DOMAIN v.entries THEN Error("keyNotFound") ELSE v.entries[f.key]
    BY <1>10, <2>3 DEF ApplyFilter
  <3>2. b = IF f.key \notin DOMAIN w.entries THEN Error("keyNotFound") ELSE w.entries[f.key]
    BY <2>1, <2>3 DEF ApplyFilter
  <3> HIDE DEF a, b
  <3>3. DOMAIN w.entries = DOMAIN v.entries /\ \A k \in DOMAIN v.entries : w.entries[k] = Received(v.entries[k])
    BY <2>1
  <3>4. CASE f.key \notin DOMAIN v.entries
    BY <1>1, <1>5, <3>1, <3>2, <3>3, <3>4
  <3>5. CASE f.key \in DOMAIN v.entries
   <4>1. a \in Parts(v) /\ b = Received(a)  BY <2>2, <3>1, <3>2, <3>3, <3>5
   <4> QED  BY <1>2, <4>1, PartsFollow
  <3> QED  BY <3>4, <3>5
 <2>4. CASE f.kind \in {"arrayIndex", "slice"}
   BY <1>1, <1>5, <1>10, <2>1, <2>4 DEF ApplyFilter
 <2>5. CASE f.kind = "values"
  <3>1. ~OutOfOrder(v)  BY <2>5, PlainKinds
  <3>2. v.order = Sorted(DOMAIN v.entries)  BY <1>2, <1>10, <3>1, OrderIs
  <3> DEFINE N == Len(v.order)
             u == [n \in 1..N |-> v.entries[v.order[n]]]
             x == [n \in 1..N |-> w.entries[v.order[n]]]
  <3>3. a = List(u) /\ b = List(x)
   <4>1. a = List(ToVec(v)) /\ b = List(ToVec(w))
     BY <1>10, <2>1, <2>5 DEF ApplyFilter
   <4>2. ToVec(v) = u /\ ToVec(w) = x  BY <1>10, <2>1, <3>2 DEF ToVec
   <4> QED  BY <4>1, <4>2
  <3>4. \A n \in 1..N : u[n] \in Parts(v) /\ x[n] = Received(u[n])
   <4> SUFFICES ASSUME NEW n \in 1..N  PROVE u[n] \in Parts(v) /\ x[n] = Received(u[n])
     OBVIOUS
   <4> DEFINE k == v.order[n]
   <4>1. k \in DOMAIN v.entries  BY <1>2, <1>10 DEF IsValue
   <4>2. u[n] = v.entries[k] /\ x[n] = w.entries[k]  OBVIOUS
   <4> HIDE DEF k, u, x
   <4> QED  BY <2>1, <2>2, <4>1, <4>2
  <3>5. DOMAIN u = 1..N /\ x = [n \in 1..N |-> x[n]]  OBVIOUS
  <3> HIDE DEF a, b, u, x, N
  <3>6. a.kind = "list" /\ a.items = u /\ b.kind = "list"  BY <3>3 DEF List
  <3>7. a \in Data /\ b \in Data  BY <1>3, <3>6
  <3>8. Received(a) = List(Received(a).items) /\ Received(a).items = [n \in DOMAIN u |-> Received(u[n])]
    BY <3>6, <3>7, ArrivedIs
  <3>9. x = [n \in DOMAIN u |-> Received(u[n])]  BY <3>4, <3>5
  <3>10. Received(a) = b  BY <3>3, <3>8, <3>9
  <3>11. Parts(a) \subseteq Parts(v)
   <4>1. Parts(a) = {u[n] : n \in DOMAIN u}  BY <3>6, PartsAre
   <4> QED  BY <3>4, <3>5, <4>1
  <3>12. OutOfOrder(a) => OutOfOrder(v)  BY <1>2, <3>6, <3>7, <3>11, OrderIs
  <3> QED  BY <3>6, <3>7, <3>10, <3>12 DEF Follow, Passes
 <2> QED  BY <2>3, <2>4, <2>5, PlainKinds
<1> QED  BY <1>8, <1>9, <1>10

\* The null of an optional filter that missed.
LEMMA NullFollows == \A v, w : Follow(v, w, Null, Null)
<1>1. Null \in Data /\ Null.kind = "null"  BY PredicatesAssumption DEF Null
<1>2. Received(Null) = Null  BY <1>1, ArrivedIs
<1>3. Parts(Null) = {}  BY <1>1, PartsAre
<1>4. ~OutOfOrder(Null)  BY <1>1, <1>3, OrderIs
<1> QED  BY <1>1, <1>2, <1>4 DEF Follow, Passes

\* A selector picks from what arrives what arrives for its pick.
LEMMA MeaningArrives ==
  ASSUME NEW fs \in Seq(Filter), NEW v \in Data, NEW w, w = Received(v), ~OutOfOrder(v) \/ Bare(fs)
  PROVE  Follow(v, w, Meaning(fs, v), Meaning(fs, w))
<1>1. PICK x : IsWay(x, fs, v, Len(fs)) /\ Meaning(fs, v) = Reached(x, fs)
  BY MeaningIsReached
<1>2. PICK y : IsWay(y, fs, w, Len(fs)) /\ Meaning(fs, w) = Reached(y, fs)
  BY MeaningIsReached
<1>3. Len(fs) \in Nat /\ DOMAIN fs = 1..Len(fs)  OBVIOUS
<1>4. /\ x[0] = v /\ \A n \in 1..Len(fs) :
           x[n] = IF x[n-1].kind = "error" THEN x[n-1] ELSE Picks(x[n-1], InnerOf(fs[n]))
      /\ y[0] = w /\ \A n \in 1..Len(fs) :
           y[n] = IF y[n-1].kind = "error" THEN y[n-1] ELSE Picks(y[n-1], InnerOf(fs[n]))
 <2>1. 0 \in 0..Len(fs) /\ \A n \in 1..Len(fs) : n \in 0..Len(fs) /\ n # 0
   BY <1>3
 <2> QED  BY <1>1, <1>2, <2>1, Zenon DEF IsWay
<1> DEFINE T == {n \in Nat : n <= Len(fs) => Follow(v, w, x[n], y[n])}
<1>5. 0 \in T
 <2>1. v.kind # "error" /\ w.kind # "error" /\ w \in Data
  <3>1. w \in Data  BY ArrivedIs
  <3>2. IsValue(v) /\ IsValue(w)  BY <3>1, DataAssumption, Zenon
  <3> QED  BY <3>1, <3>2 DEF IsValue
 <2>2. Follow(v, w, x[0], y[0])  BY <1>4, <2>1 DEF Follow, Passes
 <2> QED  BY <2>2
<1>6. ASSUME NEW n \in Nat, n \in T  PROVE n + 1 \in T
 <2> SUFFICES ASSUME n + 1 <= Len(fs)  PROVE Follow(v, w, x[n+1], y[n+1])
   OBVIOUS
 <2> DEFINE i == n + 1  f == InnerOf(fs[i])
 <2>1. i \in 1..Len(fs) /\ i - 1 = n /\ n <= Len(fs)  BY <1>3
 <2>2. Follow(v, w, x[n], y[n])  BY <1>6, <2>1
 <2>3. fs[i] \in Filter  BY <2>1, ElementOfSeq, Zenon
 <2>4. f \in Plain /\ (fs[i] = Try(f) \/ fs[i] = f)  BY <2>3, InnerIsPlain
 <2>5. /\ x[i] = IF x[n].kind = "error" THEN x[n] ELSE Picks(x[n], f)
       /\ y[i] = IF y[n].kind = "error" THEN y[n] ELSE Picks(y[n], f)
  <3> HIDE DEF i, f
  <3>1. /\ x[i] = IF x[i-1].kind = "error" THEN x[i-1] ELSE Picks(x[i-1], f)
        /\ y[i] = IF y[i-1].kind = "error" THEN y[i-1] ELSE Picks(y[i-1], f)
    BY <1>4, <2>1, Zenon DEF f
  <3> QED  BY <2>1, <3>1
 <2> HIDE DEF f
 <2>6. Bare(fs) => f # Values  BY <1>3, <2>1, <2>4 DEF Bare
 <2> HIDE DEF i
 <2>7. CASE x[n].kind = "error" /\ y[n].kind = "error"
   BY <2>2, <2>5, <2>7 DEF i
 <2>8. CASE x[n].kind # "error" /\ y[n].kind # "error"
  <3>1. Passes(x[n], y[n]) /\ (~OutOfOrder(v) => ~OutOfOrder(x[n]))
    BY <2>2, <2>8 DEF Follow
  <3>2. IsValue(x[n]) /\ IsValue(y[n])  BY <3>1, DataAssumption DEF Passes
  <3>3. x[i] = ApplyFilter(x[n], f) /\ y[i] = ApplyFilter(y[n], f)
    BY <2>4, <2>5, <2>8, <3>2, FilterPicks
  <3>4. Follow(x[n], y[n], x[i], y[i])
    BY <2>4, <2>6, <3>1, <3>3, FilterArrives
  <3>5. Follow(v, w, x[i], y[i])  BY <3>1, <3>4 DEF Follow
  <3> QED  BY <3>5 DEF i
 <2> QED  BY <2>2, <2>7, <2>8 DEF Follow
<1>7. \A n \in 0..Len(fs) : Follow(v, w, x[n], y[n])
 <2>1. Nat \subseteq T
  <3> HIDE DEF T
  <3> QED  BY <1>5, <1>6, SetInduction
 <2> QED  BY <1>3, <2>1
<1> HIDE DEF T
<1> DEFINE misses == {n \in 1..Len(fs) : x[n].kind = "error"}
<1>8. misses = {n \in 1..Len(fs) : y[n].kind = "error"}
 <2>1. \A n \in 1..Len(fs) : n \in 0..Len(fs)  BY <1>3
 <2>2. \A n \in 1..Len(fs) : x[n].kind = "error" <=> y[n].kind = "error"
   BY <1>7, <2>1 DEF Follow
 <2> QED  BY <2>2
<1>9. /\ Reached(x, fs) = IF misses = {} THEN x[Len(fs)]
                          ELSE IF fs[Min(misses)].kind = "try" THEN Null ELSE x[Min(misses)]
      /\ Reached(y, fs) = IF misses = {} THEN y[Len(fs)]
                          ELSE IF fs[Min(misses)].kind = "try" THEN Null ELSE y[Min(misses)]
 <2>1. Reached(x, fs) = IF misses = {} THEN x[Len(fs)]
                        ELSE IF fs[Min(misses)].kind = "try" THEN Null ELSE x[Min(misses)]
   BY DEF Reached
 <2> HIDE DEF misses
 <2>2. Reached(y, fs) = IF misses = {} THEN y[Len(fs)]
                        ELSE IF fs[Min(misses)].kind = "try" THEN Null ELSE y[Min(misses)]
   BY <1>8, Zenon DEF Reached
 <2> QED  BY <2>1, <2>2
<1>10. misses # {} => Min(misses) \in 0..Len(fs)
 <2>1. misses \in SUBSET Nat  BY <1>3
 <2>2. misses # {} => Min(misses) \in misses
  <3> HIDE DEF misses
  <3> QED  BY <2>1, MinInT
 <2> QED  BY <1>3, <2>2
<1>11. Len(fs) \in 0..Len(fs)  BY <1>3
<1> HIDE DEF misses
<1>12. Follow(v, w, Reached(x, fs), Reached(y, fs))
  BY <1>7, <1>9, <1>10, <1>11, NullFollows
<1> QED  BY <1>1, <1>2, <1>12

\* So it gives a predicate the same to look at.
LEMMA SelectedArrives ==
  ASSUME NEW op \in Orderings \cup {"==", "like", "all", "any"},
         NEW fs \in Seq(Filter), NEW v \in Data, NEW w, w = Received(v), ~OutOfOrder(v) \/ Bare(fs)
  PROVE  Follow(v, w, Selected(op, fs, v), Selected(op, fs, w))
<1> DEFINE a == Meaning(fs, v)
           b == Meaning(fs, w)
<1>1. Follow(v, w, a, b)  BY MeaningArrives
<1>2. \A why : Error(why).kind = "error"  BY DEF Error
<1> HIDE DEF a, b
<1>3. \A x : Fitting(op, x) = IF \/ op = "=="
                                 \/ op \in Orderings /\ IsNumber(x)
                                 \/ op = "like" /\ x.kind = "string"
                                 \/ op \in {"all", "any"} /\ x.kind \in {"list", "map"}
                              THEN x ELSE Error("selectorError")
  BY DEF Fitting, Orderings
<1>4. CASE a.kind = "error" /\ b.kind = "error"
  BY <1>2, <1>3, <1>4 DEF Selected, Follow, a, b
<1>5. CASE a.kind # "error" /\ b.kind # "error" /\ Passes(a, b)
 <2>1. (IsNumber(a) <=> IsNumber(b)) /\ (~IsNumber(a) => b.kind = a.kind)
   BY <1>5, PassesAs DEF IsNumber
 <2>2. \/ Fitting(op, a) = a /\ Fitting(op, b) = b
       \/ Fitting(op, a) = Error("selectorError") /\ Fitting(op, b) = Error("selectorError")
   BY <1>3, <2>1 DEF IsNumber
 <2>3. Follow(v, w, Fitting(op, a), Fitting(op, b))
   BY <1>1, <1>2, <2>2 DEF Follow
 <2> QED  BY <2>3 DEF Selected, a, b
<1> QED  BY <1>1, <1>4, <1>5 DEF Follow

----------------------------------------------------------------------------
(* Verdicts on what arrives                                                *)

\* Every run of a predicate has a verdict.
LEMMA RunTyped == \A p \in Predicate, d \in Data : RunPredicate[p][d] \in Verdicts
<1> DEFINE T == {p \in Predicate : \A d \in Data : RunPredicate[p][d] \in Verdicts}
<1>1. ASSUME NEW p \in Predicate, \A q \in Predicate : Size[q] < Size[p] => q \in T
      PROVE  p \in T
 <2> SUFFICES ASSUME NEW d \in Data  PROVE RunPredicate[p][d] \in Verdicts
   OBVIOUS
 <2> DEFINE X == Subs(RunPredicate, p, d)
            N == Count(p, d)
 <2>1. \A n \in 1..N : X[n] \in Verdicts
  <3> SUFFICES ASSUME NEW n \in 1..N  PROVE X[n] \in Verdicts  OBVIOUS
  <3>1. PICK q, e : IsNth(n, q, e, p, d)  BY SubsAre
  <3>2. q \in T /\ e \in Data /\ X[n] = RunPredicate[q][e]
    BY <1>1, <3>1 DEF IsNth, Lower
  <3> HIDE DEF X
  <3> QED  BY <3>2
 <2>2. X = [n \in 1..N |-> X[n]]  BY SubsAre
 <2>3. RunPredicate[p][d] = RunFrom(p, d, X)  BY RunUnfolds
 <2> HIDE DEF X, N
 <2>4. X \in [1..N -> Verdicts]  BY <2>1, <2>2
 <2> QED  BY <2>3, <2>4, RunFromTyped DEF N
<1>2. Size \in [Predicate -> Nat]  BY PredicatesAssumption
<1>3. Predicate \subseteq T
 <2> HIDE DEF T
 <2> QED  BY <1>1, <1>2, RankInduction
<1> QED  BY <1>3

\* The first part that is not unit, and where it is.
LEMMA FirstOtherIs ==
  ASSUME NEW N \in Nat, NEW X \in [1..N -> Verdicts], NEW unit
  PROVE  \/ FirstOther(X, unit) = unit /\ \A n \in 1..N : X[n] = unit
         \/ \E k \in 1..N : /\ FirstOther(X, unit) = X[k] /\ X[k] # unit
                            /\ \A n \in 1..N : n < k => X[n] = unit
<1> DEFINE others == {n \in DOMAIN X : X[n] # unit}
<1>1. DOMAIN X = 1..N  OBVIOUS
<1>2. CASE others = {}
 <2>1. FirstOther(X, unit) = unit  BY <1>2 DEF FirstOther
 <2> QED  BY <1>1, <1>2, <2>1
<1>3. CASE others # {}
 <2> DEFINE k == Min(others)
 <2>1. others \in SUBSET Nat  OBVIOUS
 <2>2. FirstOther(X, unit) = X[k]  BY <1>3 DEF FirstOther
 <2>3. k \in others /\ \A n \in others : k <= n
  <3> HIDE DEF others
  <3> QED  BY <1>3, <2>1, MinInT
 <2> HIDE DEF k
 <2>4. k \in 1..N /\ X[k] # unit  BY <2>3
 <2>5. \A n \in 1..N : n < k => X[n] = unit
  <3> SUFFICES ASSUME NEW n \in 1..N, n < k, X[n] # unit  PROVE FALSE  OBVIOUS
  <3>1. n \in others  OBVIOUS
  <3> HIDE DEF others
  <3> QED  BY <2>3, <2>4, <3>1
 <2> QED  BY <2>2, <2>4, <2>5
<1> HIDE DEF others
<1> QED  BY <1>2, <1>3

\* Parts that are kept one by one keep the verdict.
LEMMA FirstKept ==
  ASSUME NEW N \in Nat, NEW X \in [1..N -> Verdicts], NEW Y \in [1..N -> Verdicts], NEW unit \in {"true", "false"},
         \A n \in 1..N : Keeps(X[n], Y[n], FALSE)
  PROVE  Keeps(FirstOther(X, unit), FirstOther(Y, unit), FALSE)
<1> DEFINE a == FirstOther(X, unit)
           b == FirstOther(Y, unit)
<1> SUFFICES ASSUME a \in {"true", "false"}  PROVE b = a  BY DEF Keeps
<1>1. \/ a = unit /\ \A n \in 1..N : X[n] = unit
      \/ \E k \in 1..N : a = X[k] /\ X[k] # unit /\ \A n \in 1..N : n < k => X[n] = unit
  BY FirstOtherIs
<1>2. \/ b = unit /\ \A n \in 1..N : Y[n] = unit
      \/ \E k \in 1..N : b = Y[k] /\ Y[k] # unit /\ \A n \in 1..N : n < k => Y[n] = unit
  BY FirstOtherIs
<1> HIDE DEF a, b
<1>3. CASE a = unit /\ \A n \in 1..N : X[n] = unit  BY <1>2, <1>3 DEF Keeps
<1>4. CASE \E k \in 1..N : a = X[k] /\ X[k] # unit /\ \A n \in 1..N : n < k => X[n] = unit
 <2>1. PICK k \in 1..N : a = X[k] /\ X[k] # unit /\ \A n \in 1..N : n < k => X[n] = unit
   BY <1>4
 <2>2. Y[k] = a /\ Y[k] # unit /\ \A n \in 1..N : n < k => Y[n] = unit
   BY <2>1 DEF Keeps
 <2>3. PICK j \in 1..N : b = Y[j] /\ Y[j] # unit /\ \A n \in 1..N : n < j => Y[n] = unit
   BY <1>2, <2>2
 <2>4. j = k  BY <2>2, <2>3
 <2> QED  BY <2>2, <2>3, <2>4
<1> QED  BY <1>1, <1>3, <1>4

\* Parts that are kept loosely, in whatever order, keep the verdict loosely.
LEMMA FirstKeptLoosely ==
  ASSUME NEW N \in Nat, NEW X \in [1..N -> Verdicts], NEW M \in Nat, NEW Y \in [1..M -> Verdicts],
         NEW unit \in {"true", "false"},
         \A n \in 1..N : \E m \in 1..M : Keeps(X[n], Y[m], TRUE),
         \A m \in 1..M : \E n \in 1..N : Keeps(X[n], Y[m], TRUE)
  PROVE  Keeps(FirstOther(X, unit), FirstOther(Y, unit), TRUE)
<1> DEFINE a == FirstOther(X, unit)
           b == FirstOther(Y, unit)
<1> SUFFICES ASSUME a \in {"true", "false"}  PROVE b = a \/ b = "error"
  BY DEF Keeps
<1>1. \/ a = unit /\ \A n \in 1..N : X[n] = unit
      \/ \E k \in 1..N : a = X[k] /\ X[k] # unit
  BY FirstOtherIs
<1>2. \/ b = unit /\ \A m \in 1..M : Y[m] = unit
      \/ \E k \in 1..M : b = Y[k] /\ Y[k] # unit
  BY FirstOtherIs
<1> HIDE DEF a, b
<1>3. CASE a = unit /\ \A n \in 1..N : X[n] = unit
 <2>1. \A m \in 1..M : Y[m] \in {unit, "error"}  BY <1>3 DEF Keeps
 <2> QED  BY <1>2, <1>3, <2>1
<1>4. CASE a # unit /\ \E k \in 1..N : a = X[k] /\ X[k] # unit
 <2>1. PICK m \in 1..M : Y[m] = a \/ Y[m] = "error"  BY <1>4 DEF Keeps
 <2>2. Y[m] # unit  BY <1>4, <2>1
 <2>3. b # unit /\ b \in Verdicts  BY <1>2, <2>2
 <2> QED  BY <1>4, <2>3 DEF Verdicts
<1> QED  BY <1>1, <1>3, <1>4

\* What RunMany looks for.
LEMMA ManyIs ==
  ASSUME NEW op \in {"and", "or", "all", "any"}, NEW N \in Nat, NEW X \in [1..N -> Verdicts]
  PROVE  /\ N = 0 => RunMany(op, X) = "true"
         /\ N # 0 => RunMany(op, X) = FirstOther(X, IF op \in {"and", "all"} THEN "true" ELSE "false")
<1>1. CASE N = 0
 <2>1. X = <<>>  BY <1>1
 <2>2. FirstOther(<<>>, "true") = "true"  BY DEF FirstOther
 <2> QED  BY <1>1, <2>1, <2>2 DEF RunMany, Reduce
<1>2. CASE N # 0
 <2>1. X # <<>>
  <3>1. 1 \in DOMAIN X  BY <1>2
  <3> QED  BY <3>1
 <2> QED  BY <1>2, <2>1 DEF RunMany, Reduce
<1> QED  BY <1>1, <1>2

\* So and, or, all and any keep their verdict when all their parts do,
LEMMA ManyKept ==
  ASSUME NEW op \in {"and", "or", "all", "any"}, NEW N \in Nat,
         NEW X \in [1..N -> Verdicts], NEW Y \in [1..N -> Verdicts],
         \A n \in 1..N : Keeps(X[n], Y[n], FALSE)
  PROVE  Keeps(RunMany(op, X), RunMany(op, Y), FALSE)
<1> DEFINE unit == IF op \in {"and", "all"} THEN "true" ELSE "false"
<1>1. unit \in {"true", "false"}  OBVIOUS
<1>2. /\ N = 0 => RunMany(op, X) = "true" /\ RunMany(op, Y) = "true"
      /\ N # 0 => RunMany(op, X) = FirstOther(X, unit) /\ RunMany(op, Y) = FirstOther(Y, unit)
  BY ManyIs
<1> HIDE DEF unit
<1>3. Keeps(FirstOther(X, unit), FirstOther(Y, unit), FALSE)  BY <1>1, FirstKept
<1>4. \A a : Keeps(a, a, FALSE)  BY DEF Keeps
<1> QED  BY <1>2, <1>3, <1>4

\* or keep it loosely.
LEMMA ManyKeptLoosely ==
  ASSUME NEW op \in {"and", "or", "all", "any"}, NEW N \in Nat, NEW X \in [1..N -> Verdicts],
         NEW M \in Nat, NEW Y \in [1..M -> Verdicts],
         \A n \in 1..N : \E m \in 1..M : Keeps(X[n], Y[m], TRUE),
         \A m \in 1..M : \E n \in 1..N : Keeps(X[n], Y[m], TRUE)
  PROVE  Keeps(RunMany(op, X), RunMany(op, Y), TRUE)
<1> DEFINE unit == IF op \in {"and", "all"} THEN "true" ELSE "false"
<1>1. unit \in {"true", "false"}  OBVIOUS
<1>2. /\ N = 0 => RunMany(op, X) = "true"
      /\ N # 0 => RunMany(op, X) = FirstOther(X, unit)
  BY ManyIs
<1>3. /\ M = 0 => RunMany(op, Y) = "true"
      /\ M # 0 => RunMany(op, Y) = FirstOther(Y, unit)
  BY ManyIs
<1> HIDE DEF unit
<1>4. N = 0 <=> M = 0
 <2>1. N # 0 => 1 \in 1..N  OBVIOUS
 <2>2. M # 0 => 1 \in 1..M  OBVIOUS
 <2>3. N = 0 => 1..N = {}  OBVIOUS
 <2>4. M = 0 => 1..M = {}  OBVIOUS
 <2> QED  BY <2>1, <2>2, <2>3, <2>4
<1>5. Keeps(FirstOther(X, unit), FirstOther(Y, unit), TRUE)
  BY <1>1, FirstKeptLoosely
<1>6. \A a : Keeps(a, a, TRUE)  BY DEF Keeps
<1> QED  BY <1>2, <1>3, <1>4, <1>5, <1>6

\* The elements of a list, or the values of a map, are carried over.
LEMMA VecArrives ==
  ASSUME NEW v \in Data, v.kind \in {"list", "map"}, NEW w, w = Received(v),
         NEW s, s = ToVec(v), NEW t, t = ToVec(w)
  PROVE  Carried(v, s, t)
<1>1. w \in Data /\ IsValue(v) /\ IsValue(w) /\ w.kind = v.kind
  BY ArrivedIs, DataAssumption DEF IsNumber
<1>2. s \in Seq(Data) /\ t \in Seq(Data)  BY <1>1, VecTyped
<1>3. CASE v.kind = "list"
 <2>1. s = v.items /\ t = w.items /\ t = [n \in DOMAIN s |-> Received(s[n])]
  <3>1. s = v.items /\ t = w.items  BY <1>1, <1>3 DEF ToVec
  <3>2. w.items = [n \in DOMAIN v.items |-> Received(v.items[n])]
    BY <1>3, ArrivedIs
  <3> QED  BY <3>1, <3>2
 <2>2. Len(t) = Len(s) /\ \A n \in 1..Len(s) : t[n] = Received(s[n])
   BY <1>2, <2>1
 <2>3. \A n \in 1..Len(s) : s[n] \in Parts(v)  BY <1>2, <1>3, <2>1, PartsAre
 <2>4. \A n \in 1..Len(s) : OutOfOrder(s[n]) => OutOfOrder(v)  BY <2>3, OrderIs
 <2> QED  BY <1>2, <2>2, <2>4 DEF Carried
<1>4. CASE v.kind = "map"
 <2> DEFINE o == v.order
            u == w.order
            K == DOMAIN v.entries
 <2>1. /\ w.entries = [k \in K |-> Received(v.entries[k])] /\ u = Sorted(K)
       /\ w.kind = "map"
   BY <1>1, <1>4, ArrivedIs
 <2>2. DOMAIN w.entries = K /\ \A k \in K : w.entries[k] = Received(v.entries[k])
   BY <2>1
 <2>3. /\ o \in Seq(K) /\ K = {o[n] : n \in DOMAIN o}
       /\ u \in Seq(K) /\ K = {u[n] : n \in DOMAIN u}
   BY <1>1, <1>4, <2>1, <2>2 DEF IsValue
 <2>4. s = [n \in 1..Len(o) |-> v.entries[o[n]]] /\ t = [n \in 1..Len(u) |-> w.entries[u[n]]]
   BY <1>4, <2>1 DEF ToVec
 <2>5. ~OutOfOrder(v) => o = u  BY <1>4, <2>1, OrderIs
 <2> HIDE DEF o, u, K
 <2>6. /\ Len(o) \in Nat /\ DOMAIN o = 1..Len(o) /\ (\A n \in 1..Len(o) : o[n] \in K)
       /\ Len(u) \in Nat /\ DOMAIN u = 1..Len(u) /\ (\A m \in 1..Len(u) : u[m] \in K)
       /\ \A n \in 1..Len(o) : \E m \in 1..Len(u) : u[m] = o[n]
       /\ \A m \in 1..Len(u) : \E n \in 1..Len(o) : u[m] = o[n]
  <3>1. Len(o) \in Nat /\ DOMAIN o = 1..Len(o) /\ \A n \in 1..Len(o) : o[n] \in K
    BY <2>3
  <3>2. Len(u) \in Nat /\ DOMAIN u = 1..Len(u) /\ \A m \in 1..Len(u) : u[m] \in K
    BY <2>3
  <3>3. (\A k \in K : \E n \in 1..Len(o) : k = o[n]) /\ (\A k \in K : \E m \in 1..Len(u) : k = u[m])
    BY <2>3, <3>1, <3>2
  <3>4. \A n \in 1..Len(o) : \E m \in 1..Len(u) : u[m] = o[n]  BY <3>1, <3>3
  <3>5. \A m \in 1..Len(u) : \E n \in 1..Len(o) : u[m] = o[n]  BY <3>2, <3>3
  <3> QED  BY <3>1, <3>2, <3>4, <3>5
 <2>7. /\ Len(s) = Len(o) /\ \A n \in 1..Len(o) : s[n] = v.entries[o[n]]
       /\ Len(t) = Len(u) /\ \A m \in 1..Len(u) : t[m] = w.entries[u[m]]
  <3>1. Len(s) = Len(o)  BY <2>4, <2>6
  <3>2. \A n \in 1..Len(o) : s[n] = v.entries[o[n]]  BY <2>4
  <3>3. Len(t) = Len(u)  BY <2>4, <2>6
  <3>4. \A m \in 1..Len(u) : t[m] = w.entries[u[m]]  BY <2>4
  <3> QED  BY <3>1, <3>2, <3>3, <3>4
 <2>8. ASSUME NEW n \in 1..Len(o), NEW m \in 1..Len(u), u[m] = o[n]
       PROVE  t[m] = Received(s[n])
  <3>1. o[n] \in K  BY <2>6
  <3>2. t[m] = w.entries[o[n]] /\ s[n] = v.entries[o[n]]  BY <2>7, <2>8
  <3> QED  BY <2>2, <3>1, <3>2
 <2>9. Parts(v) = {v.entries[k] : k \in K}  BY <1>4, PartsAre DEF K
 <2>10. \A n \in 1..Len(o) : s[n] \in Parts(v)  BY <2>6, <2>7, <2>9
 <2>11. \A n \in 1..Len(o) : OutOfOrder(s[n]) => OutOfOrder(v)
   BY <2>10, OrderIs
 <2>12. /\ \A n \in 1..Len(s) : \E m \in 1..Len(t) : t[m] = Received(s[n])
        /\ \A m \in 1..Len(t) : \E n \in 1..Len(s) : t[m] = Received(s[n])
  <3>1. ASSUME NEW n \in 1..Len(o)  PROVE \E m \in 1..Len(u) : t[m] = Received(s[n])
   <4>1. PICK m \in 1..Len(u) : u[m] = o[n]  BY <2>6
   <4> QED  BY <2>8, <4>1
  <3>2. ASSUME NEW m \in 1..Len(u)  PROVE \E n \in 1..Len(o) : t[m] = Received(s[n])
   <4>1. PICK n \in 1..Len(o) : u[m] = o[n]  BY <2>6
   <4> QED  BY <2>8, <4>1
  <3> QED  BY <2>7, <3>1, <3>2
 <2>13. ~OutOfOrder(v) => Len(t) = Len(s) /\ \A n \in 1..Len(s) : t[n] = Received(s[n])
   BY <2>5, <2>7, <2>8
 <2> QED  BY <1>2, <2>7, <2>11, <2>12, <2>13 DEF Carried
<1> QED  BY <1>3, <1>4

\* A predicate that takes no map for a list has no part that does.
LEMMA EnlistsIs ==
  ASSUME NEW p \in Predicate, ~Enlists[p]
  PROVE  /\ p.op \in {"not", "all", "any"} => ~Enlists[p.inner]
         /\ p.op \in {"and", "or"} => \A n \in DOMAIN p.inner : ~Enlists[p.inner[n]]
         /\ p.op \notin {"not", "and", "or"} => Bare(p.select)
<1> DEFINE select == {p.select[n] : n \in DOMAIN p.select} \cap {Values, Try(Values)} # {}
<1>1. ~EnlistsBody(p, Enlists)  BY BodiesUnfold
<1>2. EnlistsBody(p, Enlists) =
        CASE p.op = "not" -> Enlists[p.inner]
          [] p.op \in {"and", "or"} -> \E n \in DOMAIN p.inner : Enlists[p.inner[n]]
          [] p.op \in {"all", "any"} -> select \/ Enlists[p.inner]
          [] OTHER -> select
  BY Zenon DEF EnlistsBody
<1>3. ~select => Bare(p.select)  BY DEF Bare
<1> HIDE DEF select
<1>4. CASE p.op = "not"  BY <1>1, <1>2, <1>4
<1>5. CASE p.op \in {"and", "or"}  BY <1>1, <1>2, <1>5
<1>6. CASE p.op \in {"all", "any"}  BY <1>1, <1>2, <1>3, <1>6
<1>7. CASE p.op \notin {"not", "and", "or", "all", "any"}
  BY <1>1, <1>2, <1>3, <1>7
<1> QED  BY <1>4, <1>5, <1>6, <1>7

\* A verdict on a part.
LEMMA PartSurvives ==
  ASSUME NEW p \in Predicate, NEW d \in Data, NEW q \in Predicate, NEW e \in Data,
         Survives(q, e), ~(OutOfOrder(d) /\ Enlists[p]),
         OutOfOrder(e) => OutOfOrder(d), ~Enlists[p] => ~Enlists[q]
  PROVE  Keeps(RunPredicate[q][e], RunPredicate[Normal[q]][Received(e)], OutOfOrder(d))
BY DEF Survives, Keeps

\* A run, by the operator of its predicate.
LEMMA RunIs ==
  ASSUME NEW p \in Predicate, NEW d \in Data, NEW v, v = Selected(p.op, p.select, d)
  PROVE  /\ p.op = "not" => RunPredicate[p][d] = Negated(RunPredicate[p.inner][d])
         /\ p.op \in {"and", "or"} => RunPredicate[p][d] = RunMany(p.op, PartRuns(p.inner, d))
         /\ p.op \in {"all", "any"} =>
              RunPredicate[p][d] = IF v.kind = "error" THEN "error" ELSE RunMany(p.op, ElementRuns(p.inner, ToVec(v)))
         /\ p.op \in Compares =>
              RunPredicate[p][d] = IF v.kind = "error" THEN "error" ELSE RunCompare(p.op, v, p.value)
<1> DEFINE X == Subs(RunPredicate, p, d)
<1>1. RunPredicate[p][d] = RunFrom(p, d, X)  BY RunUnfolds
<1>2. CASE p.op = "not"
 <2>1. X = [n \in 1..1 |-> RunPredicate[p.inner][d]]  BY <1>2 DEF Subs
 <2>2. X[1] = RunPredicate[p.inner][d]  BY <2>1
 <2>3. RunFrom(p, d, X) = Negated(X[1])  BY <1>2 DEF RunFrom
 <2> HIDE DEF X
 <2> QED  BY <1>1, <1>2, <2>2, <2>3, OpsDiffer
<1>3. CASE p.op \in {"and", "or"}
 <2>1. X = PartRuns(p.inner, d)  BY <1>3 DEF Subs, Connectives, PartRuns
 <2>2. RunFrom(p, d, X) = RunMany(p.op, X)
   BY <1>3 DEF RunFrom, Joins, Connectives
 <2> HIDE DEF X
 <2> QED  BY <1>1, <1>3, <2>1, <2>2, OpsDiffer
<1>4. CASE p.op \in {"all", "any"} /\ v.kind # "error"
 <2>1. Looks(p, d) /\ p.op \notin Connectives /\ p.op # "not"
   BY <1>4 DEF Looks, Quantifiers, Connectives
 <2>2. X = ElementRuns(p.inner, ToVec(v))  BY <2>1 DEF Subs, ElementRuns
 <2>3. RunFrom(p, d, X) = RunMany(p.op, X)  BY <2>1 DEF RunFrom, Joins
 <2> HIDE DEF X
 <2> QED  BY <1>1, <1>4, <2>1, <2>2, <2>3, OpsDiffer
<1>5. CASE p.op \in {"all", "any"} /\ v.kind = "error"
 <2>1. ~Looks(p, d) /\ p.op \notin Connectives /\ p.op # "not"
   BY <1>5 DEF Looks, Quantifiers, Connectives
 <2>2. RunFrom(p, d, X) = "error"  BY <1>5, <2>1 DEF RunFrom, Joins
 <2> HIDE DEF X
 <2> QED  BY <1>1, <1>5, <2>1, <2>2, OpsDiffer
<1>6. CASE p.op \in Compares
 <2>1. p.op \notin Quantifiers /\ p.op \notin Connectives /\ p.op # "not"
   BY <1>6, OpsDiffer DEF Quantifiers, Connectives
 <2>2. RunFrom(p, d, X) = IF v.kind = "error" THEN "error" ELSE RunCompare(p.op, v, p.value)
   BY <2>1 DEF RunFrom, Joins, Looks
 <2> HIDE DEF X
 <2> QED  BY <1>1, <1>6, <2>2, OpsDiffer
<1> QED  BY <1>2, <1>3, <1>4, <1>5, <1>6, OpsDiffer

\* They are verdicts.
LEMMA PartRunsTyped ==
  ASSUME NEW ps \in Seq(Predicate), NEW d \in Data
  PROVE  PartRuns(ps, d) \in [1..Len(ps) -> Verdicts] /\ Len(ps) \in Nat
<1>1. Len(ps) \in Nat /\ DOMAIN ps = 1..Len(ps) /\ \A n \in 1..Len(ps) : ps[n] \in Predicate
  OBVIOUS
<1> QED  BY <1>1, RunTyped DEF PartRuns

\* These, too.
LEMMA ElementRunsTyped ==
  ASSUME NEW q \in Predicate, NEW s \in Seq(Data)
  PROVE  ElementRuns(q, s) \in [1..Len(s) -> Verdicts] /\ Len(s) \in Nat
<1>1. Len(s) \in Nat /\ DOMAIN s = 1..Len(s) /\ \A n \in 1..Len(s) : s[n] \in Data
  OBVIOUS
<1> QED  BY <1>1, RunTyped DEF ElementRuns

\* Strictly, or loosely.
LEMMA KeepsAs ==
  \A a, b, loose : Keeps(a, b, loose) <=> IF loose THEN Keeps(a, b, TRUE) ELSE Keeps(a, b, FALSE)
BY DEF Keeps

\* A negation survives with what it negates.
LEMMA NotSurvives ==
  ASSUME NEW p \in Predicate, NEW d \in Data, p.op = "not", Survives(p.inner, d)
  PROVE  Survives(p, d)
<1> DEFINE q == Normal[p]
           e == Received(d)
           a == RunPredicate[p.inner][d]
           b == RunPredicate[Normal[p.inner]][e]
<1>1. q \in Predicate /\ q.op = "not" /\ q.inner = Normal[p.inner] /\ e \in Data
  BY NormalParts, ArrivedIs
<1>2. RunPredicate[p][d] = Negated(a)  BY RunIs
<1>3. RunPredicate[q][e] = Negated(b)
 <2> HIDE DEF q, e
 <2> QED  BY <1>1, RunIs
<1>4. ~(OutOfOrder(d) /\ Enlists[p]) => Keeps(a, b, OutOfOrder(d))
  BY EnlistsIs DEF Survives
<1>5. a \in Verdicts /\ b \in Verdicts
 <2>1. p.inner \in Predicate /\ Normal[p.inner] \in Predicate
   BY PredicateKinds, PolicyAssumption DEF Lower
 <2> HIDE DEF q, e
 <2> QED  BY <1>1, <2>1, RunTyped
<1> HIDE DEF a, b
<1>6. \A loose : Keeps(a, b, loose) => Keeps(Negated(a), Negated(b), loose)
  BY <1>5 DEF Keeps, Negated, Verdicts
<1> QED  BY <1>2, <1>3, <1>4, <1>6 DEF Survives, q, e

\* A conjunction or a disjunction survives with its parts.
LEMMA ConnectiveSurvives ==
  ASSUME NEW p \in Predicate, NEW d \in Data, p.op \in {"and", "or"},
         \A n \in DOMAIN p.inner : Survives(p.inner[n], d)
  PROVE  Survives(p, d)
<1> SUFFICES ASSUME ~(OutOfOrder(d) /\ Enlists[p])
             PROVE  Keeps(RunPredicate[p][d], RunPredicate[Normal[p]][Received(d)], OutOfOrder(d))
  BY DEF Survives
<1> DEFINE q == Normal[p]
           e == Received(d)
           ps == p.inner
           qs == Normal[p].inner
           N == Len(ps)
           X == PartRuns(ps, d)
           Y == PartRuns(qs, e)
<1>1. /\ q \in Predicate /\ q.op = p.op /\ qs = [n \in DOMAIN ps |-> Normal[ps[n]]] /\ e \in Data
      /\ ps \in Seq(Predicate) /\ qs \in Seq(Predicate)
 <2>1. q \in Predicate /\ q.op = p.op /\ qs = [n \in DOMAIN ps |-> Normal[ps[n]]]
   BY NormalParts
 <2>2. e \in Data  BY ArrivedIs
 <2>3. ps \in Seq(Predicate)  BY PredicateKinds
 <2> HIDE DEF q
 <2>4. q.inner \in Seq(Predicate)  BY <2>1, PredicateKinds
 <2> QED  BY <2>1, <2>2, <2>3, <2>4 DEF q
<1>2. RunPredicate[p][d] = RunMany(p.op, X)  BY RunIs
<1>3. RunPredicate[q][e] = RunMany(p.op, Y)
 <2> DEFINE o == q.inner
 <2>1. RunPredicate[q][e] = RunMany(p.op, PartRuns(o, e))
  <3> HIDE DEF q, e
  <3> QED  BY <1>1, RunIs
 <2> QED  BY <2>1
<1> HIDE DEF q, e, ps, qs
<1>4. N \in Nat /\ Len(qs) = N /\ DOMAIN ps = 1..N /\ DOMAIN qs = 1..N  BY <1>1
<1>5. X \in [1..N -> Verdicts] /\ Y \in [1..N -> Verdicts]
 <2>1. X \in [1..N -> Verdicts]  BY <1>1, PartRunsTyped
 <2>2. Y \in [1..Len(qs) -> Verdicts]  BY <1>1, PartRunsTyped
 <2> QED  BY <1>4, <2>1, <2>2
<1>6. \A n \in 1..N : Keeps(X[n], Y[n], OutOfOrder(d))
 <2> SUFFICES ASSUME NEW n \in 1..N  PROVE Keeps(X[n], Y[n], OutOfOrder(d))
   OBVIOUS
 <2>1. ps[n] \in Predicate /\ Survives(ps[n], d) /\ (~Enlists[p] => ~Enlists[ps[n]])
   BY <1>1, <1>4, EnlistsIs DEF ps
 <2>2. Keeps(RunPredicate[ps[n]][d], RunPredicate[Normal[ps[n]]][e], OutOfOrder(d))
   BY <2>1, PartSurvives DEF e
 <2>3. X[n] = RunPredicate[ps[n]][d]  BY <1>4 DEF PartRuns
 <2>4. Y[n] = RunPredicate[qs[n]][e]  BY <1>4 DEF PartRuns
 <2>5. qs[n] = Normal[ps[n]]  BY <1>1, <1>4
 <2> QED  BY <2>2, <2>3, <2>4, <2>5
<1> HIDE DEF X, Y, N
<1>7. CASE OutOfOrder(d)
 <2>1. \A n \in 1..N : Keeps(X[n], Y[n], TRUE)  BY <1>6, <1>7, KeepsAs
 <2>2. Keeps(RunMany(p.op, X), RunMany(p.op, Y), TRUE)
  <3> DEFINE o == p.op
  <3>1. o \in {"and", "or", "all", "any"}  OBVIOUS
  <3> HIDE DEF o
  <3>2. Keeps(RunMany(o, X), RunMany(o, Y), TRUE)
    BY <1>4, <1>5, <2>1, <3>1, ManyKeptLoosely
  <3> QED  BY <3>2 DEF o
 <2> QED  BY <1>2, <1>3, <1>7, <2>2, KeepsAs DEF q, e
<1>8. CASE ~OutOfOrder(d)
 <2>1. \A n \in 1..N : Keeps(X[n], Y[n], FALSE)  BY <1>6, <1>8 DEF Keeps
 <2>2. Keeps(RunMany(p.op, X), RunMany(p.op, Y), FALSE)
   BY <1>4, <1>5, <2>1, ManyKept
 <2> QED  BY <1>2, <1>3, <1>8, <2>2, KeepsAs DEF q, e
<1> QED  BY <1>7, <1>8

\* A comparison survives.
LEMMA ComparisonSurvives ==
  ASSUME NEW p \in Predicate, NEW d \in Data, p.op \in Compares
  PROVE  Survives(p, d)
<1> SUFFICES ASSUME ~(OutOfOrder(d) /\ Enlists[p])
             PROVE  Keeps(RunPredicate[p][d], RunPredicate[Normal[p]][Received(d)], OutOfOrder(d))
  BY DEF Survives
<1> DEFINE q == Normal[p]
           e == Received(d)
           op == p.op
           fs == p.select
           v == Selected(op, fs, d)
           w == Selected(op, fs, e)
           value == p.value
           x == Received(value)
<1>1. q \in Predicate /\ q.op = op /\ q.select = fs /\ q.value = x /\ e \in Data
  BY NormalParts, ArrivedIs, OpsDiffer
<1>2. /\ op \in Orderings \cup {"==", "like"} /\ fs \in Seq(Filter) /\ value \in Data
      /\ op = "like" => value.kind = "string"
      /\ op \in Orderings => IsNumber(value)
  BY PredicateKinds, OpsDiffer DEF Compares
<1>3. ~OutOfOrder(d) \/ Bare(fs)  BY EnlistsIs, OpsDiffer
<1>4. RunPredicate[p][d] = IF v.kind = "error" THEN "error" ELSE RunCompare(op, v, value)
  BY RunIs
<1>5. RunPredicate[q][e] = IF w.kind = "error" THEN "error" ELSE RunCompare(op, w, x)
 <2> DEFINE u == Selected(q.op, q.select, e)
 <2>1. q.op \in Compares  BY <1>1
 <2>2. RunPredicate[q][e] = IF u.kind = "error" THEN "error" ELSE RunCompare(q.op, u, q.value)
  <3> HIDE DEF q, e
  <3> QED  BY <1>1, <2>1, RunIs
 <2>3. u = w  BY <1>1
 <2> HIDE DEF u, w, q, e
 <2> QED  BY <1>1, <2>2, <2>3
<1>6. Follow(d, e, v, w)
 <2> HIDE DEF op, fs
 <2> QED  BY <1>2, <1>3, SelectedArrives
<1>7. v.kind = "error" \/ Fits(op, v)
 <2> HIDE DEF op, fs
 <2> QED  BY <1>2, SelectedFits
<1> HIDE DEF q, e, op, fs, v, w, value, x
<1>8. RunPredicate[p][d] # "error" => RunPredicate[q][e] = RunPredicate[p][d]
 <2> SUFFICES ASSUME v.kind # "error", RunCompare(op, v, value) # "error"
              PROVE  RunPredicate[q][e] = RunPredicate[p][d]
   BY <1>4
 <2>1. w.kind # "error" /\ Passes(v, w)  BY <1>6 DEF Follow
 <2>2. RunCompare(op, w, Received(value)) = RunCompare(op, v, value)
   BY <1>2, <1>7, <2>1, ComparisonArrives
 <2> QED  BY <1>4, <1>5, <2>1, <2>2 DEF x
<1> QED  BY <1>8 DEF Keeps, q, e

\* A quantifier survives with the predicate in it.
LEMMA QuantifierSurvives ==
  ASSUME NEW p \in Predicate, NEW d \in Data, p.op \in {"all", "any"},
         \A c \in Data : Survives(p.inner, c)
  PROVE  Survives(p, d)
<1> SUFFICES ASSUME ~(OutOfOrder(d) /\ Enlists[p])
             PROVE  Keeps(RunPredicate[p][d], RunPredicate[Normal[p]][Received(d)], OutOfOrder(d))
  BY DEF Survives
<1> DEFINE q == Normal[p]
           e == Received(d)
           op == p.op
           fs == p.select
           v == Selected(op, fs, d)
           w == Selected(op, fs, e)
           i == p.inner
           j == Normal[p.inner]
           X == ElementRuns(i, ToVec(v))
           Y == ElementRuns(j, ToVec(w))
<1>1. q \in Predicate /\ q.op = op /\ q.select = fs /\ q.inner = j /\ e \in Data
  BY NormalParts, ArrivedIs, OpsDiffer
<1>2. op \in {"all", "any"} /\ fs \in Seq(Filter) /\ i \in Predicate /\ j \in Predicate
 <2>1. Lower(p, i) /\ fs \in Seq(Filter)  BY PredicateKinds
 <2> QED  BY <2>1, PolicyAssumption DEF Lower
<1>3. ~OutOfOrder(d) \/ (Bare(fs) /\ ~Enlists[i])  BY EnlistsIs
<1>4. RunPredicate[p][d] = IF v.kind = "error" THEN "error" ELSE RunMany(op, X)
  BY RunIs
<1>5. RunPredicate[q][e] = IF w.kind = "error" THEN "error" ELSE RunMany(op, Y)
 <2> DEFINE u == Selected(q.op, q.select, e)
 <2>1. q.op \in {"all", "any"}  BY <1>1
 <2>2. RunPredicate[q][e] = IF u.kind = "error" THEN "error" ELSE RunMany(q.op, ElementRuns(q.inner, ToVec(u)))
  <3> HIDE DEF q, e
  <3> QED  BY <1>1, <2>1, RunIs
 <2>3. u = w  BY <1>1
 <2> HIDE DEF u, w, q, e, j
 <2> QED  BY <1>1, <2>2, <2>3
<1>6. Follow(d, e, v, w)
 <2> HIDE DEF op, fs
 <2> QED  BY <1>2, <1>3, SelectedArrives
<1>7. v.kind = "error" \/ Fits(op, v)
 <2> HIDE DEF op, fs
 <2> QED  BY <1>2, SelectedFits
<1> SUFFICES ASSUME v.kind # "error"
             PROVE  Keeps(RunPredicate[p][d], RunPredicate[q][e], OutOfOrder(d))
  BY <1>4 DEF Keeps
<1> HIDE DEF v, w, q, e, op, fs
<1>8. /\ v \in Data /\ v.kind \in {"list", "map"} /\ w.kind # "error"
      /\ w = Received(v) /\ (~OutOfOrder(d) => ~OutOfOrder(v))
 <2>1. v \in Data /\ v.kind \in {"list", "map"} /\ ~IsNumber(v)
   BY <1>2, <1>7 DEF Fits, IsNumber
 <2>2. w.kind # "error" /\ Passes(v, w) /\ (~OutOfOrder(d) => ~OutOfOrder(v))
   BY <1>6 DEF Follow
 <2> QED  BY <2>1, <2>2, PassesAs
<1> DEFINE s == ToVec(v)
           t == ToVec(w)
           N == Len(s)
           M == Len(t)
<1>9. /\ s \in Seq(Data) /\ t \in Seq(Data)
      /\ \A n \in 1..N : OutOfOrder(s[n]) => OutOfOrder(v)
      /\ \A n \in 1..N : \E m \in 1..M : t[m] = Received(s[n])
      /\ \A m \in 1..M : \E n \in 1..N : t[m] = Received(s[n])
      /\ ~OutOfOrder(v) => M = N /\ \A n \in 1..N : t[n] = Received(s[n])
 <2>1. s = ToVec(v) /\ t = ToVec(w)  OBVIOUS
 <2> HIDE DEF s, t
 <2>2. Carried(v, s, t)  BY <1>8, <2>1, VecArrives
 <2> QED  BY <2>2 DEF Carried
<1>10. /\ X \in [1..N -> Verdicts] /\ N \in Nat /\ DOMAIN s = 1..N
       /\ Y \in [1..M -> Verdicts] /\ M \in Nat /\ DOMAIN t = 1..M
 <2> HIDE DEF i, j, s, t
 <2>1. ElementRuns(i, s) \in [1..N -> Verdicts] /\ N \in Nat /\ DOMAIN s = 1..N
   BY <1>2, <1>9, ElementRunsTyped
 <2>2. ElementRuns(j, t) \in [1..M -> Verdicts] /\ M \in Nat /\ DOMAIN t = 1..M
   BY <1>2, <1>9, ElementRunsTyped
 <2> QED  BY <2>1, <2>2 DEF s, t
<1>11. \A n \in 1..N, m \in 1..M : t[m] = Received(s[n]) => Keeps(X[n], Y[m], OutOfOrder(d))
 <2> SUFFICES ASSUME NEW n \in 1..N, NEW m \in 1..M, t[m] = Received(s[n])
              PROVE  Keeps(X[n], Y[m], OutOfOrder(d))
   OBVIOUS
 <2>1. s[n] \in Data /\ (OutOfOrder(s[n]) => OutOfOrder(d))
  <3> HIDE DEF s, t
  <3>1. s[n] \in Data  BY <1>9
  <3> QED  BY <1>8, <1>9, <3>1
 <2>2. Survives(i, s[n]) /\ (~Enlists[p] => ~Enlists[i])  BY <2>1, EnlistsIs
 <2> HIDE DEF i, j
 <2>3. Keeps(RunPredicate[i][s[n]], RunPredicate[Normal[i]][Received(s[n])], OutOfOrder(d))
   BY <1>2, <2>1, <2>2, PartSurvives
 <2>4. X[n] = RunPredicate[i][s[n]]  BY <1>10 DEF ElementRuns
 <2>5. Y[m] = RunPredicate[j][t[m]]  BY <1>10 DEF ElementRuns
 <2>6. j = Normal[i]  BY DEF i, j
 <2> QED  BY <2>3, <2>4, <2>5, <2>6
<1> HIDE DEF X, Y, s, t, N, M, i, j
<1>12. CASE OutOfOrder(d)
 <2>1. \A n \in 1..N, m \in 1..M : t[m] = Received(s[n]) => Keeps(X[n], Y[m], TRUE)
   BY <1>11, <1>12, KeepsAs
 <2>2. \A n \in 1..N : \E m \in 1..M : Keeps(X[n], Y[m], TRUE)  BY <1>9, <2>1
 <2>3. \A m \in 1..M : \E n \in 1..N : Keeps(X[n], Y[m], TRUE)  BY <1>9, <2>1
 <2>4. op \in {"and", "or", "all", "any"}  BY <1>2
 <2>5. Keeps(RunMany(op, X), RunMany(op, Y), TRUE)
   BY <1>10, <2>2, <2>3, <2>4, ManyKeptLoosely
 <2> QED  BY <1>4, <1>5, <1>8, <1>12, <2>5, KeepsAs
<1>13. CASE ~OutOfOrder(d)
 <2>1. M = N /\ \A n \in 1..N : t[n] = Received(s[n])  BY <1>8, <1>9, <1>13
 <2>2. \A n \in 1..N : Keeps(X[n], Y[n], FALSE)
   BY <1>11, <1>13, <2>1 DEF Keeps
 <2>3. op \in {"and", "or", "all", "any"} /\ Y \in [1..N -> Verdicts]
   BY <1>2, <1>10, <2>1
 <2>4. Keeps(RunMany(op, X), RunMany(op, Y), FALSE)
   BY <1>10, <2>2, <2>3, ManyKept
 <2> QED  BY <1>4, <1>5, <1>8, <1>13, <2>4, KeepsAs
<1> QED  BY <1>12, <1>13

\* So every verdict does, of predicates and on arguments of any depth.
LEMMA AllSurvive == \A p \in Predicate, d \in Data : Survives(p, d)
<1> DEFINE T == {p \in Predicate : \A d \in Data : Survives(p, d)}
<1>1. ASSUME NEW p \in Predicate, \A q \in Predicate : Size[q] < Size[p] => q \in T
      PROVE  p \in T
 <2>1. \A q : Lower(p, q) => \A c \in Data : Survives(q, c)  BY <1>1 DEF Lower
 <2> SUFFICES ASSUME NEW d \in Data  PROVE Survives(p, d)  OBVIOUS
 <2>2. CASE p.op = "not"
  <3>1. Survives(p.inner, d)  BY <2>1, <2>2, PredicateKinds
  <3> QED  BY <2>2, <3>1, NotSurvives
 <2>3. CASE p.op \in {"and", "or"}
  <3>1. \A n \in DOMAIN p.inner : Survives(p.inner[n], d)
    BY <2>1, <2>3, PredicateKinds
  <3> QED  BY <2>3, <3>1, ConnectiveSurvives
 <2>4. CASE p.op \in {"all", "any"}
  <3>1. \A c \in Data : Survives(p.inner, c)  BY <2>1, <2>4, PredicateKinds
  <3> QED  BY <2>4, <3>1, QuantifierSurvives
 <2>5. CASE p.op \in Compares  BY <2>5, ComparisonSurvives
 <2> QED  BY <2>2, <2>3, <2>4, <2>5, OpsDiffer
<1>2. Size \in [Predicate -> Nat]  BY PredicatesAssumption
<1>3. Predicate \subseteq T
 <2> HIDE DEF T
 <2> QED  BY <1>1, <1>2, RankInduction
<1> QED  BY <1>3

\* No step takes that away.
LEMMA CrossingInvStep == CrossingInv /\ [PolicyNext]_policyVars => CrossingInv'
<1> SUFFICES ASSUME CrossingInv, [PolicyNext]_policyVars  PROVE CrossingInv'
  OBVIOUS
<1>1. JourneyInv'  BY JourneyInvStep DEF CrossingInv
<1>2. predicate' = predicate /\ args' = args
  BY DEF PolicyNext, policyVars, RunHere, Run, WritePolicy, WriteElsewhere, ReadPolicy, RunThere
<1>3. args \in Data /\ here \in {"none", RunPredicate[predicate][args]}
      /\ there \in {"none", RunPredicate[Normal[predicate]][Received(args)]}
  BY DEF CrossingInv
<1>4. CASE RunHere
 <2>1. here' = RunPredicate[predicate][args] /\ there' = there /\ stage' # "run"
   BY <1>4 DEF RunHere, Run
 <2> QED  BY <1>1, <1>2, <1>3, <2>1 DEF CrossingInv
<1>5. CASE WritePolicy \/ WriteElsewhere
 <2>1. here' = here /\ there' = there /\ stage' # "run"
   BY <1>5, Zenon DEF WritePolicy, WriteElsewhere
 <2> QED  BY <1>1, <1>2, <1>3, <2>1 DEF CrossingInv
<1>6. CASE ReadPolicy
 <2> DEFINE read == ReadWire(wire)
            canonical == read # <<>> /\ ToDagCbor(PredicateToIpld[read[1]]) = wire
 <2>1. /\ here' = here /\ there' = there
       /\ (~canonical /\ stage' = "done") \/ (canonical /\ policy' = read /\ stage' = "run")
   BY <1>6, Zenon DEF ReadPolicy, ReadWire
 <2>2. canonical => read # <<>>  OBVIOUS
 <2> HIDE DEF read, canonical
 <2>3. stage' = "run" => policy' # <<>>  BY <2>1, <2>2
 <2> QED  BY <1>1, <1>2, <1>3, <2>1, <2>3 DEF CrossingInv
<1>7. CASE RunThere
 <2>1. here' = here /\ there' = RunPredicate[policy[1]][Received(args)] /\ stage = "run" /\ stage' = "done"
   BY <1>7 DEF RunThere
 <2>2. policy = <<Normal[predicate]>>
   BY <2>1 DEF CrossingInv, JourneyInv, Journeys
 <2> DEFINE m == Normal[predicate]
 <2>3. policy[1] = m
  <3> HIDE DEF m
  <3> QED  BY <2>2 DEF m
 <2>4. there' = RunPredicate[Normal[predicate]][Received(args)]  BY <2>1, <2>3
 <2> QED  BY <1>1, <1>2, <1>3, <2>1, <2>4 DEF CrossingInv
<1>8. CASE UNCHANGED policyVars
 <2>1. here' = here /\ there' = there /\ stage' = stage /\ policy' = policy
   BY <1>8 DEF policyVars
 <2> QED  BY <1>1, <1>2, <1>3, <2>1 DEF CrossingInv
<1> QED  BY <1>4, <1>5, <1>6, <1>7, <1>8 DEF PolicyNext

\* The verdict of check on the built payloads is the verdict of verifyInvocation
\* on the decoded ones, for policies and arguments of any depth: the wire turns
\* bigints into numbers without turning a verdict, and the order it gives the
\* keys of maps matters to a quantifier that stops at an error, and to
\* selectors that take a map for a list, only.
THEOREM VerdictArrives == PolicySpec => []VerdictSurvivesTheWire
<1>1. PolicyInit => CrossingInv
 <2> SUFFICES ASSUME PolicyInit  PROVE CrossingInv  OBVIOUS
 <2>1. args \in Data /\ here = "none" /\ there = "none" /\ stage = "build"
   BY JudgingAssumption DEF PolicyInit, Untried
 <2> QED  BY <2>1, JourneyInvInit DEF CrossingInv
<1>2. CrossingInv => VerdictSurvivesTheWire
 <2> SUFFICES ASSUME CrossingInv, here \in {"true", "false"}, there # "none"
              PROVE  there = here \/ (OutOfOrder(args) /\ (there = "error" \/ Enlists[predicate]))
   BY DEF VerdictSurvivesTheWire
 <2>1. /\ here = RunPredicate[predicate][args]
       /\ there = RunPredicate[Normal[predicate]][Received(args)]
   BY DEF CrossingInv
 <2>2. Survives(predicate, args)  BY AllSurvive DEF CrossingInv, JourneyInv
 <2> QED  BY <2>1, <2>2 DEF Survives, Keeps
<1> QED  BY <1>1, <1>2, CrossingInvStep, PTL DEF PolicySpec
=============================================================================
