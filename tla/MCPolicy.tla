------------------------------ MODULE MCPolicy ------------------------------
(* Instances of Policy for TLC. *)
EXTENDS Policy

CONSTANTS keyA, keyB

Char(c) == [lex |-> "char", char |-> c]
MCStar == Char("star")
MCBackslash == Char("backslash")
Text(cs) == Str([n \in DOMAIN cs |-> Char(cs[n])])
UpTo(n, S) == UNION {[1..m -> S] : m \in 0..n}

It == <<>>

\* Not the order in which the documents list their keys.
MCKeyOrder == <<keyB, keyA>>

\* MaxSafe is 4 in the instances: 5, as a number or a bigint, is unsafe.
Numbers == {Number(h) : h \in {-1, 0, 1, 2, 3, 8, 10, Infinity, MinusInfinity, NaN}}
           \cup {BigInt(n) : n \in {-1, 0, 1, 4, 5}}
Leaves  == Numbers \cup {Null, Text(<<>>), BytesOf(<<1>>)}

Pair(x, y) == List(<<x, y>>)
Record(x)  == MapOf([k \in {keyA} |-> x], <<keyA>>)

\* Comparisons: every number against every other, by itself and in keyA record.
Against(x) == {Compare(op, It, x) : op \in Orderings \cup {"=="}}
CompareIssuable  == UNION {Against(x) : x \in Numbers} \cup {Compare("==", It, v) : v \in Leaves}
CompareDocuments == Leaves

\* Maps, empty or not, by themselves and in lists and maps.
EmptyMap == MapOf(<<>>, <<>>)
Maps     == {EmptyMap, Record(Null), Record(BigInt(1)), Record(EmptyMap)}
Operands == Maps \cup {Pair(Null, m) : m \in Maps} \cup {List(<<>>)}
Compared(S) == {Compare("==", It, v) : v \in S}
OfMaps(S)   == Compared(S) \cup {Not(p) : p \in Compared(S)}
               \cup {Quantifier("any", It, p) : p \in Compared(S)}
               \cup {Connect("or", <<p, Compare("==", It, Null)>>) : p \in Compared(S)}
MapIssuable  == OfMaps(Operands)
MapDocuments == Operands \cup {Null}

\* A comparison is true, false or in error; in every order, under every
\* connective, two deep, over lists and records that do not all fit it.
IsOne   == Compare("==", <<Field(keyA)>>, Number(2))
IsBig   == Compare("==", <<Field(keyA)>>, BigInt(1))
IsMore  == Compare(">", <<Field(keyA)>>, Number(1))
IsPart  == Compare("==", <<Field(keyA)>>, Number(1))
Missing == Compare("==", <<Field(keyB), Try(Field(keyA))>>, Null)
Atoms   == {IsOne, IsBig, IsMore, IsPart, Missing}
Joined(S) == {Connect(op, ps) : op \in {"and", "or"}, ps \in UpTo(2, S)}
Once    == Atoms \cup {Not(p) : p \in Atoms} \cup Joined(Atoms)
\* What comes first in a map depends on the order of its keys.
FirstIsOne == Compare("==", <<Values, ArrayIndex(0)>>, Number(2))
Positional == {FirstIsOne, Not(FirstIsOne), Quantifier("all", <<Field(keyB), Values>>, IsOne)}
Elements == {Number(2), BigInt(1), BigInt(0), Null}
NestIssuable ==
  Once \cup Positional \cup {Not(p) : p \in Once}
  \cup {Connect(op, <<p, q>>) : op \in {"and", "or"}, p \in Joined(Atoms \ {IsOne, IsMore}), q \in Atoms}
  \cup {Quantifier(op, <<Field(keyB)>>, p) : op \in {"all", "any"}, p \in Once}

\* Over values S and lists of these, with the keys of maps in this order.
RecordsOf(S) == {Record(x) : x \in S} \cup {Null}
NestOf(S, order) ==
  {MapOf([k \in {keyA, keyB} |-> IF k = keyA THEN x ELSE List(ys)], order) :
     x \in S \ {BigInt(1), Null}, ys \in UpTo(2, RecordsOf(S))}
  \cup {MapOf([k \in {keyB} |-> MapOf([k2 \in {keyA, keyB} |-> IF k2 = keyA THEN x ELSE y], order)],
              <<keyB>>) : x, y \in RecordsOf(S)}
NestDocuments ==
  NestOf(Elements, <<keyA, keyB>>)
  \cup {Record(Number(2)), MapOf([k \in {keyB} |-> Record(BigInt(1))], <<keyB>>)}

\* Globs over two letters and the two characters that mean something.
GlobIssuable  == {Compare("like", It, Str(p)) : p \in UpTo(5, {Char(keyA), Char(keyB), Star, Backslash})}
GlobDocuments == {Str(s) : s \in UpTo(3, {Char(keyA), Char(keyB), Star, Backslash})} \cup {Null}

MCTrials ==
  {[predicates |-> CompareIssuable, data |-> CompareDocuments],
   [predicates |-> MapIssuable, data |-> MapDocuments],
   [predicates |-> NestIssuable, data |-> NestDocuments],
   [predicates |-> GlobIssuable, data |-> GlobDocuments]}

\* Equality within lists and records, of numbers held in either way.
DeepIssuable  == {Compare("==", It, Pair(Number(h), Record(BigInt(1)))) : h \in {2, 10}}
DeepDocuments == {Pair(x, Record(y)) : x \in Numbers, y \in Numbers}
DeepTrials    == {[predicates |-> DeepIssuable, data |-> DeepDocuments]}

----------------------------------------------------------------------------
(* All of what issuers and receivers hold: a receiver has numbers for the  *)
(* safe bigints of its sender, and the keys of maps in their order         *)

NumbersHeld == Numbers \cup {Number(-2)}

Picked(v) == {w \in {ApplyFilter(v, f) : f \in Plain} : w.kind # "error"}
With(vs)  == vs \cup UNION {Parts(v) \cup Picked(v) : v \in vs}
\* Held and Meant stand apart from the constants they are for, so that TLC
\* evaluates them once.
Picking ==
  With(With(With(
    Leaves \cup NumbersHeld \cup MapDocuments \cup GlobDocuments \cup {v.value : v \in GlobIssuable}
    \cup NestDocuments \cup NestOf({Number(2), Number(0), Null}, MCKeyOrder)
    \cup {MapOf([k \in {keyB} |-> Record(Number(2))], <<keyB>>)})))
Held == With(With(Picking \cup {Received(v) : v \in Picking}))
MCData == Held
DepthOf[v \in Held] == 1 + Max({0} \cup {DepthOf[part] : part \in Parts(v)})
MCDepth == DepthOf

Inner(p) == CASE p.op \in {"and", "or"} -> {p.inner[n] : n \in DOMAIN p.inner}
              [] p.op \in {"not", "all", "any"} -> {p.inner}
              [] OTHER -> {}
Meant ==
  OfMaps(Operands \cup {Received(v) : v \in Operands} \cup {Emptied(v) : v \in Operands})
  \cup GlobIssuable \cup NestIssuable
  \cup UNION {Against(x) : x \in NumbersHeld} \cup Compared(Leaves)
  \cup {Connect(op, <<p, q>>) : op \in {"and", "or"}, p \in Joined(Atoms), q \in Atoms}
MCPredicate == Meant
SizeOf[p \in Meant] == 1 + Max({0} \cup {SizeOf[q] : q \in Inner(p)})
MCSize == SizeOf

\* In this instance lists and maps hold safe numbers only.
ASSUME ListsAreSafe == SafeWithin \/ Trials = DeepTrials

\* The decoder reads the selectors of these instances.
ASSUME SelectorsAreReadable == SelectorsReadable

\* The instance that compares lists of others.
DeepHeld ==
  With(With(With(Leaves \cup NumbersHeld \cup {Pair(x, Record(y)) : x \in NumbersHeld, y \in NumbersHeld}
                 \cup {Pair(x, EmptyMap) : x \in NumbersHeld})))
DeepData == DeepHeld
DeepDepthOf[v \in DeepHeld] == 1 + Max({0} \cup {DeepDepthOf[part] : part \in Parts(v)})
DeepDepth == DeepDepthOf
DeepMeant == {Compare("==", It, Pair(Number(h), x)) :
                h \in {2, 10}, x \in {Record(BigInt(1)), Record(Number(2)), EmptyMap}}
DeepPredicate == DeepMeant
DeepSize == [p \in DeepMeant |-> 1]
=============================================================================
