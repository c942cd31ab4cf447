------------------------------- MODULE Policy -------------------------------
(***************************************************************************)
(* A policy predicate from its issuer to its verdict: runPredicate on the  *)
(* arguments as their builder holds them, the predicate as IPLD            *)
(* (predicateToIpld) and DAG-CBOR, the decoder (ipldToPredicate) with the  *)
(* canonical re-encoding around it, and runPredicate on what arrived.      *)
(***************************************************************************)
EXTENDS Judging, PredicateCodec

\* A predicate with its numbers as its receiver holds them.
Normal[p \in Predicate] ==
  CASE p.op \in {"not", "all", "any"} -> [p EXCEPT !.inner = Normal[p.inner]]
    [] p.op \in {"and", "or"} -> [p EXCEPT !.inner = [n \in DOMAIN p.inner |-> Normal[p.inner[n]]]]
    [] OTHER -> [p EXCEPT !.value = Received(p.value)]

\* A predicate as ipldToPredicate makes it of its IPLD.
Decoded[p \in Predicate] ==
  CASE p.op \in {"not", "all", "any"} -> [p EXCEPT !.inner = Decoded[p.inner]]
    [] p.op \in {"and", "or"} -> [p EXCEPT !.inner = [n \in DOMAIN p.inner |-> Decoded[p.inner[n]]]]
    [] OTHER -> [p EXCEPT !.value = Emptied(Received(p.value))]

\* Receivers hold values and predicates, too.
ASSUME PolicyAssumption ==
  /\ \A v \in Data : Received(v) \in Data
  /\ \A p \in Predicate : Normal[p] \in Predicate /\ Decoded[p] \in Predicate

VARIABLES
  wire,      \* the predicate in DAG-CBOR
  policy,    \* <<>>, or <<the predicate the decoder made of it>>
  there,     \* the verdict on what arrived
  stage      \* "build", "built", "sent", "run", "done"

policyVars == <<predicate, args, here, wire, policy, there, stage>>

----------------------------------------------------------------------------
(* The life of a predicate                                                 *)

PolicyInit ==
  /\ Untried /\ there = "none" /\ wire = Null /\ policy = <<>>
  /\ stage = "build"

\* check, on the payloads as they were built.
RunHere ==
  /\ stage = "build"
  /\ Run /\ stage' = "built"
  /\ UNCHANGED <<wire, policy, there>>

\* tryBuild throws when a number has no DAG-CBOR form.
WritePolicy ==
  LET ipld == PredicateToIpld[predicate]
      encodable == Encodable(ipld) /\ Encodable(args)
  IN
  /\ stage = "built"
  /\ \/ ~encodable /\ stage' = "done" /\ UNCHANGED wire
     \/ encodable /\ wire' = ToDagCbor(ipld) /\ stage' = "sent"
  /\ UNCHANGED <<predicate, args, here, policy, there>>

\* Another implementation writes the predicate: a negated equality in full,
\* an element too many, a whole number as a float, an operator nobody knows,
\* or an operand of the wrong type.
Rewritings(p) ==
  LET own == ToDagCbor(PredicateToIpld[p])
      last == own.items[Len(own.items)]
      Op1(x) == [own EXCEPT !.items[1] = x]
      Operand(x) == [own EXCEPT !.items[Len(own.items)] = x]
  IN  {[own EXCEPT !.items = Append(@, Null)], Op1(Op("unknown")), Op1(Null),
       IF p.op = "not" THEN List(<<Op("not"), ToDagCbor(PredicateToIpld[p.inner])>>) ELSE own,
       IF last.kind = "int" /\ Safe(last.halves) THEN Operand(WireFloat(last.halves)) ELSE own,
       IF own.items[1] \notin {Op("=="), Op("!=")} THEN Operand(Null) ELSE own}

WriteElsewhere ==
  /\ stage = "built"
  /\ Encodable(PredicateToIpld[predicate]) /\ Encodable(args)
  /\ wire' \in Rewritings(predicate) /\ stage' = "sent"
  /\ UNCHANGED <<predicate, args, here, policy, there>>

\* Delegation.decode, as far as it reads the policy.
ReadPolicy ==
  /\ stage = "sent"
  /\ \E read \in {IpldToPredicate(FromDagCbor(wire))} :
       LET canonical == read # <<>> /\ ToDagCbor(PredicateToIpld[read[1]]) = wire IN
       \/ ~canonical /\ stage' = "done" /\ UNCHANGED policy
       \/ canonical /\ policy' = read /\ stage' = "run"
  /\ UNCHANGED <<predicate, args, here, wire, there>>

\* verifyInvocation, on the decoded invocation.
RunThere ==
  /\ stage = "run"
  /\ there' = RunPredicate[policy[1]][Received(args)] /\ stage' = "done"
  /\ UNCHANGED <<predicate, args, here, wire, policy>>

PolicyNext == RunHere \/ WritePolicy \/ WriteElsewhere \/ ReadPolicy \/ RunThere

PolicySpec == PolicyInit /\ [][PolicyNext]_policyVars

----------------------------------------------------------------------------
(* Properties                                                              *)

\* The decoder reads the selectors of the predicates that get issued; it does
\* not read all the selectors that this library writes (see Selector).
SelectorsReadable ==
  \A p \in Predicate : p.op \notin {"not", "and", "or"} => Parse(ToString(p.select)) # <<>>

\* v is a map with something in it, or such a map is in v.
HoldsMap(v) == \E x \in Within(v) : x.kind = "map" /\ DOMAIN x.entries # {}

\* A policy is never changed by its journey: whoever wrote it, what the decoder
\* accepts is what was issued.  Of what this library writes it refuses just the
\* policies that compare with a map, or with a list that holds one: it takes
\* the map for an empty one, and the canonical check notices.
ArrivesAsIssued ==
  stage \in {"run", "done"} =>
    /\ policy \in {<<>>, <<Normal[predicate]>>}
    /\ wire = ToDagCbor(PredicateToIpld[predicate]) =>
         (policy = <<>> <=> HoldsMap(PredicateToIpld[predicate]))

\* Some map in v lists its keys in another order than DAG-CBOR does.
OutOfOrder(v) == \E x \in Within(v) : x.kind = "map" /\ x.order # Sorted(DOMAIN x.entries)

\* p takes the values of a map for a list, whose order is that of its keys.
Enlists[p \in Predicate] ==
  LET select == {p.select[n] : n \in DOMAIN p.select} \cap {Values, Try(Values)} # {} IN
  CASE p.op = "not" -> Enlists[p.inner]
    [] p.op \in {"and", "or"} -> \E n \in DOMAIN p.inner : Enlists[p.inner[n]]
    [] p.op \in {"all", "any"} -> select \/ Enlists[p.inner]
    [] OTHER -> select

\* The verdict of check on the built payloads is the verdict of
\* verifyInvocation on the decoded ones.  DAG-CBOR turns bigints into numbers,
\* which may spare a comparison its error and never turns a verdict.  It also
\* sorts the keys of maps, which may let all or any come to an error first, and
\* turns a verdict only where a selector takes the values of a map for a list.
VerdictSurvivesTheWire ==
  here \in {"true", "false"} /\ there # "none" =>
    there = here \/ (OutOfOrder(args) /\ (there = "error" \/ Enlists[predicate]))

\* ipld.ts, ipldEquals: "Treats number 1 === bigint 1n (both are integers)."
\* So two numbers that are the same integer are equal at any depth.
EqualAtAnyDepth ==
  predicate.op = "==" /\ here \in {"true", "false"} => here = Judge[predicate][args]
=============================================================================
