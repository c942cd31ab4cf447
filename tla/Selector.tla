------------------------------ MODULE Selector ------------------------------
(***************************************************************************)
(* A selector from its issuer to the argument it picks: it is encoded,     *)
(* decoded and encoded again, as Delegation.decode demands, and the loop   *)
(* of Select.get runs it.                                                  *)
(***************************************************************************)
EXTENDS Filters, IpldData

CONSTANTS
  Documents,   \* the values that selectors are applied to
  Selectors    \* the filters of the selectors that get issued

ASSUME SelectorAssumption ==
  Selectors \subseteq Seq(Filter) /\ Documents \subseteq Data

VARIABLES
  issued,     \* the filters the issuer meant
  text,       \* the string on the wire
  filters,    \* what the decoder made of it
  document,   \* the arguments
  phase,      \* "build", "sent", "select", "done"
  at,         \* the filter the loop of get is at
  current,    \* what has been selected so far
  isTry,      \* an optional filter has missed
  outcome     \* a value, or an error

vars == <<issued, text, filters, document, phase, at, current, isTry, outcome>>

Init ==
  /\ issued \in Selectors /\ document \in Documents
  /\ text = <<>> /\ filters = <<>> /\ phase = "build" /\ at = 1
  /\ current = document /\ isTry = FALSE /\ outcome = Null

Encode ==
  /\ phase = "build"
  /\ text' = ToString(issued) /\ phase' = "sent"
  /\ UNCHANGED <<issued, filters, document, at, current, isTry, outcome>>

\* Another implementation spells the selector: with the dot of jq, with more
\* marks than one, or with every key in brackets.
Spellings(fs) ==
  LET Respell(f) == IF f.kind = "try" THEN <<Bracket(f.inner), Question>> ELSE <<Bracket(f)>>
      brackets[n \in 0..Len(fs)] == IF n = 0 THEN <<Dot>> ELSE brackets[n-1] \o Respell(fs[n])
      jq == IF fs # <<>> /\ fs[1].kind = "try" /\ IsDotField(fs[1].inner)
            THEN Tail(ToString(fs)) ELSE ToString(fs)
      marks == IF jq[Len(jq)] = Question THEN <<Question>> ELSE <<>>
  IN  {brackets[Len(fs)], jq, jq \o marks}

EncodeElsewhere ==
  /\ phase = "build"
  /\ text' \in Spellings(issued) /\ phase' = "sent"
  /\ UNCHANGED <<issued, filters, document, at, current, isTry, outcome>>

Stop(what) == phase' = "done" /\ outcome' = what

\* Delegation.decode: parse, encode again, compare.
Decode ==
  /\ phase = "sent"
  /\ \/ /\ Parse(text) = <<>> /\ Stop(Error("parseError"))
        /\ UNCHANGED filters
     \/ /\ Parse(text) # <<>> /\ ToString(Parse(text)[1]) # text
        /\ Stop(Error("notCanonical"))
        /\ UNCHANGED filters
     \/ /\ Parse(text) # <<>> /\ ToString(Parse(text)[1]) = text
        /\ filters' = Parse(text)[1] /\ phase' = "select" /\ UNCHANGED outcome
  /\ UNCHANGED <<issued, text, document, at, current, isTry>>

\* A slip: an optional filter excuses later filters even when it hits.
ExcuseAll ==
  LET f == filters[at]
      got == ApplyFilter(current, f.inner)
  IN
  /\ phase = "select" /\ at <= Len(filters) /\ f.kind = "try"
  /\ current' = IF got.kind = "error" THEN Null ELSE got
  /\ isTry' = TRUE
  /\ at' = at + 1
  /\ UNCHANGED <<issued, text, filters, document, phase, outcome>>

\* A turn of get at an optional filter.
SelectOptional ==
  LET f == filters[at]
      got == ApplyFilter(current, f.inner)
      missed == got.kind = "error"
  IN
  /\ phase = "select" /\ at <= Len(filters) /\ f.kind = "try"
  /\ current' = IF missed THEN Null ELSE got
  /\ isTry' = (isTry \/ missed)
  /\ at' = at + 1
  /\ UNCHANGED <<issued, text, filters, document, phase, outcome>>

\* A turn of get at any other filter.
SelectPlain ==
  LET got == ApplyFilter(current, filters[at]) IN
  /\ phase = "select" /\ at <= Len(filters) /\ filters[at].kind # "try"
  /\ \/ /\ got.kind # "error"
        /\ current' = got /\ at' = at + 1 /\ UNCHANGED <<phase, outcome>>
     \/ got.kind = "error" /\ isTry /\ Stop(Null) /\ UNCHANGED <<current, at>>
     \/ got.kind = "error" /\ ~isTry /\ Stop(got) /\ UNCHANGED <<current, at>>
  /\ UNCHANGED <<issued, text, filters, document, isTry>>

\* The end of get, for selectIpld.
Select ==
  /\ phase = "select" /\ at = Len(filters) + 1
  /\ Stop(current)
  /\ UNCHANGED <<issued, text, filters, document, at, current, isTry>>

Next == Encode \/ EncodeElsewhere \/ Decode \/ SelectOptional \/ SelectPlain \/ Select

Spec == Init /\ [][Next]_vars

----------------------------------------------------------------------------
(* Properties                                                              *)

DecodeFailed == outcome \in {Error("parseError"), Error("notCanonical")}

\* The loop, which carries the current value and one flag, gives the selector
\* the meaning above: an optional that hits excuses nothing, one that misses
\* excuses all that follows, and every filter looks at what the one before it
\* selected.
SelectsByMeaning ==
  phase = "done" /\ ~DecodeFailed => outcome = Meaning(filters, document)

\* A policy never changes on the wire: a verifier that accepts the delegation
\* reads the selector its issuer meant.
DecodedIsIssued == phase = "select" => filters = issued

\* README, "Wire format": encoding and decoding round-trip, so the library
\* decodes what it encodes.
EncodedIsAccepted == phase = "done" /\ text = ToString(issued) => ~DecodeFailed
=============================================================================
