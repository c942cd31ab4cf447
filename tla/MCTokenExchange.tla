-------------------------- MODULE MCTokenExchange --------------------------
(* Instances of TokenExchange for TLC. *)
EXTENDS TokenExchange

CONSTANTS a, b, c, rule, mapRule, q, m, proto, n, cid, bad

\* A policy that compares with a map, and what the decoder makes of it; a map
\* with a key __proto__ among others.
MCEmptied  == [p \in Policy |-> IF p = mapRule THEN rule ELSE p]
MCStripped == [x \in Map |-> IF x = proto THEN m ELSE x]

Fields == Field("dlg") \cup Field("inv")

\* What the setters are called with.
MCOffer ==
  [k \in Fields |->
     CASE k = "iss" -> {a} [] k = "aud" -> {a, b} [] k = "sub" -> {a, b, Null}
       [] k = "cmd" -> {c} [] k = "pol" -> {rule, mapRule} [] k \in {"args", "meta"} -> {m, proto}
       [] k = "prf" -> {q} [] k = "cause" -> {cid} [] k = "nonce" -> {n}
       [] k \in {"exp", "nbf", "iat"} -> {1}]

\* A timestamp of Timestamp.postelUnix, past what the wire takes.
PostelOffer == [MCOffer EXCEPT !["exp"] = {MaxSafe + 1}]

\* What others write: values of the field's type and at its bounds, of
\* another type, and a field of no kind.
MCAlien ==
  [k \in Fields \cup {"x"} |->
     CASE k = "iss" -> {b, bad} [] k \in {"aud", "sub"} -> {a, b, Null}
       [] k \in {"cmd", "prf", "nonce"} -> {bad} [] k = "pol" -> {mapRule, bad}
       [] k = "args" -> {proto, Null} [] k = "meta" -> {EmptyMap, m, proto, bad} [] k = "cause" -> {cid, Null}
       [] k = "exp" -> {-1, 0, MaxSafe, MaxSafe + 1, Null, bad}
       [] k \in {"nbf", "iat"} -> {0, MaxSafe + 1, Null}
       [] k = "x" -> {Null}]
=============================================================================
