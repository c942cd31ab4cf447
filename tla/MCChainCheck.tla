---------------------------- MODULE MCChainCheck ----------------------------
(* Instances of ChainCheck for TLC. *)
EXTENDS ChainCheck

CONSTANTS alice, bob, x, y, fine, wrong, broken, anyArgs

\* A policy predicate is its outcome on the one argument map.
MCRunPredicate(p, a) == CASE p = fine -> "true" [] p = wrong -> "false" [] p = broken -> "error"

Timeless(iss, aud, sub, cmd) ==
  [iss |-> iss, aud |-> aud, sub |-> sub, cmd |-> cmd, pol |-> <<>>,
   nbf |-> NoBound, exp |-> NoBound, seal |-> "verifies"]

Commands == {<<>>, <<x>>, <<y>>, <<x, y>>}

\* Links: every way to connect two principals, with every command.
LinkDelegations ==
  {Timeless(iss, aud, sub, cmd) : iss \in Did, aud \in Did, sub \in Did \cup {AnySubject},
                                  cmd \in Commands}
LinkPayloads ==
  [iss : Did, sub : Did, aud : {alice}, cmd : Commands, args : {anyArgs}, exp : {NoBound},
   seal : {"verifies"}]
LinkChains == {<<>>} \cup {<<d>> : d \in LinkDelegations}
              \cup {<<d, e>> : d \in LinkDelegations, e \in LinkDelegations}

\* Depth: chains of up to four proofs between one issuer and itself, which
\* differ in their commands only.
SelfDelegations == {Timeless(alice, alice, sub, cmd) : sub \in {alice, AnySubject},
                                                       cmd \in Commands}
DeepChains == UNION {[1..n -> SelfDelegations] : n \in 0..4}
DeepPayloads == [iss : {alice}, sub : {alice}, aud : {alice}, cmd : {<<x>>, <<x, y>>},
                 args : {anyArgs}, exp : {NoBound}, seal : {"verifies"}]

\* Bounds and policies: one good link, every placement of its window and of
\* now around it, and every policy of two predicates.
Windowed ==
  {[Timeless(alice, alice, alice, <<>>) EXCEPT !.nbf = nbf, !.exp = exp, !.pol = pol] :
     nbf \in {NoBound, 1, 3}, exp \in {NoBound, 0, 2}, pol \in {<<>>, <<fine, wrong>>, <<broken, wrong>>}}
WindowChains == {<<d, e>> : d \in Windowed, e \in Windowed}
WindowPayloads == [iss : {alice}, sub : {alice}, aud : {alice}, cmd : {<<x>>},
                   args : {anyArgs}, exp : {NoBound, 0, 2}, seal : {"verifies"}]

MCCases ==
  [inv : LinkPayloads, proofs : LinkChains, now : {0}, leeway : {0}]
  \cup [inv : DeepPayloads, proofs : DeepChains, now : {0}, leeway : {0}]
  \cup [inv : WindowPayloads, proofs : WindowChains, now : 0..4, leeway : 0..2]
=============================================================================
