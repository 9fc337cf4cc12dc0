-------------------------------- MODULE Sums --------------------------------
(***************************************************************************)
(* Finite sums f[1] + ... + f[n].  The contracts add up amounts in loops   *)
(* over pools, users and schedule periods; the models index those by       *)
(* 1..n so that the lemmas of SumLemmas apply to every such loop.          *)
(***************************************************************************)
EXTENDS Integers

SumTo(n, f) ==
  LET s[i \in 0..n] == IF i = 0 THEN 0 ELSE s[i - 1] + f[i]
  IN  s[n]

(* The sum of f over those i \in 1..n that belong to S. *)
SumIn(S, n, f) == SumTo(n, [i \in 1..n |-> IF i \in S THEN f[i] ELSE 0])
=============================================================================
