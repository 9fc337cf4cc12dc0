------------------------- MODULE PriceObservations --------------------------
(***************************************************************************)
(* The observations of a pair under every sequence of swaps, and what they *)
(* promise to those who ask for them.  The sizes of a swap are any: what   *)
(* the curve makes of them is the business of the pair.                    *)
(***************************************************************************)
EXTENDS Observations

CONSTANTS Sizes,        \* base and quote amounts of the swaps
          MaxTime,      \* bound: time
          MaxMessages   \* bound: swaps of a block

ASSUME PriceObservationsAssumption ==
  /\ Sizes \subseteq (Nat \X (Nat \ {0}))
  /\ MaxTime \in Nat /\ MaxMessages \in Nat

VARIABLE messages   \* how many swaps the block holds

vars == <<observationVars, now, messages>>
-----------------------------------------------------------------------------
Init ==
  /\ ObservationsInit
  /\ now = 1
  /\ messages = 0

(* What a swap does to the observations; sizes too small to be safe only   *)
(* give what waits the chance to be committed.                             *)
Swap(base, quote, large) ==
  /\ messages < MaxMessages
  /\ messages' = messages + 1
  /\ AccumulateSwapSizes
  /\ IF large THEN SavePrecommit(base, quote) ELSE UNCHANGED precommit
  /\ UNCHANGED now

Tick ==
  /\ now < MaxTime
  /\ now' = now + 1
  /\ messages' = 0
  /\ UNCHANGED observationVars

Next ==
  \/ \E size \in Sizes, large \in BOOLEAN : Swap(size[1], size[2], large)
  \/ Tick

Spec == Init /\ [][Next]_vars
-----------------------------------------------------------------------------
(* The types of the state.                                                 *)
TypeOK ==
  /\ head \in 0..(Capacity - 1)
  /\ \A i \in 0..(Capacity - 1) :
       array[i] # NoValue => array[i].ts \in 1..now /\ array[i].price \in Nat /\ array[i].sma \in Nat
  /\ precommit # NoValue => precommit.ts \in 1..now /\ precommit.quote > 0
  /\ now \in 1..MaxTime
=============================================================================
