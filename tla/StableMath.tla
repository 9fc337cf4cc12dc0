----------------------------- MODULE StableMath -----------------------------
(***************************************************************************)
(* The curve of the stable pair (contracts/pair_stable/src/math.rs): the   *)
(* invariant D of two balances, and the balance that goes with a new one,  *)
(* both by Newton's method on decimals that round down.  Balances are      *)
(* decimals here; a unit of an asset is Unit of their atomics.             *)
(***************************************************************************)
EXTENDS Decimals

CONSTANTS AmpPrecision,  \* AMP_PRECISION
          Iterations,    \* ITERATIONS
          Tol,           \* TOL
          Unit           \* 10^(18 - precision) of each asset, 1 where precisions are greatest

ASSUME StableMathAssumption ==
  /\ AmpPrecision \in Nat \ {0} /\ Iterations \in Nat \ {0} /\ Tol \in Nat
  /\ Unit \in [1..2 -> Nat \ {0}]

NCoins == 2
Apart(x, y) == IF x < y THEN y - x ELSE x - y

NoResult == -1   \* a division by zero, or no convergence

FromUint(i, amount) == amount * Unit[i]
ToUint(i, decimal) == decimal \div Unit[i]
-----------------------------------------------------------------------------
(* calculate_step. *)
DStep(d, leverage, sum, product) ==
  LET numerator == Times(Times(leverage, sum) + NCoins * product, d)
      denominator == Times(d, leverage - Scale) + (NCoins + 1) * product
  IN  IF denominator = 0 THEN NoResult ELSE Ratio(numerator, denominator)

ComputeD(amp, x) ==
  LET leverage == NCoins * Ratio(amp, AmpPrecision)
      sum == x[1] + x[2]
      products == Times(NCoins * x[1], NCoins * x[2])
      newton[d \in Nat, left \in 0..Iterations] ==
        LET next == DStep(d, leverage, sum, Ratio(Times(Times(d, d), d), products))
        IN  IF left = 0 \/ next = NoResult THEN NoResult
            ELSE IF Apart(next, d) <= Tol THEN next ELSE newton[next, left - 1]
  IN  IF sum = 0 THEN 0 ELSE IF products = 0 THEN NoResult ELSE newton[sum, Iterations]

(* calc_y: what the other balance is, as a decimal, when one of two        *)
(* balances x, with the invariant d, becomes amount.                       *)
CalcYFor(amp, amount, d) ==
  LET leverage == NCoins * amp * Scale
      scaled == Times(Times(amount, NCoins * NCoins * Scale), leverage)
      c == Ratio(Times(Times(d, d), d) * AmpPrecision, scaled)
      b == amount + Ratio(d * AmpPrecision, leverage)
      newton[y \in Nat, left \in 0..Iterations] ==
        LET denominator == NCoins * y + b - d
            next == Ratio(Times(y, y) + c, denominator)
        IN  IF left = 0 \/ denominator <= 0 THEN NoResult
            ELSE IF Apart(next, y) <= Tol THEN next ELSE newton[next, left - 1]
  IN  IF d = NoResult \/ scaled = 0 THEN NoResult ELSE newton[d, Iterations]

CalcY(amp, amount, x) == CalcYFor(amp, amount, ComputeD(amp, x))
=============================================================================
