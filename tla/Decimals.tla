------------------------------ MODULE Decimals ------------------------------
(***************************************************************************)
(* The fixed-point numbers of the contracts (cosmwasm_std's Decimal and    *)
(* Decimal256): a decimal is a whole number of atomics, Scale of which     *)
(* make one.  Every operation rounds down.                                 *)
(***************************************************************************)
EXTENDS Integers

CONSTANT Scale   \* atomics in one, 10^18 in the code

ASSUME ScaleAssumption == Scale \in Nat \ {0}

Ratio(x, y) == (x * Scale) \div y          \* from_ratio of two integers
Times(x, d) == (x * d) \div Scale          \* an integer times a decimal, and decimal times decimal
Reciprocal(d) == (Scale * Scale) \div d       \* 1 / d
MultiplyRatio(x, y, z) == (x * y) \div z   \* integers only
SaturatingSub(x, y) == IF x < y THEN 0 ELSE x - y
Lesser(x, y) == IF x <= y THEN x ELSE y
=============================================================================
