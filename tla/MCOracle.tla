------------------------------ MODULE MCOracle ------------------------------
(* The instance of the oracle and its pair that TLC checks.                *)
EXTENDS Oracle

MCFeeInfos == {[total |-> 20, maker |-> 30]}
=============================================================================
