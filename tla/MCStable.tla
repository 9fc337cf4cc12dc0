------------------------------ MODULE MCStable ------------------------------
(* The instance of the stable pair that TLC checks.                        *)
EXTENDS StablePair

MCFeeInfos == {[total |-> 0, maker |-> 0], [total |-> 200, maker |-> 500]}
MCUnit == <<10, 10>>
MCNative == <<TRUE, FALSE>>
=============================================================================
