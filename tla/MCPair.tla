------------------------------- MODULE MCPair -------------------------------
(* The instance of the pair with its tracker that TLC checks.              *)
EXTENDS Router

MCFeeInfos == {[total |-> 50, maker |-> 50]}
=============================================================================
