---------------------------- MODULE MCIncentives ----------------------------
(***************************************************************************)
(* Instances of Incentives for TLC: values of the structured constants.    *)
(***************************************************************************)
EXTENDS IncentivesProperties

\* Assets that are no reward tokens.
A == 101
B == 102
C == 103

\* All pools share the asset B; pool 1 alone is of the first pair type.
MCPairAssets == [p \in Pools |-> IF p = 1 THEN {A, B} ELSE {B, C}]
MCPairTypeOf == [p \in Pools |-> IF p = 1 THEN "xyk" ELSE "stable"]

NoBatches == {{}}
=============================================================================
