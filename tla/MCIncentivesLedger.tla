------------------------- MODULE MCIncentivesLedger -------------------------
(* Instances of IncentivesLedger for TLC. *)
EXTENDS IncentivesLedger

MCPairAssets == [p \in Pools |-> IF p = 1 THEN {101, 102} ELSE {103, 104}]
MCPairTypeOf == [p \in Pools |-> IF p = 1 THEN "xyk" ELSE "stable"]
NoBatches == {{}}
\* Both tokens of pool 1, and one of each pool.
Batches == {{}, {101, 102}, {101, 103}}
=============================================================================
