------------------------- MODULE MCRewardTransfers -------------------------
(* Instances of RewardTransfers for TLC. *)
EXTENDS RewardTransfers

\* Two claims of one token and one of another; the contract is one unit short.
MCTokenOf == [c \in Claims |-> IF c = 3 THEN "osmo" ELSE "juno"]
MCAmountOf == [c \in Claims |-> c]
MCFunds == [t \in Tokens |-> IF t = "juno" THEN 2 ELSE 3]
=============================================================================
