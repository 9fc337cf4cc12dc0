----------------------------- MODULE MCFactory ------------------------------
(* The instance of the factory that TLC checks.  Two sets of assets share  *)
(* a key, as two sets of denoms do whose names join to the same string.    *)
EXTENDS Factory

CONSTANTS alice, bob, coin, token, other, concentrated

MCConfigs == {[fee |-> 1, permissioned |-> TRUE, disabled |-> FALSE, whitelist |-> {bob}],
              [fee |-> 2, permissioned |-> FALSE, disabled |-> FALSE, whitelist |-> {}],
              [fee |-> 3, permissioned |-> TRUE, disabled |-> TRUE, whitelist |-> {}]}
MCKey(assets) == IF coin \in assets THEN 1 ELSE 2
=============================================================================
