--------------------------- MODULE MCObservations ---------------------------
(* The instance of the observations that TLC checks.                       *)
EXTENDS PriceObservations

MCSizes == {<<1, 2>>, <<4, 1>>}
=============================================================================
