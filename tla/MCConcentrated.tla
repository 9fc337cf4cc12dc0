--------------------------- MODULE MCConcentrated ---------------------------
(* The instance of the concentrated pair that TLC checks.                  *)
EXTENDS ConcentratedPair

MCUnit == <<100, 100>>
MCFeeInfos == {[total |-> 0, maker |-> 5000]}
MCParams == [midFee |-> 100, outFee |-> 400, feeGamma |-> 1000, threshold |-> 0, minDelta |-> 500,
             maHalfTime |-> 2, allowedDrop |-> 10, lossesThreshold |-> 20]
MCParamLimits ==
  [midFee |-> [least |-> 10, most |-> 1000], outFee |-> [least |-> 10, most |-> 1000],
   feeGamma |-> [least |-> 0, most |-> Scale], threshold |-> [least |-> 0, most |-> 1000],
   minDelta |-> [least |-> 0, most |-> Scale], maHalfTime |-> [least |-> 1, most |-> 7],
   allowedDrop |-> [least |-> 0, most |-> 10], lossesThreshold |-> [least |-> 0, most |-> 20]]
MCNewParams == {[field |-> "midFee", value |-> 900]}
MCAmpGamma == [amp |-> 5000, gamma |-> 1000]
MCNextAmpGammas == {[amp |-> 1000, gamma |-> 500]}
MCAmpLimits == [least |-> 1000, most |-> 40000]
MCGammaLimits == [least |-> 100, most |-> 5000]
=============================================================================
