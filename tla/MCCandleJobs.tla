---------------------------- MODULE MCCandleJobs ----------------------------
(* An instance of CandleJobs for TLC. *)
EXTENDS CandleJobs, TLC

CONSTANTS w1, w2, j1, j2

MCWorkers == {w1, w2}
MCJobs == {j1, j2}
=============================================================================
