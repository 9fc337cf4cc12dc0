----------------------------- MODULE MCIndexer -----------------------------
EXTENDS SnapshotJobs

CONSTANTS poller, backfill, inliner, w1, w2

(* Two ingesters on one cursor; a poller that writes its snapshots itself; *)
(* and a poller that leaves them to two workers.                           *)
MCDeployments ==
  {[ingesters |-> {poller, backfill}, workers |-> {}],
   [ingesters |-> {inliner}, workers |-> {}],
   [ingesters |-> {poller}, workers |-> {w1, w2}]}
MCBulk == {backfill}
MCInline == {inliner}
=============================================================================
