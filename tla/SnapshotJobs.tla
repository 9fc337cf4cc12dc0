---------------------------- MODULE SnapshotJobs ----------------------------
(***************************************************************************)
(* The reserve-snapshot workers (indexer/src/snapshot-worker.ts, db.ts) on *)
(* the jobs that ingestion enqueues.  A worker claims a batch, then asks   *)
(* the node for the pool at the height of each job and writes the snapshot *)
(* and the mark of the job in one transaction.                             *)
(*                                                                         *)
(* A lease runs out by time alone, so a leased job may be claimed again at *)
(* any moment: the workers that held it before do not know.                *)
(***************************************************************************)
EXTENDS Ingestion

CONSTANTS ClaimBatch, \* SNAPSHOT_WORKER_BATCH_SIZE
          MaxAttempts \* SNAPSHOT_JOB_MAX_ATTEMPTS

ASSUME AttemptsAssumption == ClaimBatch \in Nat /\ MaxAttempts \in Nat

VARIABLE held \* what each worker remembers: for each height of its batch the attempt

vars == <<ingestVars, held>>

Init == IngestInit /\ held = [w \in deployment.workers |-> <<>>]

Claimable(h) == jobs[h].status \in {"pending", "leased"} /\ jobs[h].attempts < MaxAttempts

(* claimSnapshotJobs: the oldest rows first, as many as the batch takes;   *)
(* rows of the enqueuing transaction or with a lease that runs are passed  *)
(* over, so a claim may take any of them.                                  *)
ClaimJobs(w, batch) ==
  /\ held[w] = <<>>
  /\ batch # {} /\ Cardinality(batch) <= ClaimBatch /\ \A h \in batch : Claimable(h)
  /\ jobs' = [h \in Heights |->
                IF h \in batch THEN [status |-> "leased", attempts |-> jobs[h].attempts + 1] ELSE jobs[h]]
  /\ held' = [held EXCEPT ![w] = [h \in batch |-> jobs[h].attempts + 1]]
  /\ UNCHANGED <<node, processed, cursor, known, swaps, counted, queued, snapshots, ingester, crashes>>

Drop(w, h) == [held EXCEPT ![w] = [k \in DOMAIN held[w] \ {h} |-> held[w][k]]]

(* The WHERE clause of the two marks *)
Owns_AnyAttempt(w, h) == jobs[h].status = "leased"
Owns(w, h) == jobs[h].status = "leased" /\ jobs[h].attempts = held[w][h]

Mark(w, h, status) ==
  jobs' = IF Owns(w, h) THEN [jobs EXCEPT ![h].status = status] ELSE jobs

(* The snapshot is written even by a worker whose mark comes too late. *)
Stored(w, h) == snapshots \cup {h}

Succeed(w, h) ==
  /\ h \in DOMAIN held[w]
  /\ snapshots' = Stored(w, h)
  /\ Mark(w, h, "succeeded")
  /\ held' = Drop(w, h)
  /\ UNCHANGED <<node, processed, cursor, known, swaps, counted, queued, ingester, crashes>>

(* markSnapshotJobFailed *)
StatusAfterFailure_NoLimit(w, h, permanent) == IF permanent THEN "failed" ELSE "pending"
StatusAfterFailure(w, h, permanent) ==
  IF permanent \/ jobs[h].attempts >= MaxAttempts THEN "failed" ELSE "pending"

Fail(w, h, permanent) ==
  /\ h \in DOMAIN held[w]
  /\ Mark(w, h, StatusAfterFailure(w, h, permanent))
  /\ held' = Drop(w, h)
  /\ UNCHANGED <<node, processed, cursor, known, swaps, counted, queued, snapshots, ingester, crashes>>

(* A worker dies with its batch and is started again. *)
CrashWorker(w) ==
  /\ held[w] # <<>>
  /\ held' = [held EXCEPT ![w] = <<>>]
  /\ UNCHANGED ingestVars

Work(w) == \E h \in Heights : Succeed(w, h) \/ \E permanent \in BOOLEAN : Fail(w, h, permanent)

Next ==
  \/ IngestNext /\ UNCHANGED held
  \/ \E w \in deployment.workers :
       \/ \E batch \in SUBSET Heights : ClaimJobs(w, batch)
       \/ Work(w)
       \/ CrashWorker(w)

(* Ingesters and workers poll for ever.  No job is passed over for ever:   *)
(* claims take the oldest first, and a lease runs out.                     *)
Fairness ==
  /\ \A i \in UNION {d.ingesters : d \in Deployments} :
       WF_vars(i \in deployment.ingesters /\ Ingest(i) /\ UNCHANGED held)
  /\ \A w \in UNION {d.workers : d \in Deployments} : WF_vars(w \in deployment.workers /\ Work(w))
  /\ \A h \in Heights :
       WF_vars(\E w \in deployment.workers, batch \in SUBSET Heights : h \in batch /\ ClaimJobs(w, batch))

Spec == Init /\ [][Next]_vars /\ Fairness
-----------------------------------------------------------------------------
(* Types of the tables (migrations 001, 004, 005) and of the processes. *)
TypeOK ==
  /\ chain \in Seq(Blocks) /\ deep \in BOOLEAN /\ deployment \in Deployments
  /\ processed \in [Heights -> Blocks \cup {NoBlock}]
  /\ cursor \in 0..MaxHeight /\ known \in BOOLEAN
  /\ swaps \subseteq Ids /\ queued \subseteq Ids /\ counted \in [Ids -> Nat]
  /\ snapshots \subseteq Heights
  /\ jobs \in [Heights -> [status : {"absent", "pending", "leased", "succeeded", "failed"}, attempts : 0..MaxAttempts]]
  /\ \A i \in deployment.ingesters : ingester[i].pc \in {"idle", "fetching", "writing", "snapshots", "done"}
  /\ \A w \in deployment.workers : DOMAIN held[w] \subseteq Heights

(* What a worker decides about a job that was claimed from it is lost: a   *)
(* job that is settled stays settled, and one that is held at its latest   *)
(* attempt is given back only by its holder (the attempts in the WHERE     *)
(* clause of the marks).                                                   *)
Holders(h) == {w \in deployment.workers : h \in DOMAIN held[w] /\ held[w][h] = jobs[h].attempts}

MarksOfHolderOnly ==
  [][\A h \in Heights :
       /\ jobs[h].status \in {"succeeded", "failed"} => jobs'[h] = jobs[h]
       /\ (jobs[h].status = "leased" /\ jobs'[h].status \notin {"leased"})
            => \E w \in Holders(h) : h \notin DOMAIN held'[w]]_vars

(* Every job is settled in the end, with one exception: a job whose worker *)
(* died on the last attempt stays leased, and nobody may claim it.         *)
Abandoned(h) == jobs[h].status = "leased" /\ jobs[h].attempts = MaxAttempts /\ Holders(h) = {}

JobsSettle ==
  \A h \in Heights :
    (deployment.workers # {} /\ jobs[h].status # "absent")
      ~> (jobs[h].status \in {"succeeded", "failed"} \/ Abandoned(h))
=============================================================================
