----------------------------- MODULE CandleJobs -----------------------------
(***************************************************************************)
(* The candle jobs of the indexer (indexer/src/db.ts, candle-worker.ts):   *)
(* each block that brings swaps of a pair enqueues the job of that pair    *)
(* and day in its own transaction; workers claim jobs, rebuild the candles *)
(* of the day from the committed swaps and complete, or fail, the job.     *)
(*                                                                         *)
(* Every statement a worker sends commits on its own, so each is an        *)
(* action.  The writer of a block holds the lock of the job's row from its *)
(* upsert to COMMIT, and a claim skips locked rows: the upsert takes       *)
(* effect with the swaps of the block, in one step.                        *)
(*                                                                         *)
(* The candles of a job are one row for each interval, and what a row says *)
(* is how many of the day's swaps it was built from.                       *)
(***************************************************************************)
EXTENDS Naturals, FiniteSets

CONSTANTS Workers,
          Jobs,         \* a pair and a day
          Nobody,       \* worker_id IS NULL
          NoJob,        \* the job of an idle worker
          NumIntervals, \* rows of a job, in the order they are written
          BatchSize,    \* LIMIT on the swaps of one rebuild
          MaxSwaps,     \* bound: swaps of a day
          MaxBlocks,    \* bound: blocks that touch a pair on a day
          MaxLosses,    \* bound: errors and crashes of workers
          Punctual      \* a rebuild takes less than CANDLE_WORKER_STALE_AFTER_MS

ASSUME NobodyAssumption == Nobody \notin Workers
ASSUME NoJobAssumption == NoJob \notin Jobs
ASSUME NumIntervalsAssumption == NumIntervals \in Nat \ {0}
ASSUME BoundsAssumption == {BatchSize, MaxSwaps, MaxBlocks, MaxLosses} \subseteq Nat
ASSUME PunctualAssumption == Punctual \in BOOLEAN

Intervals == 1..NumIntervals

VARIABLES
  swaps,   \* committed rows of swaps
  blocks,  \* blocks written, for the bound
  jobs,    \* candle_jobs
  candles, \* token_candles
  worker,  \* what each worker process remembers
  losses   \* errors and crashes so far

vars == <<swaps, blocks, jobs, candles, worker, losses>>

Absent == [status |-> "absent", attempts |-> 0, worker_id |-> Nobody, rerun_requested |-> FALSE]
Idle == [pc |-> "idle", job |-> NoJob, attempts |-> 0, read |-> 0, next |-> 1]

Init ==
  /\ swaps = [j \in Jobs |-> 0]
  /\ blocks = [j \in Jobs |-> 0]
  /\ jobs = [j \in Jobs |-> Absent]
  /\ candles = [j \in Jobs |-> [i \in Intervals |-> 0]]
  /\ worker = [w \in Workers |-> Idle]
  /\ losses = 0
-----------------------------------------------------------------------------
(* A block is committed with n new swaps.  A batch merged again brings no  *)
(* new swap but enqueues the job all the same.                             *)
Enqueued(row) ==
  IF row.status = "running" THEN [row EXCEPT !.rerun_requested = TRUE]
                            ELSE [row EXCEPT !.status = "pending", !.rerun_requested = FALSE]

WriteBlock(j, n) ==
  /\ blocks[j] < MaxBlocks /\ swaps[j] + n <= MaxSwaps
  /\ n = 0 => swaps[j] > 0
  /\ blocks' = [blocks EXCEPT ![j] = @ + 1]
  /\ swaps' = [swaps EXCEPT ![j] = @ + n]
  /\ jobs' = [jobs EXCEPT ![j] = Enqueued(@)]
  /\ UNCHANGED <<candles, worker, losses>>
-----------------------------------------------------------------------------
Busy(w) == worker[w].pc # "idle"
WorkedOn(j) == \E w \in Workers : Busy(w) /\ worker[w].job = j

(* A job that is running may be claimed when its claim is too old: at any  *)
(* time in general, and once its worker is gone if workers are punctual.   *)
Stale(j) == jobs[j].status = "running" /\ (Punctual => ~WorkedOn(j))

Claimable_AnyRunning(j) == jobs[j].status \in {"pending", "failed", "running"}
Claimable_NeverStale(j) == jobs[j].status \in {"pending", "failed"}
Claimable(j) == jobs[j].status \in {"pending", "failed"} \/ Stale(j)

Claimed(row, w) ==
  [row EXCEPT !.status = "running", !.attempts = row.attempts + 1, !.worker_id = w]

ClaimNextCandleJob(w, j) ==
  /\ ~Busy(w) /\ Claimable(j)
  /\ jobs' = [jobs EXCEPT ![j] = Claimed(@, w)]
  /\ worker' = [worker EXCEPT ![w] = [Idle EXCEPT !.pc = "reading", !.job = j, !.attempts = jobs[j].attempts + 1]]
  /\ UNCHANGED <<swaps, blocks, candles, losses>>

(* The SELECT of rebuildTokenCandlesForRange, oldest swaps first. *)
ReadSwaps(w) ==
  LET committed == swaps[worker[w].job]
  IN  /\ worker[w].pc = "reading"
      /\ worker' = [worker EXCEPT ![w] = [worker[w] EXCEPT !.pc = "writing",
                                            !.read = IF committed <= BatchSize THEN committed ELSE BatchSize]]
      /\ UNCHANGED <<swaps, blocks, jobs, candles, losses>>

MoreCandles(w) == worker[w].next <= NumIntervals

(* The upsert of one candle.  Nothing fences it. *)
WriteCandle(w) ==
  /\ worker[w].pc = "writing" /\ MoreCandles(w)
  /\ candles' = [candles EXCEPT ![worker[w].job][worker[w].next] = worker[w].read]
  /\ worker' = [worker EXCEPT ![w].next = @ + 1]
  /\ UNCHANGED <<swaps, blocks, jobs, losses>>

(* The WHERE clause of completeCandleJob and failCandleJob. *)
Holds(w, row) ==
  row.status = "running" /\ row.worker_id = w /\ row.attempts = worker[w].attempts

Completed_Forgets(row) == [row EXCEPT !.status = "completed", !.rerun_requested = FALSE]
Completed(row) ==
  [row EXCEPT !.status = IF row.rerun_requested THEN "pending" ELSE "completed",
              !.rerun_requested = FALSE]

Failed(row) == [row EXCEPT !.status = "failed"]

CompleteCandleJob(w) ==
  LET j == worker[w].job
  IN  /\ worker[w].pc = "writing" /\ ~MoreCandles(w)
      /\ jobs' = [jobs EXCEPT ![j] = IF Holds(w, @) THEN Completed(@) ELSE @]
      /\ worker' = [worker EXCEPT ![w] = Idle]
      /\ UNCHANGED <<swaps, blocks, candles, losses>>

(* A statement fails: the worker reports it, ends and is started again. *)
FailCandleJob(w) ==
  LET j == worker[w].job
  IN  /\ Busy(w) /\ losses < MaxLosses
      /\ losses' = losses + 1
      /\ jobs' = [jobs EXCEPT ![j] = IF Holds(w, @) THEN Failed(@) ELSE @]
      /\ worker' = [worker EXCEPT ![w] = Idle]
      /\ UNCHANGED <<swaps, blocks, candles>>

(* The process dies, or cannot report its error, and is started again. *)
Crash(w) ==
  /\ Busy(w) /\ losses < MaxLosses
  /\ losses' = losses + 1
  /\ worker' = [worker EXCEPT ![w] = Idle]
  /\ UNCHANGED <<swaps, blocks, jobs, candles>>
-----------------------------------------------------------------------------
Work(w) == ReadSwaps(w) \/ WriteCandle(w) \/ CompleteCandleJob(w)

Next ==
  \/ \E j \in Jobs, n \in 0..1 : WriteBlock(j, n)
  \/ \E w \in Workers, j \in Jobs : ClaimNextCandleJob(w, j)
  \/ \E w \in Workers : Work(w) \/ FailCandleJob(w) \/ Crash(w)

Spec == Init /\ [][Next]_vars

(* A worker polls for ever, and jobs are claimed in the order of run_after *)
(* so that no job is passed over for ever.                                 *)
Fairness ==
  /\ \A w \in Workers : WF_vars(Work(w))
  /\ \A j \in Jobs : WF_vars(\E w \in Workers : ClaimNextCandleJob(w, j))

FairSpec == Spec /\ Fairness
-----------------------------------------------------------------------------
JobRows ==
  [status : {"absent", "pending", "running", "completed", "failed"},
   attempts : Nat, worker_id : Workers \cup {Nobody}, rerun_requested : BOOLEAN]

WorkerStates ==
  [pc : {"idle", "reading", "writing"}, job : Jobs \cup {NoJob},
   attempts : Nat, read : Nat, next : 1..(NumIntervals + 1)]

(* Types of the tables and of the memory of a worker (migration 006). *)
TypeOK ==
  /\ swaps \in [Jobs -> Nat] /\ blocks \in [Jobs -> Nat] /\ losses \in Nat
  /\ candles \in [Jobs -> [Intervals -> Nat]]
  /\ jobs \in [Jobs -> JobRows]
  /\ worker \in [Workers -> WorkerStates]
  /\ \A w \in Workers : Busy(w) => worker[w].job \in Jobs

Fresh(j) == \A i \in Intervals : candles[j][i] = swaps[j]

(* A job that is completed is done: its candles are built from every swap  *)
(* committed so far, whatever was committed while a worker was rebuilding  *)
(* them and wherever workers failed before (completeCandleJob and the      *)
(* rerun_requested of enqueueCandleJobForSwap).                            *)
CompletedMeansFresh == \A j \in Jobs : jobs[j].status = "completed" => Fresh(j)

(* No rebuild replaces a candle by an older one: the upsert of a rebuild   *)
(* has no fence, and only the job table keeps rebuilds of a day apart.     *)
CandlesNeverGoBack == [][\A j \in Jobs, i \in Intervals : candles'[j][i] >= candles[j][i]]_vars

(* Every committed swap reaches all candles of its day, through errors and *)
(* crashes of workers (the claim of failed and of stale jobs).             *)
CandlesCatchUp ==
  \A j \in Jobs, n \in 1..MaxSwaps :
    (swaps[j] >= n) ~> (\A i \in Intervals : candles[j][i] >= n)
=============================================================================
