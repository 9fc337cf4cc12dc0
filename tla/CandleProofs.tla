---------------------------- MODULE CandleProofs ----------------------------
(***************************************************************************)
(* CandleJobs for any number of workers, jobs, swaps and failures: if a    *)
(* rebuild is never overtaken and reads the whole day, completed jobs have *)
(* up-to-date candles and no candle goes back to an older state.           *)
(***************************************************************************)
EXTENDS CandleJobs, TLAPS

(* A rebuild reads all swaps of a day, as the default of                   *)
(* CANDLE_WORKER_BATCH_SIZE (2147483647) makes it.                         *)
WholeDay == BatchSize >= MaxSwaps

(* Whoever works on a job holds it. *)
WorkersHold == \A w \in Workers : Busy(w) => Holds(w, jobs[worker[w].job])

NotAhead == \A j \in Jobs : swaps[j] <= MaxSwaps /\ \A i \in Intervals : candles[j][i] <= swaps[j]

(* What a worker read is all there is, or the job will run again; and the  *)
(* rows behind it say what it read.                                        *)
ReadIsCurrent(w) ==
  LET j == worker[w].job
      me == worker[w]
  IN  /\ me.read <= swaps[j]
      /\ me.read < swaps[j] => jobs[j].rerun_requested
      /\ \A i \in Intervals : candles[j][i] <= me.read
      /\ \A i \in Intervals : i < me.next => candles[j][i] = me.read

WritersCurrent == \A w \in Workers : worker[w].pc = "writing" => ReadIsCurrent(w)

ReadersStart == \A w \in Workers : worker[w].pc = "reading" => worker[w].next = 1

IInv == TypeOK /\ WorkersHold /\ NotAhead /\ WritersCurrent /\ ReadersStart /\ CompletedMeansFresh
-----------------------------------------------------------------------------
LEMMA InitInvariant == Init => IInv
<1> SUFFICES ASSUME Init PROVE IInv
  OBVIOUS
<1> USE BoundsAssumption, NumIntervalsAssumption
<1>1. TypeOK
  BY DEF Init, TypeOK, JobRows, WorkerStates, Absent, Idle, Busy, Intervals
<1>2. WorkersHold /\ WritersCurrent /\ ReadersStart
  BY DEF Init, WorkersHold, WritersCurrent, ReadersStart, Busy, Idle
<1>3. NotAhead
  BY DEF Init, NotAhead, Intervals
<1>4. CompletedMeansFresh
  BY DEF Init, CompletedMeansFresh, Absent
<1> QED BY <1>1, <1>2, <1>3, <1>4 DEF IInv

LEMMA WriteBlockInvariant ==
  ASSUME IInv, NEW j \in Jobs, NEW n \in 0..1, WriteBlock(j, n)
  PROVE  IInv'
<1> USE DEF IInv, WriteBlock
<1> DEFINE row == Enqueued(jobs[j])
<1>0. /\ jobs[j] \in JobRows /\ swaps[j] \in Nat /\ blocks[j] \in Nat
      /\ jobs' = [jobs EXCEPT ![j] = row]
      /\ swaps' = [swaps EXCEPT ![j] = @ + n]
  BY DEF TypeOK
<1>1. row \in JobRows
  BY <1>0 DEF Enqueued, JobRows
<1>2. TypeOK'
  <2>1. swaps' \in [Jobs -> Nat] /\ blocks' \in [Jobs -> Nat]
    BY <1>0 DEF TypeOK
  <2>2. jobs' \in [Jobs -> JobRows]
    BY <1>0, <1>1 DEF TypeOK
  <2> QED BY <2>1, <2>2 DEF TypeOK, Busy
<1>3. WorkersHold'
  <2> SUFFICES ASSUME NEW w \in Workers, Busy(w) PROVE Holds(w, jobs[worker[w].job])'
    BY DEF WorkersHold, Busy
  <2>1. Holds(w, jobs[worker[w].job]) /\ worker[w].job \in Jobs
    BY DEF WorkersHold, TypeOK
  <2> QED BY <2>1, <1>0 DEF Holds, Enqueued, TypeOK, JobRows
<1>4. NotAhead'
  <2>1. swaps'[j] = swaps[j] + n /\ swaps[j] <= swaps'[j] /\ swaps'[j] <= MaxSwaps
    BY <1>0 DEF TypeOK
  <2>2. \A k \in Jobs \ {j} : swaps'[k] = swaps[k]
    BY <1>0 DEF TypeOK
  <2>3. \A i \in Intervals : candles[j][i] \in Nat /\ candles[j][i] <= swaps[j]
    BY DEF NotAhead, TypeOK
  <2>4. \A i \in Intervals : candles[j][i] <= swaps'[j]
    BY <2>1, <2>3, <1>0
  <2> QED BY <2>1, <2>2, <2>4 DEF NotAhead
<1>5. WritersCurrent'
  <2> SUFFICES ASSUME NEW w \in Workers, worker'[w].pc = "writing" PROVE ReadIsCurrent(w)'
    BY DEF WritersCurrent
  <2>1. worker[w].pc = "writing" /\ ReadIsCurrent(w) /\ Holds(w, jobs[worker[w].job]) /\ worker[w].job \in Jobs
    BY DEF WritersCurrent, WorkersHold, Busy, TypeOK
  <2>2. CASE worker[w].job = j
    <3>1. jobs'[j].rerun_requested
      BY <2>1, <2>2, <1>0 DEF Holds, Enqueued, TypeOK, JobRows
    <3>2. worker[w].read <= swaps'[j]
      BY <2>1, <2>2, <1>0 DEF ReadIsCurrent, TypeOK, WorkerStates
    <3> QED BY <2>1, <2>2, <3>1, <3>2 DEF ReadIsCurrent
  <2>3. CASE worker[w].job # j
    BY <2>1, <2>3, <1>0 DEF ReadIsCurrent, TypeOK
  <2> QED BY <2>2, <2>3
<1>6. CompletedMeansFresh'
  <2>1. jobs'[j].status # "completed"
    BY <1>0 DEF Enqueued, TypeOK, JobRows
  <2>2. \A k \in Jobs \ {j} : jobs'[k] = jobs[k] /\ swaps'[k] = swaps[k]
    BY <1>0 DEF TypeOK
  <2> QED BY <2>1, <2>2 DEF CompletedMeansFresh, Fresh
<1>7. ReadersStart'
  BY DEF ReadersStart
<1> QED BY <1>2, <1>3, <1>4, <1>5, <1>6, <1>7

LEMMA ClaimInvariant ==
  ASSUME Punctual, IInv, NEW w \in Workers, NEW j \in Jobs, ClaimNextCandleJob(w, j)
  PROVE  IInv'
<1> DEFINE row == Claimed(jobs[j], w)
           me == [Idle EXCEPT !.pc = "reading", !.job = j, !.attempts = jobs[j].attempts + 1]
<1>0. /\ jobs' = [jobs EXCEPT ![j] = row] /\ worker' = [worker EXCEPT ![w] = me]
      /\ UNCHANGED <<swaps, blocks, candles, losses>> /\ Claimable(j)
  BY DEF ClaimNextCandleJob
<1> HIDE DEF row, me
<1>a. TypeOK /\ WorkersHold /\ NotAhead /\ WritersCurrent /\ ReadersStart /\ CompletedMeansFresh /\ jobs[j] \in JobRows
  BY DEF IInv, TypeOK
<1>1. /\ row \in JobRows /\ row.status = "running" /\ row.worker_id = w /\ row.attempts = jobs[j].attempts + 1
      /\ me \in WorkerStates /\ me.pc = "reading" /\ me.job = j /\ me.attempts = jobs[j].attempts + 1 /\ me.next = 1
  <2>1. jobs[j].attempts + 1 \in Nat /\ 1 \in 1..(NumIntervals + 1) /\ 0 \in Nat
    BY <1>a, NumIntervalsAssumption DEF JobRows
  <2>2. row \in JobRows /\ row.status = "running" /\ row.worker_id = w /\ row.attempts = jobs[j].attempts + 1
    BY <1>a, <2>1 DEF row, Claimed, JobRows
  <2>3. /\ me.pc = "reading" /\ me.job = j /\ me.attempts = jobs[j].attempts + 1 /\ me.next = 1
        /\ me \in WorkerStates
    BY <2>1 DEF me, Idle, WorkerStates
  <2> QED BY <2>2, <2>3
<1>b. /\ jobs'[j] = row /\ \A k \in Jobs \ {j} : jobs'[k] = jobs[k]
      /\ worker'[w] = me /\ \A v \in Workers \ {w} : worker'[v] = worker[v]
  BY <1>0, <1>a DEF TypeOK
<1>2. \A v \in Workers \ {w} : Busy(v) => worker[v].job # j
  BY <1>0, <1>a DEF Claimable, Stale, WorkedOn, WorkersHold, Holds
<1>3. TypeOK'
  <2>1. jobs' \in [Jobs -> JobRows] /\ worker' \in [Workers -> WorkerStates]
    BY <1>0, <1>1, <1>a DEF TypeOK
  <2> QED BY <2>1, <1>0, <1>1, <1>a, <1>b DEF TypeOK, Busy
<1>4. WorkersHold'
  <2> SUFFICES ASSUME NEW v \in Workers, Busy(v)' PROVE Holds(v, jobs[worker[v].job])'
    BY DEF WorkersHold
  <2>1. CASE v = w
    BY <2>1, <1>1, <1>b DEF Holds
  <2>2. CASE v # w
    <3>1. worker'[v] = worker[v] /\ Busy(v) /\ worker[v].job # j /\ worker[v].job \in Jobs
      BY <2>2, <1>a, <1>b, <1>2 DEF TypeOK, Busy
    <3> QED BY <3>1, <1>a, <1>b DEF WorkersHold, Holds
  <2> QED BY <2>1, <2>2
<1>5. NotAhead'
  BY <1>0, <1>a DEF NotAhead
<1>6. WritersCurrent'
  <2> SUFFICES ASSUME NEW v \in Workers, worker'[v].pc = "writing" PROVE ReadIsCurrent(v)'
    BY DEF WritersCurrent
  <2>1. v # w /\ worker'[v] = worker[v]
    BY <1>1, <1>b
  <2>2. worker[v].job # j /\ worker[v].job \in Jobs /\ ReadIsCurrent(v)
    BY <2>1, <1>2, <1>a DEF WritersCurrent, TypeOK, Busy
  <2> QED BY <2>1, <2>2, <1>0, <1>b DEF ReadIsCurrent
<1>7. CompletedMeansFresh'
  BY <1>0, <1>1, <1>a, <1>b DEF CompletedMeansFresh, Fresh
<1>8. ReadersStart'
  BY <1>1, <1>a, <1>b DEF ReadersStart
<1> QED BY <1>3, <1>4, <1>5, <1>6, <1>7, <1>8 DEF IInv

LEMMA ReadInvariant ==
  ASSUME WholeDay, IInv, NEW w \in Workers, ReadSwaps(w)
  PROVE  IInv'
<1> DEFINE j == worker[w].job
           me == [worker[w] EXCEPT !.pc = "writing", !.read = swaps[j]]
<1>a. TypeOK /\ WorkersHold /\ NotAhead /\ WritersCurrent /\ ReadersStart /\ CompletedMeansFresh
  BY DEF IInv
<1>1. j \in Jobs /\ Busy(w) /\ swaps[j] \in Nat /\ worker[w] \in WorkerStates /\ worker[w].next = 1
  BY <1>a DEF TypeOK, Busy, ReadSwaps, ReadersStart
<1>2. swaps[j] <= BatchSize
  <2>1. BatchSize \in Nat /\ MaxSwaps \in Nat
    BY BoundsAssumption
  <2> QED BY <2>1, <1>a, <1>1 DEF WholeDay, NotAhead
<1>3. worker' = [worker EXCEPT ![w] = me] /\ UNCHANGED <<swaps, blocks, jobs, candles, losses>>
  BY <1>2 DEF ReadSwaps
<1>4. /\ me \in WorkerStates /\ me.job = j /\ me.attempts = worker[w].attempts
      /\ me.read = swaps[j] /\ me.next = worker[w].next /\ me.pc = "writing"
  BY <1>1, <1>a DEF WorkerStates
<1>5. worker'[w] = me /\ \A v \in Workers \ {w} : worker'[v] = worker[v]
  BY <1>3, <1>a DEF TypeOK
<1>6. TypeOK'
  <2>1. worker' \in [Workers -> WorkerStates]
    BY <1>3, <1>4, <1>a DEF TypeOK
  <2> QED BY <2>1, <1>1, <1>3, <1>4, <1>5, <1>a DEF TypeOK, Busy
<1>7. WorkersHold'
  BY <1>1, <1>3, <1>4, <1>5, <1>a DEF WorkersHold, Busy, Holds
<1>8. NotAhead' /\ CompletedMeansFresh'
  BY <1>3, <1>a DEF NotAhead, CompletedMeansFresh, Fresh
<1>9. WritersCurrent'
  <2> SUFFICES ASSUME NEW v \in Workers, worker'[v].pc = "writing" PROVE ReadIsCurrent(v)'
    BY DEF WritersCurrent
  <2>1. CASE v # w
    BY <2>1, <1>3, <1>5, <1>a DEF WritersCurrent, ReadIsCurrent
  <2>2. CASE v = w
    <3>1. worker'[v].job = j /\ worker'[v].read = swaps[j] /\ worker'[v].next = 1
      BY <2>2, <1>1, <1>4, <1>5
    <3>2. \A i \in Intervals : candles[j][i] <= swaps[j]
      BY <1>1, <1>a DEF NotAhead
    <3>3. \A i \in Intervals : ~(i < 1)
      BY DEF Intervals
    <3> HIDE DEF j
    <3> QED BY <3>1, <3>2, <3>3, <1>1, <1>3 DEF ReadIsCurrent
  <2> QED BY <2>1, <2>2
<1>b. ReadersStart'
  BY <1>4, <1>5, <1>a DEF ReadersStart
<1> QED BY <1>6, <1>7, <1>8, <1>9, <1>b DEF IInv

LEMMA WorkersApart ==
  ASSUME WorkersHold, NEW v \in Workers, NEW w \in Workers, v # w, Busy(v), Busy(w)
  PROVE  worker[v].job # worker[w].job
BY DEF WorkersHold, Holds

LEMMA WriteCandleInvariant ==
  ASSUME IInv, NEW w \in Workers, WriteCandle(w)
  PROVE  IInv'
<1> DEFINE j == worker[w].job
           n == worker[w].next
           me == [worker[w] EXCEPT !.next = n + 1]
<1>a. TypeOK /\ WorkersHold /\ NotAhead /\ WritersCurrent /\ ReadersStart /\ CompletedMeansFresh
  BY DEF IInv
<1>1. /\ j \in Jobs /\ Busy(w) /\ worker[w] \in WorkerStates /\ n \in Intervals /\ swaps[j] \in Nat
      /\ ReadIsCurrent(w) /\ worker[w].pc = "writing" /\ worker[w].read \in Nat
  BY <1>a, NumIntervalsAssumption
     DEF TypeOK, Busy, WriteCandle, MoreCandles, WritersCurrent, WorkerStates, Intervals
<1>2. /\ worker' = [worker EXCEPT ![w] = me]
      /\ candles' = [candles EXCEPT ![j][n] = worker[w].read]
      /\ UNCHANGED <<swaps, blocks, jobs, losses>>
  BY DEF WriteCandle
<1>3. /\ me \in WorkerStates /\ me.job = j /\ me.attempts = worker[w].attempts
      /\ me.read = worker[w].read /\ me.next = n + 1 /\ me.pc = "writing"
  BY <1>1, NumIntervalsAssumption DEF WorkerStates, Intervals
<1>4. worker'[w] = me /\ \A v \in Workers \ {w} : worker'[v] = worker[v]
  BY <1>2, <1>a DEF TypeOK
<1>5. /\ candles' \in [Jobs -> [Intervals -> Nat]]
      /\ candles'[j][n] = worker[w].read
      /\ \A i \in Intervals \ {n} : candles'[j][i] = candles[j][i]
      /\ \A k \in Jobs \ {j} : candles'[k] = candles[k]
  <2> HIDE DEF j, n
  <2> QED BY <1>1, <1>2, <1>a DEF TypeOK
<1>6. TypeOK'
  <2>1. worker' \in [Workers -> WorkerStates]
    BY <1>2, <1>3, <1>a DEF TypeOK
  <2> QED BY <2>1, <1>1, <1>2, <1>3, <1>4, <1>5, <1>a DEF TypeOK, Busy
<1>7. WorkersHold'
  BY <1>1, <1>2, <1>3, <1>4, <1>a DEF WorkersHold, Busy, Holds
<1> HIDE DEF j, n
<1>8. NotAhead'
  <2>1. \A i \in Intervals : candles'[j][i] <= swaps[j]
    BY <1>1, <1>5, <1>a DEF NotAhead, ReadIsCurrent, j
  <2> QED BY <2>1, <1>2, <1>5, <1>a DEF NotAhead
<1>9. WritersCurrent'
  <2> SUFFICES ASSUME NEW v \in Workers, worker'[v].pc = "writing" PROVE ReadIsCurrent(v)'
    BY DEF WritersCurrent
  <2>1. CASE v # w
    <3>1. worker'[v] = worker[v] /\ Busy(v) /\ ReadIsCurrent(v)
      BY <2>1, <1>4, <1>a DEF WritersCurrent, Busy
    <3>2. worker[v].job \in Jobs \ {j}
      BY <2>1, <3>1, <1>1, <1>a, WorkersApart DEF TypeOK, j
    <3> QED BY <3>1, <3>2, <1>2, <1>5 DEF ReadIsCurrent
  <2>2. CASE v = w
    <3>1. /\ worker[w].read <= swaps[j] /\ (worker[w].read < swaps[j] => jobs[j].rerun_requested)
          /\ \A i \in Intervals : candles[j][i] <= worker[w].read
          /\ \A i \in Intervals : i < n => candles[j][i] = worker[w].read
      BY <1>1 DEF ReadIsCurrent, j, n
    <3>2. \A i \in Intervals : candles'[j][i] <= worker[w].read
      BY <3>1, <1>1, <1>5
    <3>3. \A i \in Intervals : i < n + 1 => candles'[j][i] = worker[w].read
      <4>1. \A i \in Intervals : i < n + 1 /\ i # n => i < n
        BY <1>1 DEF Intervals
      <4> QED BY <4>1, <3>1, <1>5
    <3>4. worker'[v].job = j /\ worker'[v].read = worker[w].read /\ worker'[v].next = n + 1
      BY <2>2, <1>3, <1>4
    <3> QED BY <3>1, <3>2, <3>3, <3>4, <1>2 DEF ReadIsCurrent
  <2> QED BY <2>1, <2>2
<1>b. CompletedMeansFresh'
  <2>1. jobs[j].status = "running"
    BY <1>1, <1>a DEF WorkersHold, Holds, j
  <2> QED BY <2>1, <1>2, <1>5, <1>a DEF CompletedMeansFresh, Fresh
<1>c. ReadersStart'
  BY <1>3, <1>4, <1>a DEF ReadersStart
<1> QED BY <1>6, <1>7, <1>8, <1>9, <1>b, <1>c DEF IInv

(* A worker lets go of its job and leaves "row" in the table. *)
LEMMA ReleaseInvariant ==
  ASSUME IInv, NEW w \in Workers, Busy(w), NEW row \in JobRows,
         worker' = [worker EXCEPT ![w] = Idle],
         jobs' = [jobs EXCEPT ![worker[w].job] = row],
         UNCHANGED <<swaps, blocks, candles>>, losses' \in Nat,
         row.status = "completed" => Fresh(worker[w].job)
  PROVE  IInv'
<1> DEFINE j == worker[w].job
<1>a. TypeOK /\ WorkersHold /\ NotAhead /\ WritersCurrent /\ ReadersStart /\ CompletedMeansFresh
  BY DEF IInv
<1>1. j \in Jobs
  BY <1>a DEF TypeOK
<1>2. /\ jobs' \in [Jobs -> JobRows] /\ jobs'[j] = row /\ \A k \in Jobs \ {j} : jobs'[k] = jobs[k]
  BY <1>1, <1>a DEF TypeOK
<1>3. Idle \in WorkerStates /\ Idle.pc = "idle"
  BY NumIntervalsAssumption DEF Idle, WorkerStates
<1>4. /\ worker' \in [Workers -> WorkerStates] /\ worker'[w].pc = "idle"
      /\ \A v \in Workers \ {w} : worker'[v] = worker[v]
  BY <1>3, <1>a DEF TypeOK
<1>5. \A v \in Workers \ {w} : Busy(v) => worker[v].job \in Jobs \ {j}
  BY <1>a, WorkersApart DEF TypeOK
<1> HIDE DEF j
<1>6. TypeOK'
  BY <1>2, <1>4, <1>a DEF TypeOK, Busy
<1>7. WorkersHold'
  BY <1>2, <1>4, <1>5, <1>a DEF WorkersHold, Busy, Holds
<1>8. NotAhead'
  BY <1>a DEF NotAhead
<1>9. WritersCurrent'
  <2> SUFFICES ASSUME NEW v \in Workers, worker'[v].pc = "writing" PROVE ReadIsCurrent(v)'
    BY DEF WritersCurrent
  <2>1. v # w /\ worker'[v] = worker[v] /\ Busy(v) /\ ReadIsCurrent(v)
    BY <1>4, <1>a DEF WritersCurrent, Busy
  <2>2. worker[v].job \in Jobs \ {j}
    BY <2>1, <1>5
  <2> QED BY <2>1, <2>2, <1>2 DEF ReadIsCurrent
<1>b. CompletedMeansFresh'
  BY <1>2, <1>a DEF CompletedMeansFresh, Fresh, j
<1>c. ReadersStart'
  BY <1>4, <1>a DEF ReadersStart
<1> QED BY <1>6, <1>7, <1>8, <1>9, <1>b, <1>c DEF IInv

LEMMA CompleteInvariant ==
  ASSUME IInv, NEW w \in Workers, CompleteCandleJob(w)
  PROVE  IInv'
<1> DEFINE j == worker[w].job
<1>a. TypeOK /\ WorkersHold /\ WritersCurrent
  BY DEF IInv
<1>1. Busy(w) /\ j \in Jobs /\ jobs[j] \in JobRows /\ ReadIsCurrent(w) /\ Holds(w, jobs[j])
  BY <1>a DEF CompleteCandleJob, Busy, TypeOK, WorkersHold, WritersCurrent
<1>2. Completed(jobs[j]) \in JobRows
  BY <1>1 DEF Completed, JobRows
<1>3. jobs' = [jobs EXCEPT ![j] = Completed(jobs[j])]
  BY <1>1 DEF CompleteCandleJob
<1>4. \A i \in Intervals : candles[j][i] = worker[w].read
  <2>1. \A i \in Intervals : i < worker[w].next
    BY <1>a, NumIntervalsAssumption DEF CompleteCandleJob, MoreCandles, TypeOK, WorkerStates, Intervals
  <2> QED BY <2>1, <1>1 DEF ReadIsCurrent
<1>5. Completed(jobs[j]).status = "completed" => Fresh(j)
  <2>1. Completed(jobs[j]).status = "completed" => ~jobs[j].rerun_requested
    BY <1>1 DEF Completed, JobRows
  <2>2. swaps[j] \in Nat /\ worker[w].read \in Nat
    BY <1>1, <1>a DEF TypeOK, WorkerStates
  <2>3. ~jobs[j].rerun_requested => worker[w].read = swaps[j]
    BY <2>2, <1>1 DEF ReadIsCurrent
  <2> QED BY <2>1, <2>3, <1>4 DEF Fresh
<1>6. /\ worker' = [worker EXCEPT ![w] = Idle] /\ UNCHANGED <<swaps, blocks, candles>> /\ losses' \in Nat
  BY <1>a DEF CompleteCandleJob, TypeOK
<1> QED BY <1>1, <1>2, <1>3, <1>5, <1>6, ReleaseInvariant

LEMMA LossInvariant ==
  ASSUME IInv, NEW w \in Workers, FailCandleJob(w) \/ Crash(w)
  PROVE  IInv'
<1> DEFINE j == worker[w].job
<1>a. TypeOK /\ WorkersHold /\ CompletedMeansFresh
  BY DEF IInv
<1>1. Busy(w) /\ j \in Jobs /\ jobs[j] \in JobRows /\ Holds(w, jobs[j])
  BY <1>a DEF FailCandleJob, Crash, TypeOK, WorkersHold
<1>2. worker' = [worker EXCEPT ![w] = Idle] /\ UNCHANGED <<swaps, blocks, candles>> /\ losses' \in Nat
  BY <1>a DEF FailCandleJob, Crash, TypeOK
<1>3. CASE FailCandleJob(w)
  <2>1. jobs' = [jobs EXCEPT ![j] = Failed(jobs[j])]
    BY <1>1, <1>3 DEF FailCandleJob
  <2>2. Failed(jobs[j]) \in JobRows /\ Failed(jobs[j]).status # "completed"
    BY <1>1 DEF Failed, JobRows
  <2> QED BY <1>1, <1>2, <2>1, <2>2, ReleaseInvariant
<1>4. CASE Crash(w)
  <2>1. jobs' = [jobs EXCEPT ![j] = jobs[j]]
    BY <1>1, <1>4, <1>a DEF Crash, TypeOK
  <2>2. jobs[j].status # "completed"
    BY <1>1 DEF Holds
  <2> QED BY <1>1, <1>2, <2>1, <2>2, ReleaseInvariant
<1> QED BY <1>3, <1>4

LEMMA NextInvariant ==
  ASSUME Punctual, WholeDay, IInv, [Next]_vars
  PROVE  IInv'
<1>1. ASSUME NEW j \in Jobs, NEW n \in 0..1, WriteBlock(j, n) PROVE IInv'
  BY <1>1, WriteBlockInvariant
<1>2. ASSUME NEW w \in Workers, NEW j \in Jobs, ClaimNextCandleJob(w, j) PROVE IInv'
  BY <1>2, ClaimInvariant
<1>3. ASSUME NEW w \in Workers, ReadSwaps(w) PROVE IInv'
  BY <1>3, ReadInvariant
<1>4. ASSUME NEW w \in Workers, WriteCandle(w) PROVE IInv'
  BY <1>4, WriteCandleInvariant
<1>5. ASSUME NEW w \in Workers, CompleteCandleJob(w) PROVE IInv'
  BY <1>5, CompleteInvariant
<1>6. ASSUME NEW w \in Workers, FailCandleJob(w) \/ Crash(w) PROVE IInv'
  BY <1>6, LossInvariant
<1>7. CASE UNCHANGED vars
  BY <1>7 DEF vars, IInv, TypeOK, WorkersHold, NotAhead, WritersCurrent, ReadersStart,
              CompletedMeansFresh, ReadIsCurrent, Holds, Busy, Fresh
<1> QED BY <1>1, <1>2, <1>3, <1>4, <1>5, <1>6, <1>7 DEF Next, Work

LEMMA NextNeverGoesBack ==
  ASSUME IInv, Next
  PROVE  \A j \in Jobs, i \in Intervals : candles'[j][i] >= candles[j][i]
<1> SUFFICES ASSUME NEW j \in Jobs, NEW i \in Intervals PROVE candles'[j][i] >= candles[j][i]
  OBVIOUS
<1>1. candles[j][i] \in Nat /\ TypeOK /\ WritersCurrent
  BY DEF IInv, TypeOK
<1>2. ASSUME NEW w \in Workers, WriteCandle(w) PROVE candles'[j][i] >= candles[j][i]
  <2>1. /\ ReadIsCurrent(w) /\ worker[w].read \in Nat
        /\ candles' = [candles EXCEPT ![worker[w].job][worker[w].next] = worker[w].read]
    BY <1>1, <1>2 DEF WriteCandle, WritersCurrent, TypeOK, WorkerStates
  <2> QED BY <2>1, <1>1 DEF ReadIsCurrent, TypeOK
<1>3. CASE candles' = candles
  BY <1>1, <1>3
<1> QED BY <1>2, <1>3 DEF Next, Work, WriteBlock, ClaimNextCandleJob, ReadSwaps, CompleteCandleJob,
                          FailCandleJob, Crash
-----------------------------------------------------------------------------
(* While rebuilds are not overtaken and read the whole day, the tables and *)
(* the workers stay within their types ...                                 *)
THEOREM CandleTypes ==
  ASSUME Punctual, WholeDay
  PROVE  Spec => []TypeOK
<1>1. IInv /\ [Next]_vars => IInv'
  BY NextInvariant
<1>2. IInv => TypeOK
  BY DEF IInv
<1> QED BY <1>1, <1>2, InitInvariant, PTL DEF Spec

(* ... a completed job has candles that contain every committed swap,      *)
(* whatever the number of workers and wherever they fail ...               *)
THEOREM CompletedJobsFresh ==
  ASSUME Punctual, WholeDay
  PROVE  Spec => []CompletedMeansFresh
<1>1. IInv /\ [Next]_vars => IInv'
  BY NextInvariant
<1>2. IInv => CompletedMeansFresh
  BY DEF IInv
<1> QED BY <1>1, <1>2, InitInvariant, PTL DEF Spec

(* ... and no upsert of a candle replaces it by an older one.              *)
THEOREM CandlesOnlyGrow ==
  ASSUME Punctual, WholeDay
  PROVE  Spec => CandlesNeverGoBack
<1> DEFINE Grow == \A j \in Jobs, i \in Intervals : candles'[j][i] >= candles[j][i]
<1>1. IInv /\ [Next]_vars => IInv'
  BY NextInvariant
<1>2. IInv /\ [Next]_vars => [Grow]_vars
  BY NextNeverGoesBack
<1> QED BY <1>1, <1>2, InitInvariant, PTL DEF Spec, CandlesNeverGoBack
=============================================================================
