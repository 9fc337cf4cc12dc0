--------------------------- MODULE IndexerProofs ----------------------------
(***************************************************************************)
(* The ledger of the indexer for any ingesters and workers, any chain and  *)
(* any range: what several ingesters write on one cursor, block by block   *)
(* or in batches, through crashes and while the node's chain changes, is   *)
(* one chain without gaps whose swaps are counted once, and what becomes   *)
(* of a snapshot job is decided by its last holder.                        *)
(***************************************************************************)
EXTENDS SnapshotJobs, SequenceTheorems, TLAPS

Partial(T) == UNION {[S -> T] : S \in SUBSET Heights}

JobRows == [status : {"absent", "pending", "leased", "succeeded", "failed"}, attempts : Nat]

States == [pc : {"idle", "fetching", "writing", "snapshots", "done"},
           from : Nat, to : Nat, got : Partial(Blocks)]

TableTypes ==
  /\ processed \in [Heights -> Blocks \cup {NoBlock}]
  /\ cursor \in 0..MaxHeight
  /\ jobs \in [Heights -> JobRows]

ChainTypes == chain \in Seq(Blocks) /\ Len(chain) <= MaxHeight

Recorded(h) == processed[h] # NoBlock

(* What is recorded starts at the first block and has no gap, *)
NoGap == \A h \in Heights : Recorded(h) => \A k \in 1..h : Recorded(k)

(* is one chain, *)
Linked == \A h \in Heights \ {1} : Recorded(h) /\ Recorded(h - 1) => processed[h].parent = processed[h - 1].hash

(* and has its swap and job. *)
Whole ==
  \A h \in Heights : Recorded(h) /\ h >= PoolHeight =>
    /\ known
    /\ <<h, processed[h].hash>> \in swaps
    /\ deployment.ingesters \cap Inline = {} => jobs[h] # NoJob

Ledger == TableTypes /\ NoGap /\ Linked /\ Whole /\ \A h \in 1..cursor : Recorded(h)

(* An ingester at work has what it is to write, or fetches it from blocks  *)
(* that the chain has, and everything below is recorded.                   *)
AtWork(g) == g.pc \in {"fetching", "writing", "snapshots"}

InRange(i, g) ==
  /\ g.from \in Heights /\ g.to \in Heights /\ g.from <= g.to
  /\ g.pc = "fetching" => DOMAIN g.got \subseteq g.from..g.to
  /\ g.pc # "fetching" => g.from..g.to \subseteq DOMAIN g.got
  /\ g.pc = "writing" /\ i \in Bulk => DOMAIN g.got = g.from..g.to
  /\ g.pc = "snapshots" /\ i \in Bulk => g.from = g.to

Working(i, g) ==
  AtWork(g) =>
    /\ InRange(i, g)
    /\ \A k \in 1..(g.from - 1) : Recorded(k)
    /\ g.pc = "fetching" => g.to <= Len(chain)
    /\ g.pc = "snapshots" => Recorded(g.from)

Ingesters ==
  /\ ingester \in [deployment.ingesters -> States]
  /\ \A i \in deployment.ingesters : Working(i, ingester[i])

LedgerInv == ChainTypes /\ Ledger /\ Ingesters

CountInv == counted \in [Ids -> Nat] /\ SwapsCountedOnce

HolderInv == jobs \in [Heights -> JobRows] /\ held \in [deployment.workers -> Partial(Nat)]
-----------------------------------------------------------------------------
LEMMA PartialFacts ==
  ASSUME NEW T, NEW f
  PROVE  f \in Partial(T) <=> DOMAIN f \subseteq Heights /\ f \in [DOMAIN f -> T]
BY DEF Partial

LEMMA NothingYet == ASSUME NEW T PROVE <<>> \in Partial(T)
<1>1. DOMAIN <<>> = {} /\ <<>> \in [{} -> T]
  BY SMT
<1> QED BY <1>1, PartialFacts

LEMMA IdleState == Idle \in States /\ ~AtWork(Idle) /\ \A i : Working(i, Idle)
<1>1. <<>> \in Partial(Blocks)
  BY NothingYet
<1> QED BY <1>1 DEF Idle, States, AtWork, Working
-----------------------------------------------------------------------------
(* Swaps are counted once.                                                 *)

LEMMA CountInit == Init => CountInv
BY DEF Init, IngestInit, CountInv, SwapsCountedOnce

LEMMA CountStep ==
  ASSUME CountInv, [Next]_vars
  PROVE  CountInv'
<1>1. CASE UNCHANGED <<swaps, counted, queued>>
  BY <1>1 DEF CountInv, SwapsCountedOnce
<1>2. ASSUME NEW i \in deployment.ingesters, WriteBlock(i), ~UNCHANGED <<swaps, counted, queued>>
      PROVE  CountInv'
  <2> DEFINE got == [k \in {ingester[i].from} |-> ingester[i].got[k]]
  <2>1. swaps' = swaps \cup SwapsOf(got) /\ counted' = Counted(got) /\ queued' = queued
    BY <1>2 DEF WriteBlock, Record, Refuse, tables
  <2> HIDE DEF got
  <2> QED BY <2>1 DEF CountInv, SwapsCountedOnce, Counted
<1>3. ASSUME NEW i \in deployment.ingesters, WriteBatch(i), ~UNCHANGED <<swaps, counted, queued>>
      PROVE  CountInv'
  <2>1. /\ swaps' = swaps \cup SwapsOf(ingester[i].got)
        /\ queued' = queued \cup SwapsOf(ingester[i].got)
        /\ counted' = counted
    BY <1>3 DEF WriteBatch, Record, Refuse, tables
  <2> QED BY <2>1 DEF CountInv, SwapsCountedOnce
<1>4. CASE \E i \in deployment.ingesters : Ingest(i) \/ CrashIngester(i)
  BY <1>1, <1>2, <1>3, <1>4 DEF Ingest, Plan, Done, FetchBlock, WriteReserveSnapshots, CrashIngester, tables
<1>5. CASE Extend \/ \E d \in 1..MaxReorg : Reorganise(d)
  BY <1>1, <1>5 DEF Extend, Reorganise, tables
<1>6. CASE \E w \in deployment.workers :
             \/ \E batch \in SUBSET Heights : ClaimJobs(w, batch)
             \/ Work(w)
             \/ CrashWorker(w)
  BY <1>1, <1>6 DEF ClaimJobs, Work, Succeed, Fail, CrashWorker, ingestVars, tables
<1>7. CASE UNCHANGED vars
  BY <1>1, <1>7 DEF vars, ingestVars, tables
<1> QED BY <1>4, <1>5, <1>6, <1>7 DEF Next, IngestNext

(* A recorded swap reaches the candles once, whoever writes it how often.  *)
THEOREM CountedOnce == Spec => []SwapsCountedOnce
<1>1. CountInv => SwapsCountedOnce
  BY DEF CountInv
<1>2. CountInv /\ [Next]_vars => CountInv'
  BY CountStep
<1> QED BY <1>1, <1>2, CountInit, PTL DEF Spec
-----------------------------------------------------------------------------
(* The marks of the workers.                                               *)

Marked(h) ==
  /\ jobs[h].status \in {"succeeded", "failed"} => jobs'[h] = jobs[h]
  /\ (jobs[h].status = "leased" /\ jobs'[h].status \notin {"leased"})
       => \E w \in Holders(h) : h \notin DOMAIN held'[w]

LEMMA HolderInit == Init => HolderInv
<1> SUFFICES ASSUME Init PROVE HolderInv
  OBVIOUS
<1>1. NoJob \in JobRows
  BY DEF NoJob, JobRows
<1>2. <<>> \in Partial(Nat)
  BY NothingYet
<1> QED BY <1>1, <1>2 DEF Init, IngestInit, HolderInv

LEMMA DropKeeps ==
  ASSUME HolderInv, NEW w \in deployment.workers, NEW h
  PROVE  /\ Drop(w, h) \in [deployment.workers -> Partial(Nat)]
         /\ h \notin DOMAIN Drop(w, h)[w]
<1> DEFINE rest == [k \in DOMAIN held[w] \ {h} |-> held[w][k]]
<1>1. held[w] \in Partial(Nat)
  BY DEF HolderInv
<1>2. DOMAIN held[w] \subseteq Heights /\ held[w] \in [DOMAIN held[w] -> Nat]
  BY <1>1, PartialFacts
<1>3. DOMAIN rest = DOMAIN held[w] \ {h} /\ rest \in [DOMAIN rest -> Nat]
  BY <1>2
<1> HIDE DEF rest
<1>4. rest \in Partial(Nat)
  BY <1>2, <1>3, PartialFacts
<1>5. Drop(w, h) = [held EXCEPT ![w] = rest]
  BY DEF Drop, rest
<1> QED BY <1>3, <1>4, <1>5 DEF HolderInv

LEMMA MarkStep ==
  ASSUME HolderInv, NEW w \in deployment.workers, NEW h \in Heights, h \in DOMAIN held[w],
         NEW status \in {"succeeded", "failed", "pending"},
         Mark(w, h, status), held' = Drop(w, h), deployment' = deployment
  PROVE  HolderInv' /\ \A k \in Heights : Marked(k)
<1>1. held' \in [deployment.workers -> Partial(Nat)] /\ h \notin DOMAIN held'[w]
  BY DropKeeps
<1>2. CASE ~Owns(w, h)
  <2>1. jobs' = jobs
    BY <1>2 DEF Mark
  <2> QED BY <1>1, <2>1 DEF HolderInv, Marked
<1>3. CASE Owns(w, h)
  <2>1. jobs' = [jobs EXCEPT ![h].status = status] /\ jobs[h].status = "leased" /\ jobs[h].attempts = held[w][h]
    BY <1>3 DEF Mark, Owns
  <2>2. jobs' \in [Heights -> JobRows]
    BY <2>1 DEF HolderInv, JobRows
  <2>3. w \in Holders(h)
    BY <2>1 DEF Holders
  <2>4. ASSUME NEW k \in Heights PROVE Marked(k)
    <3>1. CASE k = h
      BY <1>1, <2>1, <2>3, <3>1 DEF Marked
    <3>2. CASE k # h
      BY <2>1, <3>2 DEF Marked, HolderInv
    <3> QED BY <3>1, <3>2
  <2> QED BY <1>1, <2>2, <2>4 DEF HolderInv
<1> QED BY <1>2, <1>3

(* Ingestion adds jobs only. *)
LEMMA EnqueueStep ==
  ASSUME HolderInv, NEW touched, jobs' = Enqueue(touched) \/ jobs' = jobs, UNCHANGED <<held, deployment>>
  PROVE  HolderInv' /\ \A k \in Heights : Marked(k)
<1>1. jobs' \in [Heights -> JobRows]
  BY DEF Enqueue, HolderInv, JobRows
<1>2. \A k \in Heights : jobs'[k] = jobs[k] \/ jobs[k] = NoJob
  BY DEF Enqueue
<1>3. \A k \in Heights : Marked(k)
  BY <1>2 DEF Marked, NoJob
<1> QED BY <1>1, <1>3 DEF HolderInv

LEMMA ClaimStep ==
  ASSUME HolderInv, NEW w \in deployment.workers, NEW batch \in SUBSET Heights, ClaimJobs(w, batch)
  PROVE  HolderInv' /\ \A k \in Heights : Marked(k)
<1>1. /\ jobs' = [h \in Heights |->
                    IF h \in batch THEN [status |-> "leased", attempts |-> jobs[h].attempts + 1] ELSE jobs[h]]
      /\ held' = [held EXCEPT ![w] = [h \in batch |-> jobs[h].attempts + 1]]
      /\ deployment' = deployment
      /\ \A h \in batch : jobs[h].status \in {"pending", "leased"}
  BY DEF ClaimJobs, node, Claimable
<1>2. \A h \in Heights : jobs[h].attempts + 1 \in Nat
  BY DEF HolderInv, JobRows
<1>3. jobs' \in [Heights -> JobRows]
  BY <1>1, <1>2 DEF HolderInv, JobRows
<1> DEFINE mine == [h \in batch |-> jobs[h].attempts + 1]
<1>4. DOMAIN mine = batch /\ mine \in [DOMAIN mine -> Nat]
  BY <1>2
<1> HIDE DEF mine
<1>5. mine \in Partial(Nat)
  BY <1>4, PartialFacts
<1>6. held' \in [deployment.workers -> Partial(Nat)]
  BY <1>1, <1>5 DEF HolderInv, mine
<1>7. \A k \in Heights : Marked(k)
  BY <1>1 DEF Marked
<1> QED BY <1>1, <1>3, <1>6, <1>7 DEF HolderInv

LEMMA HolderStep ==
  ASSUME HolderInv, [Next]_vars
  PROVE  HolderInv' /\ \A k \in Heights : Marked(k)
<1>1. ASSUME UNCHANGED <<jobs, held, deployment>>
      PROVE  HolderInv' /\ \A k \in Heights : Marked(k)
  BY <1>1 DEF HolderInv, Marked
<1>2. CASE \E i \in deployment.ingesters : WriteBlock(i) /\ UNCHANGED held
  <2>1. PICK i \in deployment.ingesters : WriteBlock(i) /\ UNCHANGED held
    BY <1>2
  <2>2. \E got : jobs' \in {jobs, Enqueue(TouchedBy(got))} /\ deployment' = deployment
    BY <2>1 DEF WriteBlock, Record, Refuse, tables, node
  <2> QED BY <2>1, <2>2, EnqueueStep
<1>3. CASE \E i \in deployment.ingesters : WriteBatch(i) /\ UNCHANGED held
  <2>1. PICK i \in deployment.ingesters : WriteBatch(i) /\ UNCHANGED held
    BY <1>3
  <2>2. \E got : jobs' \in {jobs, Enqueue(TouchedBy(got))} /\ deployment' = deployment
    BY <2>1 DEF WriteBatch, Record, Refuse, tables, node
  <2> QED BY <2>1, <2>2, EnqueueStep
<1>4. CASE IngestNext /\ UNCHANGED held
  BY <1>1, <1>2, <1>3, <1>4
  DEF IngestNext, Ingest, Plan, Done, FetchBlock, WriteReserveSnapshots, CrashIngester, Extend, Reorganise, tables, node
<1>5. CASE \E w \in deployment.workers, batch \in SUBSET Heights : ClaimJobs(w, batch)
  BY <1>5, ClaimStep
<1>6. CASE \E w \in deployment.workers : Work(w)
  <2>1. PICK w \in deployment.workers, h \in Heights :
               Succeed(w, h) \/ \E permanent \in BOOLEAN : Fail(w, h, permanent)
    BY <1>6 DEF Work
  <2>2. CASE Succeed(w, h)
    BY <2>2, MarkStep DEF Succeed, node
  <2>3. CASE \E permanent \in BOOLEAN : Fail(w, h, permanent)
    <3>1. PICK permanent \in BOOLEAN : Fail(w, h, permanent)
      BY <2>3
    <3>2. StatusAfterFailure(w, h, permanent) \in {"failed", "pending"}
      BY DEF StatusAfterFailure
    <3> QED BY <3>1, <3>2, MarkStep DEF Fail, node
  <2> QED BY <2>1, <2>2, <2>3
<1>7. CASE \E w \in deployment.workers : CrashWorker(w)
  <2>1. PICK w \in deployment.workers : CrashWorker(w)
    BY <1>7
  <2>2. held' = [held EXCEPT ![w] = <<>>] /\ UNCHANGED <<jobs, deployment>>
    BY <2>1 DEF CrashWorker, ingestVars, tables, node
  <2>3. <<>> \in Partial(Nat)
    BY NothingYet
  <2>4. HolderInv'
    BY <2>2, <2>3 DEF HolderInv
  <2> QED BY <2>2, <2>4 DEF Marked
<1>8. CASE UNCHANGED vars
  BY <1>1, <1>8 DEF vars, ingestVars, tables, node
<1> QED BY <1>4, <1>5, <1>6, <1>7, <1>8 DEF Next

(* A settled job stays settled, and a job that is leased is given back     *)
(* only by a worker that holds it at its latest attempt: what earlier      *)
(* holders decide is lost.                                                 *)
THEOREM MarksAreHolders == Spec => MarksOfHolderOnly
<1>1. HolderInv /\ [Next]_vars => HolderInv'
  BY HolderStep
<1>2. HolderInv /\ [Next]_vars =>
        [\A h \in Heights :
           /\ jobs[h].status \in {"succeeded", "failed"} => jobs'[h] = jobs[h]
           /\ (jobs[h].status = "leased" /\ jobs'[h].status \notin {"leased"})
                => \E w \in Holders(h) : h \notin DOMAIN held'[w]]_vars
  BY HolderStep DEF Marked
<1> QED BY <1>1, <1>2, HolderInit, PTL DEF Spec, MarksOfHolderOnly
-----------------------------------------------------------------------------
(* The ledger.                                                             *)

LEMMA BlockFacts ==
  ASSUME NEW b \in Blocks
  PROVE  b # NoBlock
BY IngestionAssumption DEF Blocks

LEMMA HeightFacts ==
  /\ MaxHeight \in Nat
  /\ \A h \in Heights : h \in Nat /\ 1..h \subseteq Heights /\ (h # 1 => h - 1 \in Heights)
BY IngestionAssumption DEF Heights

(* A run of blocks that fits what is recorded is recorded. *)
LEMMA RecordStep ==
  ASSUME Ledger, NEW i \in deployment.ingesters, NEW from \in Heights, NEW to \in Heights, from <= to,
         NEW got, DOMAIN got = from..to, got \in [from..to -> Blocks],
         \A k \in 1..(from - 1) : Recorded(k),
         \A h \in from..to : ~Differs(h, got[h]),
         Follows(from, got[from]), Contiguous(got),
         Record(i, got, to), deployment' = deployment
  PROVE  /\ Ledger'
         /\ \A h \in Heights : Recorded(h) => Recorded(h)'
         /\ \A h \in 1..to : Recorded(h)'
<1>0. /\ from..to \subseteq Heights /\ from \in Nat \ {0} /\ to \in Nat /\ to <= MaxHeight
      /\ \A h \in from..to : got[h] \in Blocks /\ got[h] # NoBlock
      /\ PoolHeight \in Nat \ {0}
  BY BlockFacts, IngestionAssumption DEF Heights
<1>11. \A k \in 1..(from - 1) : k \in Heights /\ Recorded(k)
  BY <1>0, HeightFacts DEF Heights
<1>1. /\ processed' = [h \in Heights |-> IF h \in from..to THEN got[h] ELSE processed[h]]
      /\ cursor' = to /\ known' = KnownWith(got) /\ swaps' = swaps \cup SwapsOf(got)
      /\ jobs' = IF i \in Inline THEN jobs ELSE Enqueue(TouchedBy(got))
  BY DEF Record
<1>2. \A h \in Heights : Recorded(h) => Recorded(h)' /\ processed'[h] = processed[h]
  <2> SUFFICES ASSUME NEW h \in Heights, Recorded(h) PROVE Recorded(h)' /\ processed'[h] = processed[h]
    OBVIOUS
  <2>1. CASE h \in from..to
    BY <1>1, <2>1 DEF Recorded, Differs
  <2>2. CASE h \notin from..to
    BY <1>1, <2>2 DEF Recorded
  <2> QED BY <2>1, <2>2
<1>3. \A h \in from..to : Recorded(h)' /\ processed'[h] = got[h]
  BY <1>0, <1>1 DEF Recorded
<1>4. \A h \in 1..to : Recorded(h)'
  <2> SUFFICES ASSUME NEW h \in 1..to PROVE Recorded(h)'
    OBVIOUS
  <2>1. CASE h \in 1..(from - 1)
    BY <1>2, <1>11, <2>1
  <2>2. CASE h \in from..to
    BY <1>3, <2>2
  <2> QED BY <1>0, <2>1, <2>2
<1>5. \A h \in Heights : Recorded(h)' => h \in from..to \/ Recorded(h)
  BY <1>1 DEF Recorded
<1>6. TableTypes'
  <2>1. processed' \in [Heights -> Blocks \cup {NoBlock}]
    BY <1>0, <1>1 DEF Ledger, TableTypes
  <2>2. cursor' \in 0..MaxHeight
    BY <1>0, <1>1
  <2>3. jobs' \in [Heights -> JobRows]
    BY <1>1 DEF Enqueue, Ledger, TableTypes, JobRows
  <2> QED BY <2>1, <2>2, <2>3 DEF TableTypes
<1>7. NoGap'
  <2> SUFFICES ASSUME NEW h \in Heights, Recorded(h)', NEW k \in 1..h PROVE Recorded(k)'
    BY DEF NoGap
  <2>1. CASE h \in from..to
    BY <1>0, <1>4, <2>1, HeightFacts
  <2>2. CASE Recorded(h)
    <3>1. Recorded(k) /\ k \in Heights
      BY <2>2, HeightFacts DEF Ledger, NoGap
    <3> QED BY <1>2, <3>1
  <2> QED BY <1>5, <2>1, <2>2
<1>8. Linked'
  <2> SUFFICES ASSUME NEW h \in Heights \ {1}, Recorded(h)', Recorded(h - 1)'
               PROVE  processed'[h].parent = processed'[h - 1].hash
    BY DEF Linked
  <2>0. h - 1 \in Heights /\ h \in Nat
    BY HeightFacts
  <2>1. CASE Recorded(h)
    <3>1. Recorded(h - 1)
      BY <2>0, <2>1 DEF Ledger, NoGap, Heights
    <3> QED BY <1>2, <2>0, <2>1, <3>1 DEF Ledger, Linked
  <2>2. CASE h \in from..to /\ h # from
    <3>1. h - 1 \in from..to
      BY <1>0, <2>0, <2>2
    <3>2. got[h].parent = got[h - 1].hash
      BY <2>2, <3>1 DEF Contiguous
    <3> QED BY <1>3, <2>2, <3>1, <3>2
  <2>3. CASE h = from
    <3>1. Recorded(h - 1)
      BY <1>0, <2>0, <2>3 DEF Heights
    <3>2. processed[h - 1].hash = got[h].parent
      BY <2>3, <3>1 DEF Follows, Recorded
    <3>3. processed'[h - 1] = processed[h - 1]
      BY <1>2, <2>0, <3>1
    <3>4. processed'[h] = got[h]
      BY <1>0, <1>3, <2>3
    <3> QED BY <3>2, <3>3, <3>4
  <2> QED BY <1>5, <2>1, <2>2, <2>3
<1>9. Whole'
  <2> SUFFICES ASSUME NEW h \in Heights, Recorded(h)', h >= PoolHeight
               PROVE  /\ known'
                      /\ <<h, processed'[h].hash>> \in swaps'
                      /\ deployment.ingesters \cap Inline = {} => jobs'[h] # NoJob
    BY DEF Whole
  <2>1. ASSUME deployment.ingesters \cap Inline = {}, jobs[h] # NoJob \/ h \in TouchedBy(got)
        PROVE  jobs'[h] # NoJob
    BY <1>1, <2>1 DEF Enqueue, NoJob
  <2>2. CASE Recorded(h)
    <3>1. /\ known /\ <<h, processed[h].hash>> \in swaps
          /\ deployment.ingesters \cap Inline = {} => jobs[h] # NoJob
      BY <2>2 DEF Ledger, Whole
    <3> QED BY <1>1, <1>2, <2>1, <2>2, <3>1 DEF KnownWith
  <2>3. CASE h \in from..to
    <3>1. KnownWith(got)
      <4>1. CASE PoolHeight \in from..to
        BY <4>1 DEF KnownWith
      <4>2. CASE PoolHeight \in 1..(from - 1)
        <5>1. PoolHeight \in Heights /\ Recorded(PoolHeight) /\ PoolHeight >= PoolHeight
          BY <1>0, <1>11, <4>2
        <5> QED BY <5>1 DEF Ledger, Whole, KnownWith
      <4> QED BY <1>0, <2>3, <4>1, <4>2, HeightFacts
    <3>2. <<h, got[h].hash>> \in SwapsOf(got)
      BY <2>3, <3>1 DEF SwapsOf
    <3>3. h \in TouchedBy(got)
      BY <3>2 DEF TouchedBy
    <3> QED BY <1>1, <1>3, <2>1, <2>3, <3>1, <3>2, <3>3
  <2> QED BY <1>5, <2>2, <2>3
<1>10. Ledger'
  BY <1>1, <1>4, <1>6, <1>7, <1>8, <1>9 DEF Ledger
<1> QED BY <1>2, <1>4, <1>10

LEMMA LedgerInit == Init => LedgerInv
<1> SUFFICES ASSUME Init PROVE LedgerInv
  OBVIOUS
<1>1. /\ chain = <<>> /\ cursor = 0
      /\ processed = [h \in Heights |-> NoBlock] /\ jobs = [h \in Heights |-> NoJob]
      /\ ingester = [i \in deployment.ingesters |-> Idle]
  BY DEF Init, IngestInit
<1>2. ChainTypes
  BY <1>1, EmptySeq, HeightFacts DEF ChainTypes
<1>3. \A h \in Heights : ~Recorded(h)
  BY <1>1 DEF Recorded
<1>4. TableTypes
  BY <1>1, HeightFacts DEF TableTypes, NoJob, JobRows
<1>5. Ledger
  BY <1>1, <1>3, <1>4 DEF Ledger, NoGap, Linked, Whole
<1>6. Ingesters
  BY <1>1, IdleState DEF Ingesters
<1> QED BY <1>2, <1>5, <1>6 DEF LedgerInv

(* While the chain and the ledger grow. *)
Grows ==
  /\ deployment' = deployment
  /\ Len(chain) \in Nat /\ Len(chain)' \in Nat /\ Len(chain) <= Len(chain)'
  /\ \A h \in Heights : Recorded(h) => Recorded(h)'

LEMMA WorkingKept ==
  ASSUME NEW i, NEW g \in States, Working(i, g), Grows
  PROVE  Working(i, g)'
<1> SUFFICES ASSUME AtWork(g)
             PROVE  /\ InRange(i, g)
                    /\ \A k \in 1..(g.from - 1) : Recorded(k)'
                    /\ g.pc = "fetching" => g.to <= Len(chain)'
                    /\ g.pc = "snapshots" => Recorded(g.from)'
  BY DEF Working
<1>1. InRange(i, g) /\ g.from \in Heights /\ g.to \in Nat
  BY HeightFacts DEF Working, InRange
<1>2. \A k \in 1..(g.from - 1) : k \in Heights /\ Recorded(k)
  BY <1>1, HeightFacts DEF Working, Heights
<1>3. g.pc = "fetching" => g.to <= Len(chain)
  BY DEF Working
<1>4. g.pc = "snapshots" => Recorded(g.from)
  BY DEF Working
<1> QED BY <1>1, <1>2, <1>3, <1>4 DEF Grows

LEMMA IngestersStay ==
  ASSUME Ingesters, Grows, ingester' = ingester
  PROVE  Ingesters'
<1>1. ASSUME NEW i \in deployment.ingesters PROVE Working(i, ingester[i])'
  <2>1. PICK f \in States : f = ingester[i]
    BY DEF Ingesters
  <2>2. Working(i, f)
    BY <2>1 DEF Ingesters
  <2>3. Working(i, f)'
    BY <2>2, WorkingKept
  <2> QED BY <2>1, <2>3 DEF Working
<1> QED BY <1>1 DEF Ingesters, Grows

LEMMA IngesterMoves ==
  ASSUME Ingesters, Grows, NEW j \in deployment.ingesters, NEW g \in States, Working(j, g)',
         ingester' = [ingester EXCEPT ![j] = g]
  PROVE  Ingesters'
<1>1. ingester' \in [deployment.ingesters -> States]
  BY DEF Ingesters
<1>2. ASSUME NEW i \in deployment.ingesters PROVE Working(i, ingester[i])'
  <2>1. CASE i = j
    <3>1. ingester'[i] = g
      BY <2>1 DEF Ingesters
    <3> QED BY <2>1, <3>1 DEF Working
  <2>2. CASE i # j
    <3>1. PICK f \in States : f = ingester[i]
      BY DEF Ingesters
    <3>2. Working(i, f)
      BY <3>1 DEF Ingesters
    <3>3. Working(i, f)'
      BY <3>2, WorkingKept
    <3>4. ingester'[i] = f
      BY <2>2, <3>1 DEF Ingesters
    <3> QED BY <3>3, <3>4 DEF Working
  <2> QED BY <2>1, <2>2
<1> QED BY <1>1, <1>2 DEF Ingesters, Grows

LEMMA LedgerStays ==
  ASSUME Ledger, UNCHANGED <<deployment, processed, cursor, known, swaps>>,
         jobs' \in [Heights -> JobRows], \A h \in Heights : jobs[h] # NoJob => jobs'[h] # NoJob
  PROVE  Ledger' /\ \A h \in Heights : Recorded(h) => Recorded(h)'
<1>1. \A h : Recorded(h) <=> Recorded(h)'
  BY DEF Recorded
<1>2. TableTypes'
  BY DEF Ledger, TableTypes
<1>3. NoGap' /\ Linked'
  BY <1>1 DEF Ledger, NoGap, Linked
<1>4. Whole'
  BY <1>1 DEF Ledger, Whole
<1>5. \A h \in 1..cursor' : Recorded(h)'
  BY <1>1 DEF Ledger
<1> QED BY <1>1, <1>2, <1>3, <1>4, <1>5 DEF Ledger

(* An ingester that gives up, is done or starts again. *)
LEMMA RestStep ==
  ASSUME LedgerInv, NEW i \in deployment.ingesters, NEW g \in States, ~AtWork(g),
         ingester' = [ingester EXCEPT ![i] = g],
         UNCHANGED <<chain, deployment, processed, cursor, known, swaps, jobs>>
  PROVE  LedgerInv'
<1>1. Ledger' /\ \A h \in Heights : Recorded(h) => Recorded(h)'
  BY LedgerStays DEF LedgerInv, Ledger, TableTypes
<1>2. Grows
  BY <1>1, LenProperties DEF Grows, LedgerInv, ChainTypes
<1>3. Ingesters'
  BY <1>2, IngesterMoves DEF Working, LedgerInv
<1> QED BY <1>1, <1>3 DEF LedgerInv, ChainTypes

LEMMA PlanStep ==
  ASSUME LedgerInv, NEW i \in deployment.ingesters, Plan(i)
  PROVE  LedgerInv'
<1>1. /\ LastOf(i, cursor) >= cursor + 1
      /\ ingester' = [ingester EXCEPT ![i] = [pc |-> "fetching", from |-> cursor + 1, to |-> LastOf(i, cursor), got |-> <<>>]]
      /\ UNCHANGED <<chain, deployment, processed, cursor, known, swaps, jobs>>
  BY DEF Plan, FirstOf, tables, node
<1>2. Ledger' /\ \A h \in Heights : Recorded(h) => Recorded(h)'
  BY <1>1, LedgerStays DEF LedgerInv, Ledger, TableTypes
<1>3. Grows
  BY <1>1, <1>2, LenProperties DEF Grows, LedgerInv, ChainTypes
<1>4. PICK g : g = [pc |-> "fetching", from |-> cursor + 1, to |-> LastOf(i, cursor), got |-> <<>>]
  OBVIOUS
<1>5. LastOf(i, cursor) \in Nat /\ LastOf(i, cursor) <= Len(chain)
  <2>1. Len(chain) \in Nat /\ cursor \in Nat /\ Cap(i) \in Nat /\ IngestBatch \in Nat /\ Depth \in Nat
    BY LenProperties, IngestionAssumption DEF LedgerInv, ChainTypes, Ledger, TableTypes, Cap
  <2>2. Target \in Nat /\ Target <= Len(chain)
    BY <2>1 DEF Target
  <2> QED BY <2>1, <2>2 DEF LastOf, Lowest
<1>6. g \in States
  BY <1>4, <1>5, NothingYet DEF States, LedgerInv, Ledger, TableTypes
<1>7. InRange(i, g)
  <2>1. Len(chain) <= MaxHeight /\ cursor \in Nat /\ MaxHeight \in Nat /\ Len(chain) \in Nat
    BY HeightFacts, LenProperties DEF LedgerInv, ChainTypes, Ledger, TableTypes
  <2>2. g.from = cursor + 1 /\ g.to = LastOf(i, cursor) /\ g.pc = "fetching" /\ DOMAIN g.got = {}
    BY <1>4
  <2> QED BY <1>1, <1>5, <2>1, <2>2 DEF InRange, Heights
<1>8. Working(i, g)'
  <2>1. g.from - 1 = cursor
    BY <1>4 DEF LedgerInv, Ledger, TableTypes
  <2>2. \A k \in 1..(g.from - 1) : Recorded(k)'
    BY <1>1, <2>1 DEF LedgerInv, Ledger, Recorded
  <2> QED BY <1>1, <1>4, <1>5, <1>7, <2>2 DEF Working
<1>9. Ingesters'
  BY <1>1, <1>3, <1>4, <1>6, <1>8, IngesterMoves DEF LedgerInv
<1> QED BY <1>1, <1>2, <1>9 DEF LedgerInv, ChainTypes

LEMMA FetchStep ==
  ASSUME LedgerInv, NEW i \in deployment.ingesters, NEW h \in Heights, FetchBlock(i, h)
  PROVE  LedgerInv'
<1> DEFINE old == ingester[i]
           more == [k \in DOMAIN old.got \cup {h} |-> IF k = h THEN chain[h] ELSE old.got[k]]
           next == IF DOMAIN more = Wanted(i) THEN "writing" ELSE "fetching"
<1>1. /\ old.pc = "fetching" /\ h \in old.from..old.to /\ Wanted(i) = old.from..old.to
      /\ ingester' = [ingester EXCEPT ![i].got = more, ![i].pc = next]
      /\ UNCHANGED <<chain, deployment, processed, cursor, known, swaps, jobs>>
  BY DEF FetchBlock, Wanted, tables, node
<1>2. Ledger' /\ \A k \in Heights : Recorded(k) => Recorded(k)'
  BY <1>1, LedgerStays DEF LedgerInv, Ledger, TableTypes
<1>3. Grows
  BY <1>1, <1>2, LenProperties DEF Grows, LedgerInv, ChainTypes
<1>4. old \in States /\ Working(i, old) /\ AtWork(old)
  BY <1>1 DEF LedgerInv, Ingesters, AtWork
<1>5. InRange(i, old) /\ old.to <= Len(chain) /\ \A k \in 1..(old.from - 1) : Recorded(k)
  BY <1>1, <1>4 DEF Working
<1>6. chain[h] \in Blocks
  <2>1. h \in 1..Len(chain)
    BY <1>1, <1>5, LenProperties, HeightFacts DEF InRange, Heights, LedgerInv, ChainTypes
  <2> QED BY <2>1, ElementOfSeq DEF LedgerInv, ChainTypes
<1>7. more \in Partial(Blocks) /\ DOMAIN more \subseteq old.from..old.to
  <2>1. DOMAIN old.got \subseteq Heights /\ old.got \in [DOMAIN old.got -> Blocks]
    <3>1. old.got \in Partial(Blocks)
      BY <1>4 DEF States
    <3> HIDE DEF old
    <3> QED BY <3>1, PartialFacts
  <2>2. DOMAIN more = DOMAIN old.got \cup {h} /\ more \in [DOMAIN more -> Blocks]
    BY <1>6, <2>1
  <2>3. DOMAIN old.got \subseteq old.from..old.to
    BY <1>1, <1>5 DEF InRange
  <2> HIDE DEF more, old
  <2> QED BY <1>1, <2>1, <2>2, <2>3, PartialFacts
<1>8. PICK g : g = [old EXCEPT !.got = more, !.pc = next]
  OBVIOUS
<1> HIDE DEF more
<1>9. g \in States /\ g.from = old.from /\ g.to = old.to /\ g.got = more /\ g.pc = next
  BY <1>4, <1>7, <1>8 DEF States
<1>10. Working(i, g)'
  <2>1. InRange(i, g)
    BY <1>1, <1>5, <1>7, <1>9 DEF InRange
  <2>2. \A k \in 1..(g.from - 1) : Recorded(k)'
    BY <1>1, <1>5, <1>9 DEF Recorded
  <2> QED BY <1>1, <1>5, <1>9, <2>1, <2>2 DEF Working
<1>11. ingester' = [ingester EXCEPT ![i] = g]
  BY <1>1, <1>8 DEF LedgerInv, Ingesters
<1>12. Ingesters'
  BY <1>3, <1>9, <1>10, <1>11, IngesterMoves DEF LedgerInv
<1> QED BY <1>1, <1>2, <1>12 DEF LedgerInv, ChainTypes

(* After a commit through a height of the range. *)
LEMMA WrittenStep ==
  ASSUME LedgerInv, Ledger', NEW i \in deployment.ingesters, NEW through,
         through \in ingester[i].from..ingester[i].to, i \in Bulk => through = ingester[i].to,
         ingester[i].pc = "writing", ingester' = Written(i, through),
         \A h \in Heights : Recorded(h) => Recorded(h)',
         \A h \in 1..through : Recorded(h)',
         UNCHANGED <<chain, deployment>>
  PROVE  LedgerInv'
<1> DEFINE old == ingester[i]
<1>1. Grows
  BY LenProperties DEF Grows, LedgerInv, ChainTypes
<1>2. old \in States /\ InRange(i, old)
  BY DEF LedgerInv, Ingesters, Working, AtWork
<1>3. through \in Heights /\ through \in Nat /\ old.from \in Nat /\ old.to \in Nat /\ old.from <= through /\ through <= old.to
  BY <1>2, HeightFacts DEF InRange, Heights
<1>4. PICK g : g = IF i \in Inline THEN [old EXCEPT !.pc = "snapshots", !.from = through]
                   ELSE IF through < old.to THEN [old EXCEPT !.from = through + 1]
                   ELSE Idle
  OBVIOUS
<1>5. ingester' = [ingester EXCEPT ![i] = g]
  BY <1>4 DEF Written, LedgerInv, Ingesters
<1>6. CASE i \in Inline
  <2>1. g \in States /\ g.pc = "snapshots" /\ g.from = through /\ g.to = old.to /\ g.got = old.got
    BY <1>2, <1>3, <1>4, <1>6 DEF States
  <2>2. InRange(i, g)
    BY <1>2, <1>3, <2>1 DEF InRange
  <2>5. through \in 1..through /\ \A k \in 1..(through - 1) : k \in 1..through
    BY <1>3 DEF Heights
  <2>3. Working(i, g)'
    BY <2>1, <2>2, <2>5 DEF Working
  <2>4. Ingesters'
    BY <1>1, <1>5, <2>1, <2>3, IngesterMoves DEF LedgerInv
  <2> QED BY <2>4 DEF LedgerInv, ChainTypes
<1>7. CASE i \notin Inline /\ through < old.to
  <2>1. g \in States /\ g.pc = "writing" /\ g.from = through + 1 /\ g.to = old.to /\ g.got = old.got
    BY <1>2, <1>3, <1>4, <1>7 DEF States
  <2>2. InRange(i, g)
    <3>1. g.from \in Heights /\ g.from <= g.to /\ i \notin Bulk
      BY <1>2, <1>3, <1>7, <2>1, HeightFacts DEF InRange, Heights
    <3> QED BY <1>2, <1>3, <2>1, <3>1 DEF InRange
  <2>3. Working(i, g)'
    BY <1>3, <2>1, <2>2 DEF Working
  <2>4. Ingesters'
    BY <1>1, <1>5, <2>1, <2>3, IngesterMoves DEF LedgerInv
  <2> QED BY <2>4 DEF LedgerInv, ChainTypes
<1>8. CASE i \notin Inline /\ ~(through < old.to)
  <2>1. g \in States /\ Working(i, g)'
    BY <1>4, <1>8, IdleState DEF Working
  <2>2. Ingesters'
    BY <1>1, <1>5, <2>1, IngesterMoves DEF LedgerInv
  <2> QED BY <2>2 DEF LedgerInv, ChainTypes
<1> QED BY <1>6, <1>7, <1>8

LEMMA WriteBlockStep ==
  ASSUME LedgerInv, NEW i \in deployment.ingesters, WriteBlock(i)
  PROVE  LedgerInv'
<1> DEFINE h == ingester[i].from
           got == [k \in {h} |-> ingester[i].got[k]]
<1>1. ingester[i].pc = "writing" /\ i \notin Bulk
  BY DEF WriteBlock
<1>2. CASE Accepts(h, got[h])
  <2>1. /\ Record(i, got, h) /\ ingester' = Written(i, h) /\ UNCHANGED <<chain, deployment>>
    BY <1>2 DEF WriteBlock, node
  <2>2. ingester[i] \in States /\ Working(i, ingester[i]) /\ InRange(i, ingester[i])
    BY <1>1 DEF LedgerInv, Ingesters, Working, AtWork
  <2>3. /\ h \in Heights /\ h \in ingester[i].from..ingester[i].to /\ h..h = {h}
        /\ \A k \in 1..(h - 1) : Recorded(k)
    BY <1>1, <2>2, HeightFacts DEF InRange, Working, AtWork
  <2>4. ingester[i].got[h] \in Blocks
    <3>1. h \in DOMAIN ingester[i].got
      BY <1>1, <2>2, <2>3 DEF InRange
    <3>2. ingester[i].got \in Partial(Blocks)
      BY <2>2 DEF States
    <3>3. ingester[i].got \in [DOMAIN ingester[i].got -> Blocks]
      BY <3>2, PartialFacts
    <3> QED BY <3>1, <3>3
  <2>5. DOMAIN got = h..h /\ got \in [h..h -> Blocks] /\ got[h] = ingester[i].got[h]
    BY <2>3, <2>4
  <2>6. PICK f : f = got
    OBVIOUS
  <2>7. PICK n : n = h
    OBVIOUS
  <2>8. DOMAIN f = n..n /\ f \in [n..n -> Blocks] /\ n \in Heights /\ n <= n /\ n..n = {n}
    BY <2>3, <2>5, <2>6, <2>7, HeightFacts
  <2>9. Contiguous(f)
    BY <2>8, HeightFacts DEF Contiguous
  <2>10. /\ \A k \in 1..(n - 1) : Recorded(k)
         /\ Follows(n, f[n]) /\ Record(i, f, n)
         /\ \A k \in n..n : ~Differs(k, f[k])
    BY <1>2, <2>1, <2>3, <2>6, <2>7, <2>8 DEF Accepts
  <2> HIDE DEF h, got
  <2>11. Ledger /\ deployment' = deployment
    BY <2>1 DEF LedgerInv
  <2>12. Ledger' /\ (\A k \in Heights : Recorded(k) => Recorded(k)') /\ \A k \in 1..n : Recorded(k)'
    BY <2>8, <2>9, <2>10, <2>11, RecordStep
  <2>13. n \in ingester[i].from..ingester[i].to /\ ingester' = Written(i, n)
    BY <2>1, <2>3, <2>7
  <2> QED BY <1>1, <2>1, <2>12, <2>13, WrittenStep
<1>3. CASE ~Accepts(h, got[h])
  <2>1. ingester' = [ingester EXCEPT ![i] = Idle] /\ UNCHANGED <<chain, deployment, processed, cursor, known, swaps, jobs>>
    BY <1>3 DEF WriteBlock, Refuse, node, tables
  <2> QED BY <2>1, IdleState, RestStep
<1> QED BY <1>2, <1>3

LEMMA WriteBatchStep ==
  ASSUME LedgerInv, NEW i \in deployment.ingesters, WriteBatch(i)
  PROVE  LedgerInv'
<1> DEFINE old == ingester[i]
<1>1. old.pc = "writing" /\ i \in Bulk
  BY DEF WriteBatch
<1>2. CASE AcceptsBatch(old.got, old.from)
  <2>1. Record(i, old.got, old.to) /\ ingester' = Written(i, old.to) /\ UNCHANGED <<chain, deployment>>
    BY <1>2 DEF WriteBatch, node
  <2>2. old \in States /\ Working(i, old) /\ InRange(i, old)
    BY <1>1 DEF LedgerInv, Ingesters, Working, AtWork
  <2>3. PICK f : f = old.got
    OBVIOUS
  <2>4. PICK n : n = old.from
    OBVIOUS
  <2>5. PICK m : m = old.to
    OBVIOUS
  <2>6. n \in Heights /\ m \in Heights /\ n <= m /\ DOMAIN f = n..m
    BY <1>1, <2>2, <2>3, <2>4, <2>5 DEF InRange
  <2>7. f \in [n..m -> Blocks]
    <3>1. f \in Partial(Blocks)
      BY <2>2, <2>3 DEF States
    <3> QED BY <2>6, <3>1, PartialFacts
  <2>8. n \in n..m /\ m \in n..m
    BY <2>6, HeightFacts
  <2>9. /\ \A k \in 1..(n - 1) : Recorded(k)
        /\ Record(i, f, m) /\ Contiguous(f) /\ Follows(n, f[n])
        /\ \A k \in n..m : ~Differs(k, f[k])
    BY <1>1, <1>2, <2>1, <2>2, <2>3, <2>4, <2>5, <2>6, <2>8 DEF AcceptsBatch, Working, AtWork
  <2>10. Ledger /\ deployment' = deployment
    BY <2>1 DEF LedgerInv
  <2> HIDE DEF old
  <2>11. Ledger' /\ (\A k \in Heights : Recorded(k) => Recorded(k)') /\ \A k \in 1..m : Recorded(k)'
    BY <2>6, <2>7, <2>9, <2>10, RecordStep
  <2>12. m \in ingester[i].from..ingester[i].to /\ m = ingester[i].to /\ ingester' = Written(i, m)
    BY <2>1, <2>4, <2>5, <2>8 DEF old
  <2>13. ingester[i].pc = "writing"
    BY <1>1 DEF old
  <2> QED BY <2>1, <2>11, <2>12, <2>13, WrittenStep
<1>3. CASE ~AcceptsBatch(old.got, old.from)
  <2>1. ingester' = [ingester EXCEPT ![i] = Idle] /\ UNCHANGED <<chain, deployment, processed, cursor, known, swaps, jobs>>
    BY <1>3 DEF WriteBatch, Refuse, node, tables
  <2> QED BY <2>1, IdleState, RestStep
<1> QED BY <1>2, <1>3

LEMMA SnapshotsStep ==
  ASSUME LedgerInv, NEW i \in deployment.ingesters, NEW ok, WriteReserveSnapshots(i, ok)
  PROVE  LedgerInv'
<1> DEFINE old == ingester[i]
<1>1. old.pc = "snapshots" /\ UNCHANGED <<chain, deployment, processed, cursor, known, swaps, jobs>>
  BY DEF WriteReserveSnapshots, node
<1>2. old \in States /\ Working(i, old) /\ InRange(i, old)
  BY <1>1 DEF LedgerInv, Ingesters, Working, AtWork
<1>3. CASE old.from < old.to
  <2>1. ingester' = [ingester EXCEPT ![i].pc = "writing", ![i].from = old.from + 1]
    BY <1>3 DEF WriteReserveSnapshots
  <2>2. PICK g : g = [old EXCEPT !.pc = "writing", !.from = old.from + 1]
    OBVIOUS
  <2>3. /\ g \in States /\ g.pc = "writing" /\ g.from = old.from + 1 /\ g.to = old.to /\ g.got = old.got
    <3>1. old.from + 1 \in Nat
      BY <1>2 DEF States
    <3> QED BY <1>2, <2>2, <3>1 DEF States
  <2>4. ingester' = [ingester EXCEPT ![i] = g]
    BY <2>1, <2>2 DEF LedgerInv, Ingesters
  <2>5. i \notin Bulk
    BY <1>1, <1>2, <1>3, HeightFacts DEF InRange
  <2>6. InRange(i, g)
    <3>1. old.from \in Heights /\ old.to \in Heights /\ old.from..old.to \subseteq DOMAIN old.got
      BY <1>1, <1>2 DEF InRange
    <3>2. old.from + 1 \in Heights /\ old.from + 1 <= old.to
      BY <1>3, <3>1, HeightFacts DEF Heights
    <3>3. (old.from + 1)..old.to \subseteq old.from..old.to
      <4>1. old.from \in Nat /\ old.to \in Nat
        BY <1>2 DEF States
      <4> HIDE DEF old
      <4> QED BY <4>1
    <3> QED BY <2>3, <2>5, <3>1, <3>2, <3>3 DEF InRange
  <2>7. \A k \in 1..(g.from - 1) : Recorded(k)'
    <3>1. \A k : Recorded(k) => Recorded(k)'
      BY <1>1 DEF Recorded
    <3>2. \A k \in 1..(old.from - 1) : Recorded(k)
      BY <1>1, <1>2 DEF Working, AtWork
    <3>3. Recorded(old.from)
      BY <1>1, <1>2 DEF Working, AtWork
    <3>4. old.from \in Nat /\ g.from - 1 = old.from
      BY <1>2, <2>3, HeightFacts DEF InRange
    <3>5. ASSUME NEW k \in 1..(g.from - 1) PROVE k \in 1..(old.from - 1) \/ k = old.from
      BY <3>4
    <3> QED BY <3>1, <3>2, <3>3, <3>5
  <2>8. Working(i, g)'
    BY <2>3, <2>6, <2>7 DEF Working
  <2>9. Ledger' /\ \A h \in Heights : Recorded(h) => Recorded(h)'
    BY <1>1, LedgerStays DEF LedgerInv, Ledger, TableTypes
  <2>10. Grows
    BY <1>1, <2>9, LenProperties DEF Grows, LedgerInv, ChainTypes
  <2>11. Ingesters'
    BY <2>3, <2>4, <2>8, <2>10, IngesterMoves DEF LedgerInv
  <2> QED BY <1>1, <2>9, <2>11 DEF LedgerInv, ChainTypes
<1>4. CASE ~(old.from < old.to)
  <2>1. ingester' = [ingester EXCEPT ![i] = Idle]
    BY <1>4 DEF WriteReserveSnapshots
  <2> QED BY <1>1, <2>1, IdleState, RestStep
<1> QED BY <1>3, <1>4

(* The chain grows, or replaces blocks by as many. *)
LEMMA ChainStep ==
  ASSUME LedgerInv, Extend \/ \E d \in 1..MaxReorg : Reorganise(d)
  PROVE  LedgerInv'
<1>1. UNCHANGED <<deployment, processed, cursor, known, swaps, jobs, ingester>>
  BY DEF Extend, Reorganise, tables
<1>2. Ledger' /\ \A h \in Heights : Recorded(h) => Recorded(h)'
  BY <1>1, LedgerStays DEF LedgerInv, Ledger, TableTypes
<1>3. chain \in Seq(Blocks) /\ Len(chain) \in Nat /\ Len(chain) <= MaxHeight /\ MaxHeight \in Nat
  BY LenProperties, HeightFacts DEF LedgerInv, ChainTypes
<1>4. ChainTypes' /\ Len(chain)' \in Nat /\ Len(chain) <= Len(chain)'
  <2>1. CASE Extend
    <3>1. Tip \in 0..1
      <4>1. CASE chain = <<>>
        BY <4>1 DEF Tip
      <4>2. CASE chain # <<>>
        <5>1. Len(chain) \in 1..Len(chain)
          BY <1>3, <4>2, EmptySeq
        <5>2. chain[Len(chain)] \in Blocks
          BY <1>3, <5>1, ElementOfSeq
        <5> QED BY <4>2, <5>2 DEF Tip, Blocks
      <4> QED BY <4>1, <4>2
    <3>2. [hash |-> Tip, parent |-> Tip] \in Blocks
      BY <3>1 DEF Blocks
    <3>3. chain' = Append(chain, [hash |-> Tip, parent |-> Tip]) /\ Len(chain) < MaxHeight
      BY <2>1 DEF Extend
    <3>4. chain' \in Seq(Blocks) /\ Len(chain') = Len(chain) + 1
      BY <1>3, <3>2, <3>3, AppendProperties
    <3> QED BY <1>3, <3>3, <3>4 DEF ChainTypes
  <2>2. CASE \E d \in 1..MaxReorg : Reorganise(d)
    <3>1. PICK d \in 1..MaxReorg : Reorganise(d)
      BY <2>2
    <3> DEFINE new == [h \in DOMAIN chain |->
                 IF h <= Len(chain) - d THEN chain[h]
                 ELSE [hash |-> 1, parent |-> IF h = Len(chain) - d + 1 THEN 0 ELSE 1]]
    <3>2. chain' = new
      BY <3>1 DEF Reorganise
    <3>3. DOMAIN chain = 1..Len(chain) /\ \A h \in 1..Len(chain) : chain[h] \in Blocks
      BY <1>3, LenProperties, ElementOfSeq
    <3>4. \A h \in 1..Len(chain) : new[h] \in Blocks
      BY <3>3 DEF Blocks
    <3>5. new \in [1..Len(chain) -> Blocks]
      BY <3>3, <3>4
    <3> HIDE DEF new
    <3>6. new \in Seq(Blocks) /\ Len(new) = Len(chain)
      BY <1>3, <3>5, IsASeq, LenProperties
    <3> QED BY <1>3, <3>2, <3>6 DEF ChainTypes
  <2> QED BY <2>1, <2>2
<1>5. Grows
  BY <1>1, <1>2, <1>3, <1>4 DEF Grows
<1>6. Ingesters'
  BY <1>1, <1>5, IngestersStay DEF LedgerInv
<1> QED BY <1>2, <1>4, <1>6 DEF LedgerInv

(* What the workers do to the jobs does not undo that they are there. *)
LEMMA JobsStep ==
  ASSUME LedgerInv, UNCHANGED <<chain, deployment, processed, cursor, known, swaps, ingester>>,
         jobs' \in [Heights -> JobRows],
         \A h \in Heights : jobs[h] # NoJob => jobs'[h] # NoJob
  PROVE  LedgerInv'
<1>1. Ledger' /\ \A h \in Heights : Recorded(h) => Recorded(h)'
  BY LedgerStays DEF LedgerInv
<1>2. Grows
  BY <1>1, LenProperties DEF Grows, LedgerInv, ChainTypes
<1>3. Ingesters'
  BY <1>2, IngestersStay DEF LedgerInv
<1> QED BY <1>1, <1>3 DEF LedgerInv, ChainTypes

LEMMA MarkKeepsJobs ==
  ASSUME LedgerInv, NEW w, NEW h \in Heights, NEW status \in {"succeeded", "failed", "pending"}, Mark(w, h, status)
  PROVE  jobs' \in [Heights -> JobRows] /\ \A k \in Heights : jobs[k] # NoJob => jobs'[k] # NoJob
<1>1. jobs \in [Heights -> JobRows]
  BY DEF LedgerInv, Ledger, TableTypes
<1>2. CASE jobs' = jobs
  BY <1>1, <1>2
<1>3. CASE jobs' = [jobs EXCEPT ![h].status = status]
  <2>1. jobs' \in [Heights -> JobRows]
    BY <1>1, <1>3 DEF JobRows
  <2>2. jobs'[h].status = status /\ \A k \in Heights : k # h => jobs'[k] = jobs[k]
    BY <1>1, <1>3 DEF JobRows
  <2>3. jobs'[h] # NoJob
    BY <2>2 DEF NoJob
  <2> QED BY <2>1, <2>2, <2>3
<1> QED BY <1>2, <1>3 DEF Mark

LEMMA LedgerStep ==
  ASSUME LedgerInv, [Next]_vars
  PROVE  LedgerInv'
<1>1. ASSUME NEW i \in deployment.ingesters, Ingest(i) PROVE LedgerInv'
  <2>1. CASE Plan(i)
    BY <2>1, PlanStep
  <2>2. CASE Done(i)
    <3>1. PICK g : g = [ingester[i] EXCEPT !.pc = "done"]
      OBVIOUS
    <3>2. ingester[i] \in States
      BY DEF LedgerInv, Ingesters
    <3>3. g \in States /\ ~AtWork(g)
      BY <3>1, <3>2 DEF States, AtWork
    <3>4. /\ ingester' = [ingester EXCEPT ![i] = g]
          /\ UNCHANGED <<chain, deployment, processed, cursor, known, swaps, jobs>>
      BY <2>2, <3>1 DEF Done, node, tables, LedgerInv, Ingesters
    <3> QED BY <3>3, <3>4, RestStep
  <2>3. CASE WriteBlock(i)
    BY <2>3, WriteBlockStep
  <2>4. CASE WriteBatch(i)
    BY <2>4, WriteBatchStep
  <2>5. CASE \E h \in Heights : FetchBlock(i, h)
    BY <2>5, FetchStep
  <2>6. CASE \E ok \in BOOLEAN : WriteReserveSnapshots(i, ok)
    BY <2>6, SnapshotsStep
  <2> QED BY <1>1, <2>1, <2>2, <2>3, <2>4, <2>5, <2>6 DEF Ingest
<1>2. ASSUME NEW i \in deployment.ingesters, CrashIngester(i) PROVE LedgerInv'
  <2>1. /\ ingester' = [ingester EXCEPT ![i] = Idle]
        /\ UNCHANGED <<chain, deployment, processed, cursor, known, swaps, jobs>>
    BY <1>2 DEF CrashIngester, node, tables
  <2> QED BY <2>1, IdleState, RestStep
<1>3. CASE IngestNext
  BY <1>1, <1>2, <1>3, ChainStep DEF IngestNext
<1>4. ASSUME NEW w \in deployment.workers, NEW batch \in SUBSET Heights, ClaimJobs(w, batch) PROVE LedgerInv'
  <2>1. jobs' = [h \in Heights |->
                    IF h \in batch THEN [status |-> "leased", attempts |-> jobs[h].attempts + 1] ELSE jobs[h]]
    BY <1>4 DEF ClaimJobs
  <2>2. jobs' \in [Heights -> JobRows]
    BY <2>1 DEF LedgerInv, Ledger, TableTypes, JobRows
  <2>3. \A h \in Heights : jobs[h] # NoJob => jobs'[h] # NoJob
    BY <2>1 DEF NoJob
  <2> QED BY <1>4, <2>2, <2>3, JobsStep DEF ClaimJobs, node
<1>5. ASSUME NEW w \in deployment.workers, Work(w) PROVE LedgerInv'
  <2>1. PICK h \in Heights : Succeed(w, h) \/ \E permanent \in BOOLEAN : Fail(w, h, permanent)
    BY <1>5 DEF Work
  <2>2. CASE Succeed(w, h)
    BY <2>2, MarkKeepsJobs, JobsStep DEF Succeed, node
  <2>3. CASE \E permanent \in BOOLEAN : Fail(w, h, permanent)
    <3>1. PICK permanent \in BOOLEAN : Fail(w, h, permanent)
      BY <2>3
    <3>2. StatusAfterFailure(w, h, permanent) \in {"failed", "pending"}
      BY DEF StatusAfterFailure
    <3> QED BY <3>1, <3>2, MarkKeepsJobs, JobsStep DEF Fail, node
  <2> QED BY <2>1, <2>2, <2>3
<1>6. CASE UNCHANGED <<chain, deployment, processed, cursor, known, swaps, jobs, ingester>>
  <2>1. jobs' \in [Heights -> JobRows]
    BY <1>6 DEF LedgerInv, Ledger, TableTypes
  <2> QED BY <1>6, <2>1, JobsStep
<1>7. CASE \E w \in deployment.workers : CrashWorker(w)
  BY <1>6, <1>7 DEF CrashWorker, ingestVars, tables, node
<1>8. CASE UNCHANGED vars
  BY <1>6, <1>8 DEF vars, ingestVars, tables, node
<1> QED BY <1>3, <1>4, <1>5, <1>7, <1>8 DEF Next

(* Whatever the node shows while ranges are fetched and whichever process  *)
(* crashes, the ledger is one chain without gaps, complete up to the       *)
(* cursor.                                                                 *)
THEOREM LedgerStaysWhole == Spec => []LedgerWhole
<1>1. LedgerInv => LedgerWhole
  <2> SUFFICES ASSUME LedgerInv PROVE LedgerWhole
    OBVIOUS
  <2>1. \A h \in 1..cursor : h \in Heights /\ Recorded(h)
    BY HeightFacts DEF LedgerInv, Ledger, TableTypes, Heights
  <2> QED BY <2>1 DEF LedgerWhole, LedgerInv, Ledger, Linked, Whole, Recorded
<1>2. LedgerInv /\ [Next]_vars => LedgerInv'
  BY LedgerStep
<1> QED BY <1>1, <1>2, LedgerInit, PTL DEF Spec
=============================================================================
