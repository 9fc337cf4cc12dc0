------------------------------ MODULE Ingestion ------------------------------
(***************************************************************************)
(* The ingestion of blocks by the indexer (indexer/src/indexer.ts,         *)
(* ranges.ts, block-fetcher.ts, db.ts).  An ingester reads the head and    *)
(* the cursor, fetches the confirmed blocks after the cursor in any order, *)
(* and writes them: block by block, each in a transaction of its own, or   *)
(* as one batch in one transaction.  Several ingesters may share a         *)
(* database and its cursor, as the poller and a bounded backfill do.       *)
(*                                                                         *)
(* A transaction is one action: two that write one height wait for each    *)
(* other at the primary key of processed_blocks.                           *)
(*                                                                         *)
(* The chain has one fork at most: a block is known by its height and      *)
(* fork.  One pair is followed: it is created in block PoolHeight and has  *)
(* a swap in that block and in every later one.                            *)
(***************************************************************************)
EXTENDS Naturals, Sequences, FiniteSets

CONSTANTS
  Deployments, \* which processes run: records of a set of ingesters and a set of workers
  Bulk,        \* ingesters that merge staged batches (INGEST_BULK_STAGING_ENABLED)
  Inline,      \* ingesters that write snapshots themselves (INGEST_RESERVE_SNAPSHOTS_INLINE)
  Bounded,     \* ingesters run as backfill-range, up to ToHeight
  ToHeight,
  Depth,       \* CONFIRMATION_DEPTH
  IngestBatch, \* blocks of a range
  PoolHeight,
  MaxHeight,   \* bound: height of the chain
  MaxReorg,    \* bound: blocks the chain replaces, once
  MaxCrashes,  \* bound: ingesters that die or lose the node
  NoBlock

ASSUME IngestionAssumption ==
  /\ {ToHeight, Depth, IngestBatch, MaxHeight, MaxReorg, MaxCrashes} \subseteq Nat
  /\ PoolHeight \in Nat \ {0}
  /\ NoBlock \notin [hash : 0..1, parent : 0..1]

VARIABLES
  chain,     \* the node's chain: a sequence of blocks
  deep,      \* the chain has replaced a confirmed block
  deployment,
  processed, \* processed_blocks
  cursor,    \* indexer_cursors
  known,     \* pools has the pair
  swaps,     \* swaps: the blocks whose swap is recorded
  counted,   \* token_candles: how often the swap of a block was added inline
  queued,    \* candle_jobs: blocks whose swap a job will rebuild
  jobs,      \* snapshot_jobs, by height
  snapshots, \* pool_state_snapshots: heights
  ingester,
  crashes

tables == <<processed, cursor, known, swaps, counted, queued, jobs, snapshots>>
node == <<chain, deep, deployment>>
ingestVars == <<node, tables, ingester, crashes>>

Heights == 1..MaxHeight
Blocks == [hash : 0..1, parent : 0..1]
Ids == Heights \X (0..1)
Lowest(m, n) == IF m <= n THEN m ELSE n
NoJob == [status |-> "absent", attempts |-> 0]
Idle == [pc |-> "idle", from |-> 1, to |-> 0, got |-> <<>>]

IngestInit ==
  /\ chain = <<>> /\ deep = FALSE
  /\ deployment \in Deployments
  /\ processed = [h \in Heights |-> NoBlock]
  /\ cursor = 0
  /\ known = FALSE
  /\ swaps = {} /\ queued = {} /\ snapshots = {}
  /\ counted = [b \in Ids |-> 0]
  /\ jobs = [h \in Heights |-> NoJob]
  /\ ingester = [i \in deployment.ingesters |-> Idle]
  /\ crashes = 0
-----------------------------------------------------------------------------
(* The chain.  A reorganisation replaces the last blocks by those of the   *)
(* other fork.                                                             *)
Tip == IF chain = <<>> THEN 0 ELSE chain[Len(chain)].hash

Extend ==
  /\ Len(chain) < MaxHeight
  /\ chain' = Append(chain, [hash |-> Tip, parent |-> Tip])
  /\ UNCHANGED <<deep, deployment, tables, ingester, crashes>>

Reorganise(d) ==
  /\ Tip = 0 /\ d <= Len(chain)
  /\ chain' = [h \in DOMAIN chain |->
                 IF h <= Len(chain) - d THEN chain[h]
                 ELSE [hash |-> 1, parent |-> IF h = Len(chain) - d + 1 THEN 0 ELSE 1]]
  /\ deep' = (d > Depth)
  /\ UNCHANGED <<deployment, tables, ingester, crashes>>
-----------------------------------------------------------------------------
(* planRange and nextBlockRange.  The head read a moment before the cursor *)
(* only makes the range shorter, so both are read at once.  A bounded      *)
(* backfill is done when the cursor has reached its height.                *)
Target == IF Len(chain) > Depth THEN Len(chain) - Depth ELSE 0
Cap(i) == IF i \in Bounded THEN ToHeight ELSE MaxHeight
FirstOf(last) == last + 1
LastOf_Exclusive(i, last) == Lowest(Lowest(Target, Cap(i)), last + IngestBatch) - 1
LastOf(i, last) == Lowest(Lowest(Target, Cap(i)), last + IngestBatch)

Plan(i) ==
  /\ ingester[i].pc = "idle"
  /\ LastOf(i, cursor) >= FirstOf(cursor)
  /\ ingester' = [ingester EXCEPT ![i] =
                    [pc |-> "fetching", from |-> FirstOf(cursor), to |-> LastOf(i, cursor), got |-> <<>>]]
  /\ UNCHANGED <<node, tables, crashes>>

Done(i) ==
  /\ ingester[i].pc = "idle" /\ i \in Bounded /\ cursor >= ToHeight
  /\ ingester' = [ingester EXCEPT ![i].pc = "done"]
  /\ UNCHANGED <<node, tables, crashes>>

(* fetchBlockRange: its workers bring the blocks of the range in any order *)
(* and from whatever the chain is at that moment.                          *)
Wanted(i) == ingester[i].from..ingester[i].to

FetchBlock(i, h) ==
  /\ ingester[i].pc = "fetching"
  /\ h \in Wanted(i) \ DOMAIN ingester[i].got
  /\ LET got == [k \in DOMAIN ingester[i].got \cup {h} |->
                   IF k = h THEN chain[h] ELSE ingester[i].got[k]]
     IN  ingester' = [ingester EXCEPT ![i].got = got,
                        ![i].pc = IF DOMAIN got = Wanted(i) THEN "writing" ELSE "fetching"]
  /\ UNCHANGED <<node, tables, crashes>>
-----------------------------------------------------------------------------
(* A block that differs from the one recorded at its height, or does not   *)
(* continue the one recorded below it, is refused.                         *)
Differs(h, b) == processed[h] \notin {NoBlock, b}
Follows(h, b) == h = 1 \/ processed[h - 1] = NoBlock \/ processed[h - 1].hash = b.parent

Accepts(h, b) == ~Differs(h, b) /\ Follows(h, b)

(* validateStagedBlockContinuity, and the conflict of the merge *)
Contiguous(got) == \A h \in DOMAIN got : h - 1 \in DOMAIN got => got[h].parent = got[h - 1].hash

AcceptsBatch(got, from) == Contiguous(got) /\ \A h \in DOMAIN got : ~Differs(h, got[h]) /\ (h = from => Follows(h, got[h]))

(* The events of the blocks of got: pools first, then the swaps of pairs   *)
(* that are known, then the snapshot job of each touched height.           *)
KnownWith_Before(got) == known
KnownWith(got) == known \/ PoolHeight \in DOMAIN got

SwapsOf(got) == {<<h, got[h].hash>> : h \in {k \in DOMAIN got : k >= PoolHeight /\ KnownWith(got)}}
TouchedBy(got) == {s[1] : s \in SwapsOf(got)}

Enqueue(touched) ==
  [h \in Heights |-> IF h \in touched /\ jobs[h] = NoJob THEN [status |-> "pending", attempts |-> 0] ELSE jobs[h]]

Record(i, got, to) ==
  /\ processed' = [h \in Heights |-> IF h \in DOMAIN got THEN got[h] ELSE processed[h]]
  /\ known' = KnownWith(got)
  /\ swaps' = swaps \cup SwapsOf(got)
  /\ jobs' = IF i \in Inline THEN jobs ELSE Enqueue(TouchedBy(got))
  /\ cursor' = to

(* insertSwap and upsertCandlesForSwap: a swap that is already recorded is *)
(* not counted again.                                                      *)
Counted_Again(got) == [b \in Ids |-> IF b \in SwapsOf(got) THEN counted[b] + 1 ELSE counted[b]]
Counted(got) == [b \in Ids |-> IF b \in SwapsOf(got) \ swaps THEN counted[b] + 1 ELSE counted[b]]

Refuse(i) ==
  /\ ingester' = [ingester EXCEPT ![i] = Idle]
  /\ UNCHANGED <<node, tables, crashes>>

(* After the commit: the next block, or the end of the range. *)
Written(i, through) ==
  IF i \in Inline THEN [ingester EXCEPT ![i].pc = "snapshots", ![i].from = through]
  ELSE IF through < ingester[i].to THEN [ingester EXCEPT ![i].from = through + 1]
  ELSE [ingester EXCEPT ![i] = Idle]

(* writeBlock *)
WriteBlock(i) ==
  LET h == ingester[i].from
      got == [k \in {h} |-> ingester[i].got[k]]
  IN  /\ ingester[i].pc = "writing" /\ i \notin Bulk
      /\ IF Accepts(h, got[h])
         THEN /\ Record(i, got, h)
              /\ counted' = Counted(got)
              /\ ingester' = Written(i, h)
              /\ UNCHANGED <<node, queued, snapshots, crashes>>
         ELSE Refuse(i)

(* writeBulkStagingBatch, stageAndMergeBatch: the swaps of the batch get   *)
(* candle jobs, those that were recorded before too.                       *)
WriteBatch(i) ==
  LET got == ingester[i].got
  IN  /\ ingester[i].pc = "writing" /\ i \in Bulk
      /\ IF AcceptsBatch(got, ingester[i].from)
         THEN /\ Record(i, got, ingester[i].to)
              /\ queued' = queued \cup SwapsOf(got)
              /\ ingester' = Written(i, ingester[i].to)
              /\ UNCHANGED <<node, counted, snapshots, crashes>>
         ELSE Refuse(i)

(* writeReserveSnapshots, after the commit: each query may fail, and that  *)
(* is only logged.                                                         *)
JustWritten(i) == IF i \in Bulk THEN DOMAIN ingester[i].got ELSE {ingester[i].from}

WriteReserveSnapshots(i, ok) ==
  LET touched == {h \in JustWritten(i) : h >= PoolHeight /\ known}
  IN  /\ ingester[i].pc = "snapshots"
      /\ snapshots' = IF ok THEN snapshots \cup touched ELSE snapshots
      /\ ingester' = IF ingester[i].from < ingester[i].to
                     THEN [ingester EXCEPT ![i].pc = "writing", ![i].from = @ + 1]
                     ELSE [ingester EXCEPT ![i] = Idle]
      /\ UNCHANGED <<node, processed, cursor, known, swaps, counted, queued, jobs, crashes>>

(* A process dies, or the node does not answer; it is started again. *)
CrashIngester(i) ==
  /\ ingester[i].pc \notin {"idle", "done"} /\ crashes < MaxCrashes
  /\ crashes' = crashes + 1
  /\ ingester' = [ingester EXCEPT ![i] = Idle]
  /\ UNCHANGED <<node, tables>>

Ingest(i) ==
  \/ Plan(i) \/ Done(i) \/ WriteBlock(i) \/ WriteBatch(i)
  \/ \E h \in Heights : FetchBlock(i, h)
  \/ \E ok \in BOOLEAN : WriteReserveSnapshots(i, ok)

IngestNext ==
  \/ Extend \/ \E d \in 1..MaxReorg : Reorganise(d)
  \/ \E i \in deployment.ingesters : Ingest(i) \/ CrashIngester(i)
-----------------------------------------------------------------------------
(* The ledger is one chain without gaps: whatever the node shows while a   *)
(* range is fetched and whoever else writes, no two forks are mixed        *)
(* (recordProcessedBlock, validateStagedBlockContinuity), and at or below  *)
(* the cursor, the only memory of a restarted ingester, every block is     *)
(* recorded with its swap and the snapshot job that a writer without       *)
(* inline snapshots owes.                                                  *)
LedgerWhole ==
  /\ \A h \in Heights \ {1} :
       (processed[h] # NoBlock /\ processed[h - 1] # NoBlock) => processed[h].parent = processed[h - 1].hash
  /\ \A h \in 1..cursor :
       /\ processed[h] # NoBlock
       /\ h >= PoolHeight => /\ <<h, processed[h].hash>> \in swaps
                             /\ deployment.ingesters \cap Inline = {} => jobs[h] # NoJob

(* A recorded swap reaches the candles once: it was added inline exactly   *)
(* once or a job will rebuild its day, and it is never added twice         *)
(* (replays after a crash or a cursor moved back).                         *)
SwapsCountedOnce ==
  \A b \in Ids :
    /\ counted[b] <= 1
    /\ b \in swaps => counted[b] = 1 \/ b \in queued
    /\ b \notin swaps => counted[b] = 0

(* Unless a confirmed block was replaced, ingestion reaches the confirmed  *)
(* head and stays: ingesters that set the cursor back and each other's     *)
(* crashes delay it, no more (advanceCursor sets the cursor blindly).      *)
CatchesUp ==
  \A h \in Heights : (Target >= h) ~> (deep \/ (cursor >= h /\ processed[h] # NoBlock))
=============================================================================
