---------------------------- MODULE Observations ----------------------------
(***************************************************************************)
(* The observed prices of the pairs (packages/astroport/src/observation.rs *)
(* and accumulate_swap_sizes of pair_stable and pair_concentrated).  A     *)
(* swap leaves its sizes for a later swap, which turns them into an        *)
(* observation with a moving average; a query answers with the average at  *)
(* a moment of the past, between two observations if need be.              *)
(***************************************************************************)
EXTENDS CircularBuffer, Decimals, SequencesExt

ASSUME NoValueAssumption == NoValue \notin [ts : Nat, price : Nat, sma : Nat]

VARIABLES
  now,        \* time of the block
  precommit,  \* PRECOMMIT_OBSERVATION
  log         \* history: every observation that was ever committed

observationVars == <<head, array, precommit, log>>

Observation(ts, price, sma) == [ts |-> ts, price |-> price, sma |-> sma]
-----------------------------------------------------------------------------
(* The moving average.                                                     *)

\* leaves the oldest price in
SmaCalculation_KeepsOldest(sma, oldest, count, price) == (sma * count + price) \div count

SmaCalculation(sma, oldest, count, price) == (sma * count + price - oldest) \div count
SmaBufferNotFull(sma, count, price) == (sma * count + price) \div (count + 1)

(* The position after the head is read as the oldest observation.          *)
NextSma(price) ==
  IF ReadLast = NoValue THEN price
  ELSE IF Exists(head + 1)
       THEN SmaCalculation(ReadLast.sma, ReadSingle(head + 1).price, Capacity, price)
       ELSE SmaBufferNotFull(ReadLast.sma, head, price)

\* commits what is committed already
ToCommit_Again ==
  /\ precommit # NoValue
  /\ IF ReadLast = NoValue THEN now > precommit.ts ELSE ReadLast.ts <= precommit.ts

(* Whether a swap finds sizes to commit.  The sizes of the first block wait *)
(* for the next block; those of any other do not.                          *)
ToCommit ==
  /\ precommit # NoValue
  /\ IF ReadLast = NoValue THEN now > precommit.ts ELSE ReadLast.ts < precommit.ts

AccumulateSwapSizes ==
  IF ToCommit
  THEN LET price == Ratio(precommit.base, precommit.quote)
           observation == Observation(precommit.ts, price, NextSma(price))
       IN  /\ observation.sma \in Nat   \* the subtraction is checked
           /\ InstantPush(observation)
           /\ log' = Append(log, observation)
  ELSE UNCHANGED <<bufferVars, log>>

(* PrecommitObservation::save.  Sizes of one block are added up.           *)
SavePrecommit(base, quote) ==
  precommit' = IF precommit # NoValue /\ precommit.ts = now
               THEN [precommit EXCEPT !.base = @ + base, !.quote = @ + quote]
               ELSE [base |-> base, quote |-> quote, ts |-> now]
-----------------------------------------------------------------------------
(* The query.                                                              *)

Endless == <<NoValue, NoValue>>   \* of a search that has passed its target by

(* binary_search: the two neighbours of a target between the ends.         *)
Neighbours(target, first, last) ==
  LET search[range \in (first..(last + 1)) \X ((first - 1)..last)] ==
        LET mid == (range[1] + range[2]) \div 2
            left == ReadSingle(mid)
            right == ReadSingle(mid + 1)
        IN  IF range[1] > range[2] THEN Endless
            ELSE IF left.ts <= target /\ target <= right.ts THEN <<left, right>>
            ELSE IF left.ts > target THEN search[<<range[1], mid - 1>>]
            ELSE search[<<mid + 1, range[2]>>]
  IN  search[<<first, last>>]

Interpolated(left, right, target) ==
  LET slope == Times(IF left.sma > right.sma THEN left.sma - right.sma ELSE right.sma - left.sma,
                     Ratio(1, right.ts - left.ts))
      change == slope * (target - left.ts)
  IN  IF left.sma > right.sma THEN left.sma - change ELSE left.sma + change

Refused == -1

\* does not know that the head went round
Observed_FromZero(target) ==
  LET newest == (head + Capacity - 1) % Capacity
  IN  IF ~Exists(head) /\ head = 0
      THEN IF precommit # NoValue /\ precommit.ts <= target
           THEN Ratio(precommit.base, precommit.quote) ELSE Refused
      ELSE IF target >= ReadSingle(newest).ts THEN ReadSingle(newest).sma
      ELSE IF target <= ReadSingle(0).ts THEN ReadSingle(0).sma
      ELSE LET later == Min({i \in 1..newest : ReadSingle(i).ts >= target} \cup {newest})
           IN  Interpolated(ReadSingle(later - 1), ReadSingle(later), target)

(* query_observation, for the moment target.  Without observations the     *)
(* sizes that wait for their commit may answer.                            *)
Observed(target) ==
  LET full == Exists(head)
      oldest == IF full THEN head ELSE 0
      newest == IF full THEN head + Capacity - 1 ELSE (head + Capacity - 1) % Capacity
  IN  IF ~full /\ head = 0
      THEN IF precommit # NoValue /\ precommit.ts <= target
           THEN Ratio(precommit.base, precommit.quote) ELSE Refused
      ELSE IF target >= ReadSingle(newest).ts THEN ReadSingle(newest).sma
      ELSE IF target = ReadSingle(oldest).ts THEN ReadSingle(oldest).sma
      ELSE IF target < ReadSingle(oldest).ts THEN Refused
      ELSE LET pair == Neighbours(target, oldest, newest)
           IN  IF pair[1].ts = target THEN pair[1].sma
               ELSE IF pair[2].ts = target THEN pair[2].sma
               ELSE Interpolated(pair[1], pair[2], target)

ObservationsInit ==
  /\ BufferInit
  /\ precommit = NoValue
  /\ log = <<>>
-----------------------------------------------------------------------------
(* What the buffer should hold: the latest observations, oldest first.     *)
Kept == IF Len(log) <= Capacity THEN log ELSE SubSeq(log, Len(log) - Capacity + 1, Len(log))

\* The average at a moment, by looking at every observation that is kept.
Reference(target) ==
  LET before == {i \in 1..Len(Kept) : Kept[i].ts <= target}
      l == Max(before)
  IN  IF before = {} THEN Refused
      ELSE IF l = Len(Kept) \/ Kept[l].ts = target THEN Kept[l].sma
      ELSE Interpolated(Kept[l], Kept[l + 1], target)

(* The query finds its way round the buffer: before it is full, when it is *)
(* just full and after the head went round, the answer about each moment   *)
(* is the one that a walk over the latest observations gives.              *)
QueryFindsMoment ==
  log # <<>> => \A target \in 0..now : Observed(target) = Reference(target)

(* An average lies between the smallest and the greatest price observed so *)
(* far, although it is never summed up anew: what rounding loses is less   *)
(* than one atomic for each observation.                                   *)
AverageWithinObserved ==
  \A i \in 1..Len(log) :
    LET seen == {log[j].price : j \in 1..i}
    IN  log[i].sma + i > Min(seen) /\ log[i].sma <= Max(seen)

(* What is answered about a moment that has an observation at or after it  *)
(* stands: later swaps do not change it until it is too old to be asked    *)
(* about.                                                                  *)
AnswersStand ==
  [][\A target \in 0..now :
       log # <<>> /\ target <= log[Len(log)].ts /\ Observed(target) # Refused
         => Observed(target)' \in {Observed(target), Refused}]_observationVars
=============================================================================
