----------------------------- MODULE LpTracker ------------------------------
(***************************************************************************)
(* The pair with the contract that tracks its LP token                     *)
(* (contracts/periphery/tokenfactory_tracker): the chain calls the tracker *)
(* before each movement of the token, and the tracker keeps the balances   *)
(* and the supply with their history.                                      *)
(***************************************************************************)
EXTENDS Pair, Sequences

CONSTANT BurnNotifies   \* the chain calls the hook once more when it burned

ASSUME TrackerAssumption == BurnNotifies \in BOOLEAN

VARIABLES
  tracked,        \* BALANCES of the tracker
  supplyHistory,  \* TOTAL_SUPPLY_HISTORY
  given,          \* history: what the pair was given since its last message
  began           \* history: what everybody had when each block began

vars == <<pairVars, tracked, supplyHistory, given, began>>

NoGifts == [i \in Assets |-> 0]

Module == 0   \* the address of the token factory module
Move(from, to, amount) == [from |-> from, to |-> to, amount |-> amount]

BankAfter(bank, move) ==
  [h \in Holders |-> bank[h] - (IF h = move.from THEN move.amount ELSE 0)
                             + (IF h = move.to THEN move.amount ELSE 0)]

\* takes the balance before the movement for the one after it
TrackMove_Before(t, bank, move) ==
  [h \in Holders |-> IF h \in {move.from, move.to} /\ move.from # move.to
                     THEN SaveAt(t[h], bank[h], now) ELSE t[h]]

(* track_balances, for one movement: the bank has not made it yet.         *)
TrackMove(t, bank, move) ==
  [h \in Holders |-> IF h \in {move.from, move.to} /\ move.from # move.to
                     THEN SaveAt(t[h], BankAfter(bank, move)[h], now) ELSE t[h]]

AfterMove(state, move) ==
  [bank |-> BankAfter(state.bank, move), kept |-> TrackMove(state.kept, state.bank, move)]

(* The movements that follow a message, one after the other. *)
Track(moves) ==
  LET after[k \in 0..Len(moves)] ==
        IF k = 0 THEN [bank |-> lp, kept |-> tracked] ELSE AfterMove(after[k - 1], moves[k])
  IN  tracked' = after[Len(moves)].kept

(* The supply is saved at every movement; the last one of a message stays. *)
TrackSupply(atLastMove) == supplyHistory' = SaveAt(supplyHistory, atLastMove, now)
-----------------------------------------------------------------------------
Minted(receiver, autoStake, share) ==
  (IF supply = 0 THEN <<Move(Module, Self, MinimumLiquidity)>> ELSE <<>>)
  \o IF autoStake
     THEN <<Move(Module, Self, share), Move(Self, IncentivesAddr, share)>>
     ELSE <<Move(Module, receiver, share)>>

Provide(receiver, autoStake, deposit, tolerance, least) ==
  /\ ProvideLiquidity(receiver, autoStake, deposit, tolerance, least)
  /\ Track(Minted(receiver, autoStake, supply' - supply - (IF supply = 0 THEN MinimumLiquidity ELSE 0)))
  /\ TrackSupply(supply')
  /\ given' = NoGifts
  /\ UNCHANGED began

(* The shares come with the message, then the pair has them burned: they   *)
(* go to the module, and only then does the supply shrink.                 *)
Withdraw(user, amount, least) ==
  /\ WithdrawLiquidity(user, amount, least)
  /\ Track(<<Move(user, Self, amount), Move(Self, Module, amount)>>)
  /\ TrackSupply(IF BurnNotifies THEN supply' ELSE supply)
  /\ given' = NoGifts
  /\ UNCHANGED began

Send(from, to, amount) ==
  /\ TransferLp(from, to, amount)
  /\ Track(<<Move(from, to, amount)>>)
  /\ TrackSupply(supply)
  /\ UNCHANGED <<given, began>>

Trade(offered, offer, info, belief, maxSpread) ==
  /\ Swap(offered, offer, info, belief, maxSpread)
  /\ given' = NoGifts
  /\ UNCHANGED <<tracked, supplyHistory, began>>

Configure(rate) == UpdateConfig(rate) /\ UNCHANGED <<tracked, supplyHistory, given, began>>

Give(i, gift) ==
  /\ Donate(i, gift)
  /\ given' = [given EXCEPT ![i] = @ + gift]
  /\ UNCHANGED <<tracked, supplyHistory, began>>

NewBlock ==
  /\ Tick
  /\ began' = Append(began, [pools |-> pools, given |-> given, lp |-> lp])
  /\ UNCHANGED <<tracked, supplyHistory, given>>
-----------------------------------------------------------------------------
TrackerInit ==
  /\ Init
  /\ tracked = [h \in Holders |-> Snapshot(0)]
  /\ supplyHistory = Snapshot(0)
  /\ given = NoGifts
  /\ began = <<[pools |-> pools, given |-> given, lp |-> lp]>>

TrackerNext ==
  \/ \E receiver \in Users, autoStake \in BOOLEAN, x, y \in Deposits,
        tolerance \in Tolerances, least \in Minima :
       Provide(receiver, autoStake, <<x, y>>, tolerance, least)
  \/ \E user \in Users, least \in Minima, amount \in LpAmounts : Withdraw(user, amount, least)
  \/ \E from \in Users, to \in Holders, amount \in LpAmounts : Send(from, to, amount)
  \/ \E offered \in Assets, offer \in Offers, info \in FeeInfos, belief \in BeliefPrices,
        maxSpread \in Tolerances : Trade(offered, offer, info, belief, maxSpread)
  \/ \E rate \in FeeShares : Configure(rate)
  \/ \E i \in Assets, gift \in Gifts : Give(i, gift)
  \/ NewBlock

TrackerSpec == TrackerInit /\ [][TrackerNext]_vars
-----------------------------------------------------------------------------
(* balance_at: for the block that is under way the balance is that of the  *)
(* moment, for another one that with which it began.                       *)
BalanceAt(h, unit) == IF unit = now THEN tracked[h].current ELSE LoadAtHeight(tracked[h], unit)

(* What the pair has on record for a block is what it held when that block *)
(* began, and its latest record what it holds, less exactly what it was    *)
(* given since the message before, which no handler sees.  Deposits are    *)
(* saved before their assets arrive and returns and fees before they left, *)
(* so each record is a prediction: it comes true for every order of the    *)
(* messages of a block, blocks without any, and swaps within routes.       *)
BalanceHistoryHolds ==
  TrackBalances =>
    \A i \in Assets :
      /\ balances[i].current + given[i] = pools[i]
      /\ \A b \in 1..now : LoadAtHeight(balances[i], b) + began[b].given[i] = began[b].pools[i]

(* The tracker knows what everybody has, and had when each earlier block   *)
(* began, through mints, autostaking, withdrawals and transfers.           *)
TrackedAsHeld ==
  \A h \in Holders, b \in 1..now :
    BalanceAt(h, b) = IF b = now THEN lp[h] ELSE began[b].lp[h]

(* What ReverseSimulation quotes is enough: whoever offers one unit more   *)
(* than the quote, which is rounded down, gets all but a unit of what he   *)
(* asked for, of amounts that a decimal's last digit does not tell from    *)
(* one another by more than a unit.                                        *)
QuotesSuffice ==
  \A offered \in Assets, info \in FeeInfos : \A ask \in 1..pools[Other(offered)] :
    pools[offered] > 0 /\ BeforeCommission(ask, info.total) < pools[Other(offered)] /\ ask <= Scale =>
      LET offer == ReverseSimulation(offered, ask, info)
      IN  Simulation(offered, offer + 1, info) >= ask - 1
=============================================================================
