-------------------------- MODULE RewardTransfers --------------------------
(***************************************************************************)
(* The payout protocol of the incentives contract: reply.rs, and the       *)
(* handlers of utils.rs that call register_pending_transfer.               *)
(*                                                                         *)
(* A handler saves its changes, registers every transfer under a fresh     *)
(* reply id and returns the transfers as submessages.  The chain runs them *)
(* one after the other.  The code behind a transfer (a cw20 contract, a    *)
(* token factory bank hook) may call the contract again before it returns, *)
(* so handlers nest.  A transfer that fails takes back everything that     *)
(* happened since it began, nested handlers included; a transaction that   *)
(* fails takes back everything.  reply() then settles the transfer.        *)
(***************************************************************************)
EXTENDS Integers, SequencesExt, Sums

CONSTANTS NumClaims,  \* rewards that stakers have due, each paid by one transfer
          TokenOf,    \* the token of each claim
          AmountOf,   \* and its amount
          Tokens,
          Funds,      \* what the contract holds of each token at first
          MaxDepth,   \* bound: handlers nested in one transaction
          MaxReplyId  \* bound: reply ids handed out

Claims == 1..NumClaims

ASSUME ClaimsAssumption ==
  /\ NumClaims \in Nat /\ IsFiniteSet(Tokens)
  /\ TokenOf \in [Claims -> Tokens] /\ AmountOf \in [Claims -> Nat \ {0}]
  /\ Funds \in [Tokens -> Nat]
  /\ MaxDepth \in Nat /\ MaxReplyId \in Nat

VARIABLES
  store,     \* the contract's storage and balance as the running code sees them
  stack,     \* the handlers of the running transaction, the innermost last
  committed  \* store as of the last transaction that went through

vars == <<store, stack, committed>>

PostTransferReplyId == 1 \* POST_TRANSFER_REPLY_ID, of messages older than the payloads
FirstReplyId == PostTransferReplyId + 1 \* FIRST_DYNAMIC_REPLY_ID

NoTokens == [t \in Tokens |-> 0]

Init ==
  /\ store = [due |-> Claims, next |-> FirstReplyId, pending |-> [id \in {} |-> 0],
              orphaned |-> NoTokens, bank |-> Funds, paid |-> NoTokens]
  /\ stack = << >>
  /\ committed = store

(* A handler's submessages are in "queue"; "running" says that the first   *)
(* is being executed, and "saved" is the storage it began with.            *)
Frame == [queue |-> << >>, running |-> FALSE, saved |-> << >>]
Top == stack[Len(stack)]
SetTop(frame) == stack' = [stack EXCEPT ![Len(stack)] = frame]
-----------------------------------------------------------------------------
(* register_pending_transfer, for each of the payouts in turn. *)
Register(s, payouts) ==
  LET n == Len(payouts)
      ids == s.next..(s.next + n - 1)
  IN  [s EXCEPT !.next = @ + n,
                !.pending = [id \in DOMAIN @ \cup ids |->
                   IF id \in ids THEN payouts[id - s.next + 1] ELSE @[id]]]

Messages(s, payouts) ==
  [i \in 1..Len(payouts) |-> [id |-> s.next + i - 1, payout |-> payouts[i]]]

(* A handler can start a transaction, or be called by a running transfer. *)
MayCall ==
  \/ stack = << >>
  \/ stack # << >> /\ Top.running /\ Len(stack) < MaxDepth

Handle(s, payouts) ==
  /\ MayCall
  /\ s.next + Len(payouts) <= MaxReplyId + 1
  /\ store' = Register(s, payouts)
  /\ stack' = Append(stack, [Frame EXCEPT !.queue = Messages(s, payouts)])
  /\ UNCHANGED committed

(* claim_rewards pays the claims C; their positions are synced and saved   *)
(* before the first message runs.                                          *)
ClaimPayouts(C) ==
  [i \in 1..Cardinality(C) |->
     LET c == SetToSeq(C)[i] IN [token |-> TokenOf[c], amount |-> AmountOf[c]]]

Claim(C) ==
  /\ C # {} /\ C \subseteq store.due
  /\ Handle([store EXCEPT !.due = @ \ C], ClaimPayouts(C))

(* claim_orphaned_rewards *)
OrphanPayouts(orphaned) ==
  LET held == {t \in Tokens : orphaned[t] > 0}
  IN  [i \in 1..Cardinality(held) |->
         LET t == SetToSeq(held)[i] IN [token |-> t, amount |-> orphaned[t]]]

ClaimOrphaned ==
  /\ \E t \in Tokens : store.orphaned[t] > 0
  /\ Handle([store EXCEPT !.orphaned = NoTokens], OrphanPayouts(store.orphaned))
-----------------------------------------------------------------------------
(* The chain begins the first submessage that is left. *)
Begin ==
  /\ stack # << >> /\ ~Top.running /\ Top.queue # << >>
  /\ SetTop([Top EXCEPT !.running = TRUE, !.saved = store])
  /\ UNCHANGED <<store, committed>>

(* reply(): the entry of the transfer is removed either way; the payload   *)
(* it held is what a failed transfer adds to ORPHANED_REWARDS.             *)
Reply_KeepsFailed(s, id, ok) ==
  IF ok THEN [s EXCEPT !.pending = [x \in DOMAIN s.pending \ {id} |-> s.pending[x]]]
  ELSE [s EXCEPT !.orphaned[s.pending[id].token] = @ + s.pending[id].amount]

Reply_Overwrites(s, id, ok) ==
  LET rest == [x \in DOMAIN s.pending \ {id} |-> s.pending[x]]
  IN  IF ok THEN [s EXCEPT !.pending = rest]
      ELSE [s EXCEPT !.pending = rest, !.orphaned[s.pending[id].token] = s.pending[id].amount]

Reply(s, id, ok) ==
  LET rest == [x \in DOMAIN s.pending \ {id} |-> s.pending[x]]
  IN  IF id \notin DOMAIN s.pending THEN s
      ELSE IF ok THEN [s EXCEPT !.pending = rest]
      ELSE [s EXCEPT !.pending = rest,
                     !.orphaned[s.pending[id].token] = @ + s.pending[id].amount]

Settled(frame) == [Frame EXCEPT !.queue = Tail(frame.queue)]

Succeed ==
  /\ stack # << >> /\ Top.running
  /\ LET msg == Head(Top.queue)
         moved == [store EXCEPT !.bank[msg.payout.token] = @ - msg.payout.amount,
                                !.paid[msg.payout.token] = @ + msg.payout.amount]
     IN  /\ msg.payout.amount <= store.bank[msg.payout.token]
         /\ store' = Reply(moved, msg.id, TRUE)
  /\ SetTop(Settled(Top))
  /\ UNCHANGED committed

(* The transfer of the i-th handler fails, whatever runs inside it. *)
Fail(i) ==
  /\ stack[i].running
  /\ store' = Reply(stack[i].saved, Head(stack[i].queue).id, FALSE)
  /\ stack' = [SubSeq(stack, 1, i) EXCEPT ![i] = Settled(@)]
  /\ UNCHANGED committed

Return ==
  /\ stack # << >> /\ ~Top.running /\ Top.queue = << >>
  /\ stack' = Front(stack)
  /\ committed' = IF Len(stack) = 1 THEN store ELSE committed
  /\ UNCHANGED store

(* The whole transaction fails: out of gas, or a message without a reply. *)
Abort ==
  /\ stack # << >>
  /\ stack' = << >>
  /\ store' = committed
  /\ UNCHANGED committed

Execute == Begin \/ Succeed \/ (\E i \in DOMAIN stack : Fail(i)) \/ Return \/ Abort

Next ==
  \/ \E C \in SUBSET Claims : Claim(C)
  \/ ClaimOrphaned
  \/ Execute

Spec == Init /\ [][Next]_vars
-----------------------------------------------------------------------------
InFlight == UNION {Range(stack[i].queue) : i \in DOMAIN stack}

Payout == [token : Tokens, amount : Nat]
TypeOK ==
  /\ store.due \subseteq Claims /\ store.next \in Nat
  /\ \A id \in DOMAIN store.pending : id \in PostTransferReplyId + 1..MaxReplyId /\ store.pending[id] \in Payout
  /\ store.orphaned \in [Tokens -> Nat]
  /\ store.bank \in [Tokens -> Nat] /\ store.paid \in [Tokens -> Nat]

(* The pending entries are exactly the transfers still to be replied to,   *)
(* each with its own payload: none is left behind by a reply, a nested     *)
(* handler or a rollback, and reply() never misses or mixes up a payload   *)
(* (reply.rs:69-75), though ids are handed out again after a rollback.     *)
PendingMatchesInFlight ==
  /\ DOMAIN store.pending = {msg.id : msg \in InFlight}
  /\ \A msg \in InFlight : store.pending[msg.id] = msg.payout

DueSum(S, t) == SumIn(S, NumClaims, [c \in Claims |-> IF TokenOf[c] = t THEN AmountOf[c] ELSE 0])
PendingSum(pending, t) ==
  SumIn(DOMAIN pending, MaxReplyId,
        [id \in DOMAIN pending |-> IF pending[id].token = t THEN pending[id].amount ELSE 0])
Accounted(s, t) == DueSum(s.due, t) + PendingSum(s.pending, t) + s.orphaned[t] + s.paid[t]

(* Every unit that was due is due, in flight, orphaned or paid, and is so  *)
(* once: re-entry and failure neither pay a reward twice nor lose it.      *)
NothingLostOrDoubled == \A t \in Tokens : Accounted(store, t) = DueSum(Claims, t)
=============================================================================
