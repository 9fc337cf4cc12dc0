------------------------------- MODULE Router -------------------------------
(***************************************************************************)
(* The router (contracts/router) over the pair: a route is a sequence of   *)
(* swaps, each a message of the router to itself that offers whatever the  *)
(* router holds when its turn comes.  The last swap pays the receiver, and *)
(* the reply to it compares what the receiver has with what he had.        *)
(*                                                                         *)
(* A route is one transaction, and all of it fails with any of its steps.  *)
(* With one pair every route of several swaps comes back to the same       *)
(* pools.  Receivers are neither the router nor the pair.                  *)
(***************************************************************************)
EXTENDS LpTracker

CONSTANTS MaxHops,      \* MAX_SWAP_OPERATIONS
          RouteOffers,  \* what is sent with a route, 0 for nothing
          RouterGifts,  \* amounts that somebody leaves with the router
          MaxLeft       \* bound: what is left with the router

ASSUME RouterAssumption ==
  /\ MaxHops \in Nat \ {0} /\ MaxLeft \in Nat
  /\ RouteOffers \subseteq Nat /\ RouterGifts \subseteq Nat

VARIABLE routed   \* what the router holds of each asset between transactions

routerVars == <<vars, routed>>

(* A path names the asset that each of its swaps offers. *)
Paths == UNION {[1..hops -> Assets] : hops \in 1..(MaxHops + 1)}

AssertOperations(path) ==
  /\ Len(path) <= MaxHops
  /\ \A k \in 1..(Len(path) - 1) : path[k + 1] = Other(path[k])

(* The spread is not asserted within a longer route: the belief price is   *)
(* then the greatest decimal, of which nothing is expected.                *)
BeliefPrice(path) == IF Len(path) = 1 THEN 0 ELSE Scale * Scale + 1

\* offers what the router held when the route began
Offer_AtStart(travel, path, k) == travel.began[path[k]]

Offer(travel, path, k) == travel.routed[path[k]]

(* execute_swap_operation and the swap that the pair makes of it. *)
ExecuteSwapOperation(travel, path, k, info, maxSpread) ==
  LET offered == path[k]
      offer == Offer(travel, path, k)
      result == SwapResult(travel.held, offered, offer, info)
      back == IF k = Len(path) THEN 0 ELSE result.paid
  IN  IF travel.accepted
         /\ SwapAccepted(travel.held, offered, offer, info, BeliefPrice(path), maxSpread)
      THEN [travel EXCEPT !.held = Exchanged(@, offered, offer, result.leaving),
                          !.expected = AfterSwap(travel.held, offered, offer, result.leaving),
                          !.routed[offered] = @ - offer,
                          !.routed[Other(offered)] = @ + back,
                          !.paid = result.paid]
      ELSE [travel EXCEPT !.accepted = FALSE]

SetOut(path, sent) ==
  LET held == [routed EXCEPT ![path[1]] = @ + sent]
  IN  [accepted |-> TRUE, held |-> pools, expected |-> pools,
       began |-> held, routed |-> held, paid |-> 0]

Travel(path, sent, info, maxSpread) ==
  LET after[k \in 0..Len(path)] ==
        IF k = 0 THEN SetOut(path, sent)
        ELSE ExecuteSwapOperation(after[k - 1], path, k, info, maxSpread)
  IN  after[Len(path)]

(* Handles the reply too: the receiver got at least what he asked for.     *)
ExecuteSwapOperations(path, sent, least, info, maxSpread) ==
  LET end == Travel(path, sent, info, maxSpread)
  IN  /\ Message
      /\ AssertOperations(path)
      /\ end.accepted
      /\ end.paid >= least
      /\ pools' = end.held
      /\ routed' = end.routed
      /\ SaveBalances(end.expected)
      /\ AccumulatePrices
      /\ given' = NoGifts
      /\ UNCHANGED <<lp, supply, feeShare, now, tracked, supplyHistory, began>>

(* Every step is asked of the pair as it is now.  0 stands for no answer.  *)
SimulateSwapOperations(path, offer, info) ==
  LET answer[k \in 0..Len(path)] ==
        IF k = 0 THEN offer
        ELSE IF answer[k - 1] > 0 /\ \A i \in Assets : pools[i] > 0
             THEN Simulation(path[k], answer[k - 1], info) ELSE 0
  IN  answer[Len(path)]

LeaveWithRouter(i, gift) ==
  /\ Message
  /\ routed[1] + routed[2] + gift <= MaxLeft
  /\ routed' = [routed EXCEPT ![i] = @ + gift]
  /\ UNCHANGED <<pools, lp, supply, feeShare, prices, lastTime, balances, now,
                 tracked, supplyHistory, given, began>>
-----------------------------------------------------------------------------
RouterInit == TrackerInit /\ routed = [i \in Assets |-> 0]

RouterNext ==
  \/ TrackerNext /\ UNCHANGED routed
  \/ \E path \in Paths, sent \in RouteOffers, least \in Minima, info \in FeeInfos,
        maxSpread \in Tolerances : ExecuteSwapOperations(path, sent, least, info, maxSpread)
  \/ \E i \in Assets, gift \in RouterGifts : LeaveWithRouter(i, gift)

RouterSpec == RouterInit /\ [][RouterNext]_routerVars
-----------------------------------------------------------------------------
(* A route that comes back delivers no less than the router simulates,     *)
(* although the simulation asks the pair as it is before the route and the *)
(* route changes it under way; and whatever route is taken from here, it   *)
(* leaves nothing of what it offered with the router.  Of three hops and   *)
(* more over the same pools a route may deliver a unit less.               *)
RoutesDeliver ==
  \A path \in Paths, sent \in RouteOffers, info \in FeeInfos, maxSpread \in Tolerances :
    LET end == Travel(path, sent, info, maxSpread)
    IN  AssertOperations(path) /\ end.accepted =>
          /\ Len(path) <= 2 => end.paid >= SimulateSwapOperations(path, sent, info)
          /\ \A k \in 1..Len(path) : end.routed[path[k]] = 0
=============================================================================
