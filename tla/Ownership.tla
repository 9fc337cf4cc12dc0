----------------------------- MODULE Ownership ------------------------------
(***************************************************************************)
(* The handover of a contract (packages/astroport/src/common.rs), as the   *)
(* factory, the incentives, the coin registry and the pairs use it: the    *)
(* owner proposes a candidate for a limited time, may replace or drop the  *)
(* proposal, and the candidate claims.  Who counts as owner is the         *)
(* caller's matter: a pair without an owner takes the factory's.           *)
(***************************************************************************)
EXTENDS Naturals

CONSTANTS Accounts,
          None,      \* no account
          MaxTtl,    \* MAX_PROPOSAL_TTL
          Ttls       \* values of expires_in in messages

ASSUME TtlAssumption == MaxTtl \in Nat /\ Ttls \subseteq Nat

VARIABLES owner,     \* the owner in the contract's configuration
          proposal,  \* OWNERSHIP_PROPOSAL; the candidate None stands for no entry
          proposer,  \* history: who made the proposal that stands
          made       \* history: and when

ownershipVars == <<owner, proposal, proposer, made>>

NoProposal == [owner |-> None, ttl |-> 0]

OwnershipInit(first) ==
  /\ owner = first
  /\ proposal = NoProposal
  /\ proposer = None
  /\ made = 0

ProposeNewOwner(acting, sender, candidate, expiresIn, now) ==
  /\ sender = acting
  /\ candidate # acting
  /\ expiresIn <= MaxTtl
  /\ proposal' = [owner |-> candidate, ttl |-> now + expiresIn]
  /\ proposer' = sender
  /\ made' = now
  /\ UNCHANGED owner

\* leaves the proposal where it is
DropOwnershipProposal_Forgotten(acting, sender) ==
  /\ sender = acting
  /\ proposer' = None
  /\ made' = 0
  /\ UNCHANGED <<owner, proposal>>

DropOwnershipProposal(acting, sender) ==
  /\ sender = acting
  /\ proposal' = NoProposal
  /\ proposer' = None
  /\ made' = 0
  /\ UNCHANGED owner

ClaimOwnership(sender, now) ==
  /\ proposal.owner # None
  /\ sender = proposal.owner
  /\ now <= proposal.ttl
  /\ proposal' = NoProposal
  /\ owner' = sender
  /\ proposer' = None
  /\ made' = 0

Handover(acting, sender, now) ==
  \/ \E candidate \in Accounts, expiresIn \in Ttls :
       ProposeNewOwner(acting, sender, candidate, expiresIn, now)
  \/ DropOwnershipProposal(acting, sender)
  \/ ClaimOwnership(sender, now)

OwnershipTypeOK ==
  /\ owner \in Accounts \union {None}
  /\ proposal \in [owner : Accounts \union {None}, ttl : Nat]
  /\ proposer \in Accounts \union {None}
  /\ made \in Nat
=============================================================================
