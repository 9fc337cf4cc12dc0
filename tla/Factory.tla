------------------------------ MODULE Factory -------------------------------
(***************************************************************************)
(* The factory (contracts/factory) with the coin registry and one pair     *)
(* that has an owner of its own.                                           *)
(*                                                                         *)
(* A pair is created in two steps of one transaction: the factory notes    *)
(* the key in TMP_PAIR_INFO and instantiates the pair, and registers it in *)
(* the reply.  Between the two runs the code of the pair: it has the bank  *)
(* make its LP token, sets the contract up that tracks it if it wants one, *)
(* and may call the factory.  calls is the stack of creations under way,   *)
(* each with the storage to go back to should it fail.                     *)
(***************************************************************************)
EXTENDS Ownership, Sequences, FiniteSets

CONSTANTS Types,         \* pair types
          Priced,        \* the types whose pairs keep the decimals of their coins
          Trackable,     \* the types whose pairs may have their LP token tracked
          TrackerCodes,  \* code of the tracking contract that messages carry
          Configs,       \* settings of a pair type that messages carry
          Assets,        \* the assets that a pair may be of
          Key(_),        \* pair_key of a set of assets; two sets may share one
          Keys,
          Coins,         \* native coins of the registry
          Decimals,      \* ALLOWED_DECIMALS and others
          Allowed,       \* ALLOWED_DECIMALS
          MaxFee,        \* MAX_TOTAL_FEE_BPS and MAX_MAKER_FEE_BPS
          Founder,       \* owner of the factory and the registry at instantiation
          MaxContracts,  \* bound: pairs instantiated
          MaxDepth,      \* bound: creations within creations
          MaxTime        \* bound: time

ASSUME FactoryAssumption ==
  /\ Founder \in Accounts /\ None \notin Accounts
  /\ Allowed \subseteq Decimals /\ Decimals \subseteq Nat \ {0} /\ Coins \subseteq Assets
  /\ TrackerCodes \subseteq Nat \ {0}
  /\ \A assets \in SUBSET Assets : Key(assets) \in Keys
  /\ MaxContracts \in Nat /\ MaxDepth \in Nat /\ MaxTime \in Nat

VARIABLES
  pairConfigs,  \* PAIR_CONFIGS
  pairs,        \* PAIRS: the contract of each key, 0 for none
  tmp,          \* TMP_PAIR_INFO
  calls,        \* the creations under way, the innermost last
  created,      \* of each contract: its assets, the decimals that it keeps, its LP token and tracker
  trackerConfig,\* TRACKER_CONFIG, 0 for none
  registry,     \* COINS_INFO of the registry that the factory names, 0 for no entry
  touched,      \* history: coins that the owner of the registry changed
  pairOwner, pairProposal, pairProposer, pairMade,  \* ownership of one of the pairs
  now

creationVars == <<pairConfigs, pairs, tmp, calls, created>>
factoryVars == <<creationVars, trackerConfig>>
registryVars == <<registry, touched>>
pairVars == <<pairOwner, pairProposal, pairProposer, pairMade>>
vars == <<ownershipVars, factoryVars, registryVars, pairVars, now>>

PairOwnership == INSTANCE Ownership WITH
  owner <- pairOwner, proposal <- pairProposal, proposer <- pairProposer, made <- pairMade

AssetSets == {assets \in SUBSET Assets : Cardinality(assets) = 2}
Idle == calls = <<>>
NoConfig == [fee |-> MaxFee + 1, permissioned |-> FALSE, disabled |-> TRUE, whitelist |-> {}]

Init ==
  /\ OwnershipInit(Founder)
  /\ pairConfigs = [t \in Types |-> NoConfig]
  /\ pairs = [k \in Keys |-> 0]
  /\ tmp = {}
  /\ calls = <<>>
  /\ created = <<>>
  /\ trackerConfig = 0
  /\ registry = [c \in Coins |-> 0]
  /\ touched = {}
  /\ PairOwnership!OwnershipInit(None)
  /\ now = 1
-----------------------------------------------------------------------------
UpdatePairConfig(sender, type, config) ==
  /\ Idle
  /\ sender = owner
  /\ config.fee <= MaxFee
  /\ pairConfigs' = [pairConfigs EXCEPT ![type] = config]
  /\ UNCHANGED <<ownershipVars, pairs, tmp, calls, created, trackerConfig, registryVars, pairVars, now>>

UpdateTrackerConfig(sender, code, withModule) ==
  /\ Idle
  /\ sender = owner
  /\ trackerConfig = 0 => withModule
  /\ trackerConfig' = code
  /\ UNCHANGED <<ownershipVars, creationVars, registryVars, pairVars, now>>

IsWhitelisted(config, sender) == sender \in config.whitelist

MayCreate(sender, type) ==
  LET config == pairConfigs[type]
  IN  /\ config # NoConfig
      /\ config.permissioned => sender = owner \/ IsWhitelisted(config, sender)
      /\ ~config.disabled

Kept(type, assets) == IF type \in Priced THEN assets \intersect Coins ELSE {}

(* A priced pair looks the decimals of its coins up before it stores anything.  *)
CreatePair(sender, type, assets, tracks) ==
  /\ tracks => type \in Trackable
  /\ pairs[Key(assets)] = 0
  /\ MayCreate(sender, type)
  /\ type \in Priced => \A c \in assets \intersect Coins : registry[c] # 0
  /\ Len(created) < MaxContracts /\ Len(calls) < MaxDepth
  /\ tmp' = {Key(assets)}
  /\ calls' = Append(calls, [contract |-> Len(created) + 1, due |-> "denom", tmp |-> tmp, pairs |-> pairs])
  /\ created' = Append(created, [assets |-> assets, tracks |-> tracks,
                                decimals |-> [c \in Kept(type, assets) |-> registry[c]],
                                lpToken |-> FALSE, tracker |-> 0])
  /\ UNCHANGED <<ownershipVars, pairConfigs, pairs, trackerConfig, registryVars, pairVars, now>>

(* Messages come from accounts; while a pair is instantiated, from it.     *)
SomebodyCreates(type, assets, tracks) ==
  IF Idle
  THEN \E sender \in Accounts : CreatePair(sender, type, assets, tracks)
  ELSE CreatePair(None, type, assets, tracks)

Innermost == calls[Len(calls)]

(* The reply to the first message of a pair's instantiation; the code of   *)
(* the tracker is what the factory says by then.                           *)
DenomCreated ==
  LET pair == created[Innermost.contract]
  IN  /\ ~Idle /\ Innermost.due = "denom"
      /\ ~pair.lpToken
      /\ pair.tracks => trackerConfig # 0
      /\ created' = [created EXCEPT ![Innermost.contract].lpToken = TRUE]
      /\ calls' = [calls EXCEPT ![Len(calls)].due = IF pair.tracks THEN "tracker" ELSE "reply"]
      /\ UNCHANGED <<ownershipVars, pairConfigs, pairs, tmp, trackerConfig, registryVars, pairVars, now>>

(* The reply to the instantiation of the tracker, and the hook. *)
TrackerInstantiated ==
  /\ ~Idle /\ Innermost.due = "tracker"
  /\ created' = [created EXCEPT ![Innermost.contract].tracker = trackerConfig]
  /\ calls' = [calls EXCEPT ![Len(calls)].due = "reply"]
  /\ UNCHANGED <<ownershipVars, pairConfigs, pairs, tmp, trackerConfig, registryVars, pairVars, now>>

(* The key that the reply finds: a creation within this one has left its   *)
(* own, unless it failed and took it back.                                 *)
RegisterPair_Unchecked ==
  /\ ~Idle /\ Innermost.due = "reply"
  /\ pairs' = [k \in Keys |-> IF k \in tmp THEN Innermost.contract ELSE pairs[k]]
  /\ calls' = SubSeq(calls, 1, Len(calls) - 1)
  /\ UNCHANGED <<ownershipVars, pairConfigs, tmp, created, trackerConfig, registryVars, pairVars, now>>

RegisterPair ==
  /\ ~Idle /\ Innermost.due = "reply"
  /\ \A k \in tmp : pairs[k] = 0
  /\ pairs' = [k \in Keys |-> IF k \in tmp THEN Innermost.contract ELSE pairs[k]]
  /\ calls' = SubSeq(calls, 1, Len(calls) - 1)
  /\ UNCHANGED <<ownershipVars, pairConfigs, tmp, created, trackerConfig, registryVars, pairVars, now>>

(* The instantiation or the reply failed, as a reply does that finds its   *)
(* key taken: the creation never was, nor any within it.  Whoever sent it  *)
(* may carry on.                                                           *)
FailCreation ==
  /\ ~Idle
  /\ tmp' = Innermost.tmp
  /\ pairs' = Innermost.pairs
  /\ calls' = SubSeq(calls, 1, Len(calls) - 1)
  /\ created' = SubSeq(created, 1, Innermost.contract - 1)
  /\ UNCHANGED <<ownershipVars, pairConfigs, trackerConfig, registryVars, pairVars, now>>

Deregister(sender, assets) ==
  /\ Idle
  /\ sender = owner
  /\ pairs[Key(assets)] # 0
  /\ pairs' = [pairs EXCEPT ![Key(assets)] = 0]
  /\ UNCHANGED <<ownershipVars, pairConfigs, tmp, calls, created, trackerConfig, registryVars, pairVars, now>>
-----------------------------------------------------------------------------
(* The coin registry.  Anybody may add a coin that he can send along.      *)

(* The owner of the factory may name another registry, of whatever content. *)
UpdateConfig(sender, content) ==
  /\ Idle
  /\ sender = owner
  /\ registry' = content
  /\ touched' = Coins
  /\ UNCHANGED <<ownershipVars, factoryVars, pairVars, now>>

RegistryOnly == UNCHANGED <<ownershipVars, factoryVars, pairVars, now>>

\* lets the last one who registers decide
RegisterDecimals_Overwriting(coin, decimals) ==
  /\ Idle
  /\ decimals \in Allowed
  /\ registry' = [registry EXCEPT ![coin] = decimals]
  /\ UNCHANGED touched
  /\ RegistryOnly

(* inner_add: only who is asked to add may do so over an entry. *)
InnerAdd(coin, decimals, permissionless) ==
  /\ decimals \in Allowed
  /\ permissionless => registry[coin] = 0
  /\ registry' = [registry EXCEPT ![coin] = decimals]

RegisterDecimals(coin, decimals) ==
  /\ Idle
  /\ InnerAdd(coin, decimals, TRUE)
  /\ UNCHANGED touched
  /\ RegistryOnly

(* Add and Remove of the registry's owner.                                 *)
UpdateDecimals(sender, coin, decimals) ==
  /\ Idle
  /\ sender = Founder
  /\ InnerAdd(coin, decimals, FALSE)
  /\ touched' = touched \union {coin}
  /\ RegistryOnly

RemoveDecimals(sender, coin) ==
  /\ Idle
  /\ sender = Founder
  /\ registry[coin] # 0
  /\ registry' = [registry EXCEPT ![coin] = 0]
  /\ touched' = touched \union {coin}
  /\ RegistryOnly
-----------------------------------------------------------------------------
(* The handovers of the factory and of a pair.                             *)

FactoryHandover(sender) ==
  /\ Idle
  /\ Handover(owner, sender, now)
  /\ UNCHANGED <<factoryVars, registryVars, pairVars, now>>

(* A pair without an owner obeys the owner of the factory.                 *)
PairHandover(sender) ==
  /\ Idle
  /\ PairOwnership!Handover(IF pairOwner = None THEN owner ELSE pairOwner, sender, now)
  /\ UNCHANGED <<ownershipVars, factoryVars, registryVars, now>>

Tick ==
  /\ Idle
  /\ now < MaxTime
  /\ now' = now + 1
  /\ UNCHANGED <<ownershipVars, factoryVars, registryVars, pairVars>>

Next ==
  \/ \E sender \in Accounts, type \in Types, config \in Configs : UpdatePairConfig(sender, type, config)
  \/ \E type \in Types, assets \in AssetSets, tracks \in BOOLEAN : SomebodyCreates(type, assets, tracks)
  \/ DenomCreated
  \/ TrackerInstantiated
  \/ RegisterPair
  \/ FailCreation
  \/ \E sender \in Accounts, assets \in AssetSets : Deregister(sender, assets)
  \/ \E coin \in Coins, decimals \in Decimals :
       \/ RegisterDecimals(coin, decimals)
       \/ \E sender \in Accounts : UpdateDecimals(sender, coin, decimals)
  \/ \E sender \in Accounts, coin \in Coins : RemoveDecimals(sender, coin)
  \/ \E sender \in Accounts, code \in TrackerCodes, withModule \in BOOLEAN :
       UpdateTrackerConfig(sender, code, withModule)
  \/ \E sender \in Accounts, content \in [Coins -> Allowed \union {0}] : UpdateConfig(sender, content)
  \/ \E sender \in Accounts : FactoryHandover(sender) \/ PairHandover(sender)
  \/ Tick

Spec == Init /\ [][Next]_vars
-----------------------------------------------------------------------------
(* The types of the state: no pair type has fees above the limits.         *)
TypeOK ==
  /\ OwnershipTypeOK /\ owner # None /\ PairOwnership!OwnershipTypeOK
  /\ \A t \in Types : pairConfigs[t] # NoConfig => pairConfigs[t].fee <= MaxFee
  /\ pairs \in [Keys -> 0..Len(created)]
  /\ tmp \in SUBSET Keys /\ Cardinality(tmp) <= 1
  /\ registry \in [Coins -> Decimals \union {0}]

(* The pair that the factory names for some assets is a pair of assets     *)
(* with that key, set up to its end, also when creations happen within     *)
(* creations and some of them fail, although all of them share the one     *)
(* slot TMP_PAIR_INFO.                                                     *)
RegisteredServesItsKey ==
  \A k \in Keys : pairs[k] # 0 =>
    LET pair == created[pairs[k]]
    IN  /\ Key(pair.assets) = k
        /\ pair.lpToken
        /\ pair.tracks <=> pair.tracker # 0

(* Two pairs of one coin count it with the same decimals, as long as the   *)
(* registry's owner left the coin alone.                                   *)
PairsAgreeOnDecimals ==
  \A p, q \in 1..Len(created) :
    \A c \in DOMAIN created[p].decimals \intersect DOMAIN created[q].decimals :
      c \notin touched => created[p].decimals[c] = created[q].decimals[c]

(* Whoever becomes the owner of the factory or of a pair was proposed by   *)
(* the one he takes over from, at most MaxTtl ago: no proposal outlives    *)
(* the owner who made it, or its time.  The first owner of a pair was      *)
(* proposed by who owned the factory then: that may be somebody else now.  *)
OwnersChosenInTime ==
  [][/\ owner' # owner => /\ owner' = proposal.owner
                          /\ proposer = owner
                          /\ now <= made + MaxTtl
     /\ pairOwner' # pairOwner => /\ now <= pairMade + MaxTtl
                                  /\ pairOwner # None => pairProposer = pairOwner]_vars
=============================================================================
