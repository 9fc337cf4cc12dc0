--------------------------- MODULE FactoryProofs ----------------------------
(***************************************************************************)
(* The factory for any pair types, assets, keys and depth of creations:    *)
(* what it registers serves the key and is set up to its end, pairs agree  *)
(* on the decimals of untouched coins, and owners are chosen by owners, in *)
(* time.                                                                   *)
(***************************************************************************)
EXTENDS Factory, SequenceTheorems, TLAPS

Contracts == [assets : SUBSET Assets, tracks : BOOLEAN, lpToken : BOOLEAN, tracker : Nat,
              decimals : UNION {[C -> Nat] : C \in SUBSET Coins}]

Frames == [contract : Nat \ {0}, due : {"denom", "tracker", "reply"},
           tmp : SUBSET Keys, pairs : [Keys -> Nat]]

CreationTypes ==
  /\ created \in Seq(Contracts)
  /\ calls \in Seq(Frames)
  /\ pairs \in [Keys -> Nat]
  /\ tmp \in SUBSET Keys
  /\ trackerConfig \in Nat
  /\ registry \in [Coins -> Nat]

(* A pair that was set up to its end. *)
Ready(pair) == pair.lpToken /\ (pair.tracks <=> pair.tracker # 0)

(* The register P names contracts up to n, and the right ones. *)
Serves(contracts, P, n) ==
  \A k \in Keys : P[k] # 0 =>
    /\ P[k] \in 1..n
    /\ Key(contracts[P[k]].assets) = k
    /\ Ready(contracts[P[k]])

(* Creations within creations are of later contracts, and what a creation  *)
(* has saved named earlier ones.                                           *)
Nested ==
  \A j \in 1..Len(calls) :
    /\ calls[j].contract <= Len(created)
    /\ \A i \in 1..(j - 1) : calls[i].contract < calls[j].contract

Saved == \A j \in 1..Len(calls) : Serves(created, calls[j].pairs, calls[j].contract - 1)

(* What a creation has still to do fits what its contract has. *)
Fits(step, pair, code) ==
  /\ step = "denom" => pair.tracker = 0
  /\ step = "tracker" => pair.tracks /\ pair.lpToken /\ code # 0
  /\ step = "reply" => Ready(pair)

Due == \A j \in 1..Len(calls) : Fits(calls[j].due, created[calls[j].contract], trackerConfig)

(* The register and the slot as the j-th creation finds them when all the  *)
(* creations within it have failed: the key in the slot is the contract's  *)
(* own, or is taken.                                                       *)
PairsAt(j) == IF j = Len(calls) THEN pairs ELSE calls[j + 1].pairs
TmpAt(j) == IF j = Len(calls) THEN tmp ELSE calls[j + 1].tmp

SlotFits ==
  \A j \in 1..Len(calls) : \A k \in TmpAt(j) :
    \/ Key(created[calls[j].contract].assets) = k
    \/ PairsAt(j)[k] # 0

CreationInv == CreationTypes /\ Serves(created, pairs, Len(created)) /\ Nested /\ Saved /\ Due /\ SlotFits

(* Every pair keeps what the registry says of the coins left alone. *)
DecimalsInv ==
  \A p \in 1..Len(created) : \A c \in DOMAIN created[p].decimals :
    c \notin touched => created[p].decimals[c] = registry[c] /\ registry[c] # 0

(* The proposals that stand. *)
ProposalsInv ==
  /\ now \in Nat /\ made \in Nat /\ proposal.ttl \in Nat
  /\ pairMade \in Nat /\ pairProposal.ttl \in Nat
  /\ proposal.owner # None => proposer = owner /\ proposal.ttl <= made + MaxTtl
  /\ pairProposal.owner # None =>
       /\ pairProposal.ttl <= pairMade + MaxTtl
       /\ pairOwner # None => pairProposer = pairOwner
-----------------------------------------------------------------------------
(* Handovers.                                                              *)

LEMMA InitProposals == Init => ProposalsInv
BY FactoryAssumption, TtlAssumption
DEF Init, OwnershipInit, NoProposal, PairOwnership!OwnershipInit, PairOwnership!NoProposal, ProposalsInv

LEMMA FactoryHandoverStep ==
  ASSUME ProposalsInv, NEW sender \in Accounts, FactoryHandover(sender)
  PROVE  ProposalsInv' /\ (owner' # owner => owner' = proposal.owner /\ proposer = owner /\ now <= made + MaxTtl)
<1> USE FactoryAssumption, TtlAssumption DEF ProposalsInv, FactoryHandover, pairVars
<1>1. CASE \E candidate \in Accounts, expiresIn \in Ttls :
             ProposeNewOwner(owner, sender, candidate, expiresIn, now)
  <2>1. PICK candidate \in Accounts, expiresIn \in Ttls :
               ProposeNewOwner(owner, sender, candidate, expiresIn, now)
    BY <1>1
  <2>2. /\ owner' = owner /\ proposer' = owner /\ made' = now
        /\ proposal'.ttl = now + expiresIn /\ expiresIn <= MaxTtl
    BY <2>1 DEF ProposeNewOwner
  <2>3. UNCHANGED <<pairOwner, pairProposal, pairProposer, pairMade, now>>
    OBVIOUS
  <2>4. now \in Nat /\ expiresIn \in Nat /\ MaxTtl \in Nat
    OBVIOUS
  <2>5. made' \in Nat /\ proposal'.ttl \in Nat /\ proposal'.ttl <= made' + MaxTtl
    BY ONLY <2>2, <2>4
  <2> QED BY <2>2, <2>3, <2>5
<1>2. CASE DropOwnershipProposal(owner, sender)
  BY <1>2 DEF DropOwnershipProposal, NoProposal
<1>3. CASE ClaimOwnership(sender, now)
  BY <1>3 DEF ClaimOwnership, NoProposal
<1> QED BY <1>1, <1>2, <1>3 DEF Handover

LEMMA PairHandoverStep ==
  ASSUME ProposalsInv, NEW sender \in Accounts, PairHandover(sender)
  PROVE  /\ ProposalsInv'
         /\ pairOwner' # pairOwner => /\ now <= pairMade + MaxTtl
                                      /\ pairOwner # None => pairProposer = pairOwner
<1> DEFINE acting == IF pairOwner = None THEN owner ELSE pairOwner
<1> USE FactoryAssumption, TtlAssumption DEF ProposalsInv, PairHandover, ownershipVars
<1>1. CASE \E candidate \in Accounts, expiresIn \in Ttls :
             PairOwnership!ProposeNewOwner(acting, sender, candidate, expiresIn, now)
  <2>1. PICK candidate \in Accounts, expiresIn \in Ttls :
               PairOwnership!ProposeNewOwner(acting, sender, candidate, expiresIn, now)
    BY <1>1
  <2>2. /\ pairOwner' = pairOwner /\ pairProposer' = acting /\ pairMade' = now
        /\ pairProposal'.ttl = now + expiresIn /\ expiresIn <= MaxTtl
    BY <2>1 DEF PairOwnership!ProposeNewOwner
  <2>3. UNCHANGED <<owner, proposal, proposer, made, now>>
    OBVIOUS
  <2>4. now \in Nat /\ expiresIn \in Nat /\ MaxTtl \in Nat
    OBVIOUS
  <2>5. pairMade' \in Nat /\ pairProposal'.ttl \in Nat /\ pairProposal'.ttl <= pairMade' + MaxTtl
    BY ONLY <2>2, <2>4
  <2> QED BY <2>2, <2>3, <2>5
<1>2. CASE PairOwnership!DropOwnershipProposal(acting, sender)
  BY <1>2 DEF PairOwnership!DropOwnershipProposal, PairOwnership!NoProposal
<1>3. CASE PairOwnership!ClaimOwnership(sender, now)
  BY <1>3 DEF PairOwnership!ClaimOwnership, PairOwnership!NoProposal
<1> QED BY <1>1, <1>2, <1>3 DEF PairOwnership!Handover
-----------------------------------------------------------------------------
(* Creations.                                                              *)

LEMMA Pushed ==
  ASSUME NEW S, NEW s \in Seq(S), NEW e \in S
  PROVE  /\ Append(s, e) \in Seq(S)
         /\ Len(Append(s, e)) = Len(s) + 1
         /\ \A i \in 1..Len(s) : Append(s, e)[i] = s[i]
         /\ Append(s, e)[Len(s) + 1] = e
BY AppendProperties

LEMMA Cut ==
  ASSUME NEW S, NEW s \in Seq(S), NEW n \in 0..Len(s)
  PROVE  /\ SubSeq(s, 1, n) \in Seq(S)
         /\ Len(SubSeq(s, 1, n)) = n
         /\ \A i \in 1..n : SubSeq(s, 1, n)[i] = s[i]
<1>0. Len(s) \in Nat
  BY LenProperties
<1>1. \A i \in 1..(n + 1) : 1 + i - 1 = i
  BY <1>0
<1>2. CASE n = 0
  BY <1>2, <1>0, SubSeqEmpty, EmptySeq, LenProperties
<1>3. CASE n # 0
  <2>1. \A i \in 1..n : s[i] \in S
    BY <1>0, ElementOfSeq
  <2>2. /\ SubSeq(s, 1, n) \in Seq(S)
        /\ Len(SubSeq(s, 1, n)) = n - 1 + 1
        /\ \A i \in 1..(n - 1 + 1) : SubSeq(s, 1, n)[i] = s[1 + i - 1]
    BY <1>0, <1>3, <2>1, SubSeqProperties
  <2> QED BY <1>0, <2>2
<1> QED BY <1>2, <1>3

(* Contracts that keep their assets and stay ready are served as before.   *)
LEMMA ServesKept ==
  ASSUME NEW C, NEW D, NEW P, NEW n, Serves(C, P, n),
         \A p \in 1..n : D[p].assets = C[p].assets /\ (Ready(C[p]) => Ready(D[p]))
  PROVE  Serves(D, P, n)
BY DEF Serves

LEMMA ServesMore ==
  ASSUME NEW C, NEW P, NEW m \in Nat, NEW n \in Nat, m <= n, Serves(C, P, m)
  PROVE  Serves(C, P, n)
BY DEF Serves

LEMMA CallsShape ==
  ASSUME CreationTypes, Nested
  PROVE  /\ Len(calls) \in Nat /\ Len(created) \in Nat
         /\ \A j \in 1..Len(calls) :
              /\ calls[j] \in Frames
              /\ calls[j].contract \in 1..Len(created)
              /\ created[calls[j].contract] \in Contracts
         /\ ~Idle => Len(calls) \in 1..Len(calls)
<1>1. Len(calls) \in Nat /\ Len(created) \in Nat
  BY LenProperties DEF CreationTypes
<1>2. \A j \in 1..Len(calls) : calls[j] \in Frames
  BY ElementOfSeq DEF CreationTypes
<1>3. \A p \in 1..Len(created) : created[p] \in Contracts
  BY ElementOfSeq DEF CreationTypes
<1>4. \A j \in 1..Len(calls) : calls[j].contract \in 1..Len(created)
  BY <1>1, <1>2 DEF Nested, Frames
<1>5. ~Idle => Len(calls) # 0
  BY EmptySeq DEF Idle, CreationTypes
<1> QED BY <1>1, <1>2, <1>3, <1>4, <1>5

LEMMA CreateStep ==
  ASSUME CreationInv, NEW sender, NEW type, NEW assets \in AssetSets, NEW tracks \in BOOLEAN,
         CreatePair(sender, type, assets, tracks)
  PROVE  CreationInv'
<1> DEFINE n == Len(created)
           m == Len(calls)
           pair == [assets |-> assets, tracks |-> tracks,
                    decimals |-> [c \in Kept(type, assets) |-> registry[c]],
                    lpToken |-> FALSE, tracker |-> 0]
           frame == [contract |-> n + 1, due |-> "denom", tmp |-> tmp, pairs |-> pairs]
<1>1. /\ n \in Nat /\ m \in Nat
      /\ \A j \in 1..m : /\ calls[j] \in Frames
                         /\ calls[j].contract \in 1..n
  BY CallsShape DEF CreationInv
<1>2. pair \in Contracts
  <2>1. Kept(type, assets) \subseteq Coins /\ assets \in SUBSET Assets
    BY DEF Kept, AssetSets
  <2>2. [c \in Kept(type, assets) |-> registry[c]] \in [Kept(type, assets) -> Nat]
    BY <2>1 DEF CreationInv, CreationTypes
  <2>3. [c \in Kept(type, assets) |-> registry[c]] \in UNION {[C -> Nat] : C \in SUBSET Coins}
    BY <2>1, <2>2
  <2> QED BY <2>1, <2>3 DEF Contracts
<1>3. /\ created' = Append(created, pair)
      /\ calls' = Append(calls, frame)
      /\ tmp' = {Key(assets)}
      /\ UNCHANGED <<pairs, trackerConfig, registry>>
  BY DEF CreatePair, registryVars
<1>4. frame \in Frames
  BY <1>1 DEF Frames, CreationInv, CreationTypes
<1> HIDE DEF pair, frame
<1>5. /\ created' \in Seq(Contracts) /\ Len(created') = n + 1
      /\ \A p \in 1..n : created'[p] = created[p]
      /\ created'[n + 1] = pair
  BY <1>2, <1>3, Pushed DEF CreationInv, CreationTypes
<1>6. /\ calls' \in Seq(Frames) /\ Len(calls') = m + 1
      /\ \A j \in 1..m : calls'[j] = calls[j]
      /\ calls'[m + 1] = frame
  BY <1>3, <1>4, Pushed DEF CreationInv, CreationTypes
<1>7. /\ frame.contract = n + 1 /\ frame.due = "denom" /\ frame.tmp = tmp /\ frame.pairs = pairs
      /\ pair.assets = assets /\ pair.tracker = 0
  BY DEF frame, pair
<1> HIDE DEF n, m
<1>8. CreationTypes'
  BY <1>3, <1>5, <1>6, FactoryAssumption DEF CreationInv, CreationTypes, AssetSets
<1>9. Serves(created', pairs, n)
  BY <1>5, ServesKept DEF CreationInv, n
<1>10. Serves(created, pairs, Len(created))'
  BY <1>1, <1>3, <1>5, <1>9, ServesMore
<1>11. Nested'
  BY <1>1, <1>5, <1>6, <1>7 DEF CreationInv, Nested, n, m
<1>12. Saved'
  <2> SUFFICES ASSUME NEW j \in 1..(m + 1)
               PROVE  Serves(created', calls'[j].pairs, calls'[j].contract - 1)
    BY <1>6 DEF Saved
  <2>1. CASE j = m + 1
    BY <2>1, <1>1, <1>6, <1>7, <1>9
  <2>2. CASE j \in 1..m
    <3>1. Serves(created, calls[j].pairs, calls[j].contract - 1)
      BY <2>2 DEF CreationInv, Saved, m
    <3>2. \A p \in 1..(calls[j].contract - 1) : created'[p] = created[p]
      BY <1>1, <1>5, <2>2
    <3> QED BY <3>1, <3>2, <1>6, <2>2, ServesKept
  <2> QED BY <2>1, <2>2, <1>1
<1>13. Due'
  <2> SUFFICES ASSUME NEW j \in 1..(m + 1)
               PROVE  Fits(calls'[j].due, created'[calls'[j].contract], trackerConfig)
    BY <1>3, <1>6 DEF Due
  <2>1. CASE j = m + 1
    BY <2>1, <1>5, <1>6, <1>7 DEF Fits
  <2>2. CASE j \in 1..m
    <3>1. Fits(calls[j].due, created[calls[j].contract], trackerConfig)
      BY <2>2 DEF CreationInv, Due, m
    <3> QED BY <3>1, <1>1, <1>5, <1>6, <2>2
  <2> QED BY <2>1, <2>2, <1>1
<1>14. SlotFits'
  <2> SUFFICES ASSUME NEW j \in 1..(m + 1), NEW k \in TmpAt(j)'
               PROVE  Key(created'[calls'[j].contract].assets) = k \/ PairsAt(j)'[k] # 0
    BY <1>6 DEF SlotFits
  <2>1. CASE j = m + 1
    BY <2>1, <1>3, <1>5, <1>6, <1>7 DEF TmpAt
  <2>2. CASE j \in 1..m
    <3>1. TmpAt(j)' = TmpAt(j) /\ PairsAt(j)' = PairsAt(j)
      <4>1. CASE j = m
        BY <4>1, <1>1, <1>6, <1>7 DEF TmpAt, PairsAt, m
      <4>2. CASE j \in 1..(m - 1)
        <5>1. j + 1 \in 1..m /\ j # m /\ j # m + 1
          BY <4>2, <1>1
        <5>2. calls'[j + 1] = calls[j + 1]
          BY <5>1, <1>6
        <5> QED BY <5>1, <5>2, <1>6 DEF TmpAt, PairsAt, m
      <4> QED BY <4>1, <4>2, <2>2, <1>1
    <3> QED BY <3>1, <2>2, <1>1, <1>5, <1>6 DEF CreationInv, SlotFits, m
  <2> QED BY <2>1, <2>2, <1>1
<1> QED BY <1>8, <1>10, <1>11, <1>12, <1>13, <1>14 DEF CreationInv

(* A step of the innermost creation that changes its own contract.         *)
LEMMA SetUpStep ==
  ASSUME CreationInv, ~Idle, NEW pair \in Contracts, NEW step \in {"denom", "tracker", "reply"},
         pair.assets = created[Innermost.contract].assets,
         Ready(created[Innermost.contract]) => Ready(pair),
         Fits(step, pair, trackerConfig),
         created' = [created EXCEPT ![Innermost.contract] = pair],
         calls' = [calls EXCEPT ![Len(calls)].due = step],
         UNCHANGED <<pairs, tmp, trackerConfig, registry>>
  PROVE  CreationInv'
<1> DEFINE n == Len(created)
           m == Len(calls)
           c == Innermost.contract
           frame == [calls[m] EXCEPT !.due = step]
<1>1. /\ n \in Nat /\ m \in Nat /\ m \in 1..m
      /\ \A j \in 1..m : /\ calls[j] \in Frames
                         /\ calls[j].contract \in 1..n
      /\ c \in 1..n
      /\ c = calls[m].contract
  BY CallsShape DEF CreationInv, Innermost
<1>2. \A j \in 1..m : j # m => calls[j].contract < c
  <2> SUFFICES ASSUME NEW j \in 1..m, j # m PROVE calls[j].contract < c
    OBVIOUS
  <2>1. j \in 1..(m - 1)
    BY <1>1
  <2> QED BY <2>1, <1>1 DEF CreationInv, Nested
<1>3. /\ frame \in Frames /\ frame.contract = c /\ frame.due = step
      /\ frame.tmp = calls[m].tmp /\ frame.pairs = calls[m].pairs
  BY <1>1 DEF Frames
<1>4. calls' = [calls EXCEPT ![m] = frame]
  OBVIOUS
<1> HIDE DEF frame, c
<1>5. /\ created' \in Seq(Contracts) /\ Len(created') = n
      /\ \A p \in 1..n : created'[p] = IF p = c THEN pair ELSE created[p]
  BY <1>1, ExceptSeq DEF CreationInv, CreationTypes, c
<1>6. /\ calls' \in Seq(Frames) /\ Len(calls') = m
      /\ \A j \in 1..m : calls'[j] = IF j = m THEN frame ELSE calls[j]
  <2>1. calls \in Seq(Frames) /\ m \in 1..Len(calls)
    BY <1>1 DEF CreationInv, CreationTypes
  <2>2. /\ [calls EXCEPT ![m] = frame] \in Seq(Frames)
        /\ Len([calls EXCEPT ![m] = frame]) = Len(calls)
        /\ \A j \in 1..Len(calls) : [calls EXCEPT ![m] = frame][j] = IF j = m THEN frame ELSE calls[j]
    BY <2>1, <1>3, ExceptSeq
  <2> QED BY <2>2, <1>4
<1>7. \A p \in 1..n : /\ created'[p].assets = created[p].assets
                     /\ Ready(created[p]) => Ready(created'[p])
  BY <1>5 DEF c
<1>8. \A j \in 1..m : /\ calls'[j].contract = calls[j].contract
                     /\ calls'[j].tmp = calls[j].tmp /\ calls'[j].pairs = calls[j].pairs
  BY <1>1, <1>3, <1>6
<1> HIDE DEF n, m
<1>9. CreationTypes'
  BY <1>5, <1>6 DEF CreationInv, CreationTypes
<1>10. Serves(created, pairs, Len(created))'
  <2>1. Serves(created', pairs, n)
    BY <1>7 DEF CreationInv, n, Serves
  <2> QED BY <2>1, <1>5
<1>11. Nested'
  BY <1>1, <1>5, <1>6, <1>8 DEF CreationInv, Nested, n, m
<1>12. Saved'
  <2> SUFFICES ASSUME NEW j \in 1..m
               PROVE  Serves(created', calls'[j].pairs, calls'[j].contract - 1)
    BY <1>6 DEF Saved
  <2>1. Serves(created, calls[j].pairs, calls[j].contract - 1)
    BY DEF CreationInv, Saved, m
  <2>2. \A p \in 1..(calls[j].contract - 1) : p \in 1..n
    BY <1>1
  <2> QED BY <2>1, <2>2, <1>7, <1>8 DEF Serves
<1>13. Due'
  <2> SUFFICES ASSUME NEW j \in 1..m
               PROVE  Fits(calls'[j].due, created'[calls'[j].contract], trackerConfig)
    BY <1>6 DEF Due
  <2>1. CASE j = m
    BY <2>1, <1>1, <1>3, <1>5, <1>6
  <2>2. CASE j # m
    <3>1. Fits(calls[j].due, created[calls[j].contract], trackerConfig)
      BY DEF CreationInv, Due, m
    <3>2. calls[j].contract # c
      BY <1>1, <1>2, <2>2
    <3> QED BY <3>1, <3>2, <2>2, <1>1, <1>5, <1>6
  <2> QED BY <2>1, <2>2
<1>14. SlotFits'
  <2> SUFFICES ASSUME NEW j \in 1..m, NEW k \in TmpAt(j)'
               PROVE  Key(created'[calls'[j].contract].assets) = k \/ PairsAt(j)'[k] # 0
    BY <1>6 DEF SlotFits
  <2>1. TmpAt(j)' = TmpAt(j) /\ PairsAt(j)' = PairsAt(j)
    <3>1. CASE j = m
      BY <3>1, <1>6 DEF TmpAt, PairsAt, m
    <3>2. CASE j # m
      <4>1. j + 1 \in 1..m
        BY <3>2, <1>1
      <4> QED BY <4>1, <3>2, <1>6, <1>8 DEF TmpAt, PairsAt, m
    <3> QED BY <3>1, <3>2
  <2> QED BY <2>1, <1>1, <1>7, <1>8 DEF CreationInv, SlotFits, m
<1> QED BY <1>9, <1>10, <1>11, <1>12, <1>13, <1>14 DEF CreationInv

LEMMA DenomCreatedStep ==
  ASSUME CreationInv, DenomCreated
  PROVE  CreationInv'
<1> DEFINE old == created[Innermost.contract]
           pair == [old EXCEPT !.lpToken = TRUE]
           step == IF old.tracks THEN "tracker" ELSE "reply"
<1>1. /\ ~Idle /\ old \in Contracts
      /\ Fits("denom", old, trackerConfig)
  BY CallsShape DEF CreationInv, DenomCreated, Innermost, Due
<1>2. /\ pair \in Contracts /\ pair.assets = old.assets /\ pair.lpToken
      /\ pair.tracks = old.tracks /\ pair.tracker = old.tracker
  BY <1>1 DEF Contracts
<1>3. /\ created' = [created EXCEPT ![Innermost.contract] = pair]
      /\ calls' = [calls EXCEPT ![Len(calls)].due = step]
      /\ UNCHANGED <<pairs, tmp, trackerConfig, registry>>
      /\ old.tracks => trackerConfig # 0
  BY DEF DenomCreated, registryVars
<1>4. old.tracks \in BOOLEAN
  BY <1>1 DEF Contracts
<1>5. Ready(old) => Ready(pair)
  BY <1>2 DEF Ready
<1>6. Fits(step, pair, trackerConfig)
  BY <1>1, <1>2, <1>3, <1>4 DEF Fits, Ready
<1>7. step \in {"denom", "tracker", "reply"}
  OBVIOUS
<1> HIDE DEF pair, step
<1> QED BY <1>1, <1>2, <1>3, <1>5, <1>6, <1>7, SetUpStep

LEMMA TrackerStep ==
  ASSUME CreationInv, TrackerInstantiated
  PROVE  CreationInv'
<1> DEFINE old == created[Innermost.contract]
           pair == [old EXCEPT !.tracker = trackerConfig]
<1>1. /\ ~Idle /\ old \in Contracts
      /\ Fits("tracker", old, trackerConfig)
  BY CallsShape DEF CreationInv, TrackerInstantiated, Innermost, Due
<1>2. /\ pair \in Contracts /\ pair.assets = old.assets /\ pair.lpToken = old.lpToken
      /\ pair.tracks = old.tracks /\ pair.tracker = trackerConfig
  BY <1>1 DEF Contracts, CreationInv, CreationTypes
<1>3. /\ created' = [created EXCEPT ![Innermost.contract] = pair]
      /\ calls' = [calls EXCEPT ![Len(calls)].due = "reply"]
      /\ UNCHANGED <<pairs, tmp, trackerConfig, registry>>
  BY DEF TrackerInstantiated, registryVars
<1>4. Ready(pair) /\ Fits("reply", pair, trackerConfig)
  BY <1>1, <1>2 DEF Fits, Ready
<1> HIDE DEF pair
<1> QED BY <1>1, <1>2, <1>3, <1>4, SetUpStep

(* The innermost creation is over, and the stack without it.               *)
LEMMA StackCut ==
  ASSUME CreationInv, ~Idle, calls' = SubSeq(calls, 1, Len(calls) - 1)
  PROVE  LET m == Len(calls)
         IN  /\ m \in Nat \ {0} /\ Innermost = calls[m]
             /\ \A j \in 1..m : calls[j] \in Frames /\ calls[j].contract \in 1..Len(created)
             /\ \A j \in 1..(m - 1) : calls[j].contract < Innermost.contract
             /\ calls' \in Seq(Frames)
             /\ Len(calls') = m - 1
             /\ \A j \in 1..(m - 1) : calls'[j] = calls[j]
<1> DEFINE m == Len(calls)
<1>1. /\ m \in Nat \ {0} /\ m \in 1..m /\ m - 1 \in 0..m
      /\ \A j \in 1..m : calls[j] \in Frames /\ calls[j].contract \in 1..Len(created)
      /\ calls \in Seq(Frames)
  BY CallsShape DEF CreationInv, CreationTypes
<1>2. \A j \in 1..(m - 1) : calls[j].contract < calls[m].contract
  BY <1>1 DEF CreationInv, Nested
<1>3. /\ SubSeq(calls, 1, m - 1) \in Seq(Frames)
      /\ Len(SubSeq(calls, 1, m - 1)) = m - 1
      /\ \A j \in 1..(m - 1) : SubSeq(calls, 1, m - 1)[j] = calls[j]
  BY <1>1, Cut
<1> QED BY <1>1, <1>2, <1>3 DEF Innermost

LEMMA RegisterStep ==
  ASSUME CreationInv, RegisterPair
  PROVE  CreationInv'
<1> DEFINE n == Len(created)
           m == Len(calls)
           c == Innermost.contract
<1>1. /\ ~Idle /\ Innermost.due = "reply" /\ \A k \in tmp : pairs[k] = 0
      /\ pairs' = [k \in Keys |-> IF k \in tmp THEN c ELSE pairs[k]]
      /\ calls' = SubSeq(calls, 1, Len(calls) - 1)
      /\ UNCHANGED <<created, tmp, trackerConfig, registry>>
  BY DEF RegisterPair, registryVars
<1>2. /\ m \in Nat \ {0} /\ Innermost = calls[m]
      /\ \A j \in 1..m : calls[j] \in Frames /\ calls[j].contract \in 1..n
      /\ \A j \in 1..(m - 1) : calls[j].contract < c
      /\ calls' \in Seq(Frames)
      /\ Len(calls') = m - 1
      /\ \A j \in 1..(m - 1) : calls'[j] = calls[j]
  BY <1>1, StackCut
<1>3. n \in Nat /\ c \in 1..n /\ m \in 1..m
  BY <1>2, CallsShape DEF CreationInv
<1>4. Ready(created[c])
  BY <1>1, <1>2, <1>3 DEF CreationInv, Due, Fits
<1>5. \A k \in tmp : Key(created[c].assets) = k
  BY <1>1, <1>2, <1>3 DEF CreationInv, SlotFits, TmpAt, PairsAt
<1> HIDE DEF n, m, c
<1>6. CreationTypes'
  BY <1>1, <1>2, <1>3 DEF CreationInv, CreationTypes
<1>7. Serves(created, pairs', n)
  BY <1>1, <1>3, <1>4, <1>5 DEF CreationInv, Serves, n
<1>8. Nested'
  BY <1>1, <1>2 DEF CreationInv, Nested, m
<1>9. Saved'
  <2> SUFFICES ASSUME NEW j \in 1..(m - 1)
               PROVE  Serves(created, calls'[j].pairs, calls'[j].contract - 1)
    BY <1>1, <1>2 DEF Saved
  <2> QED BY <1>2 DEF CreationInv, Saved, m
<1>10. Due'
  <2> SUFFICES ASSUME NEW j \in 1..(m - 1)
               PROVE  Fits(calls'[j].due, created[calls'[j].contract], trackerConfig)
    BY <1>1, <1>2 DEF Due
  <2> QED BY <1>2 DEF CreationInv, Due, m
<1>11. SlotFits'
  <2> SUFFICES ASSUME NEW j \in 1..(m - 1), NEW k \in TmpAt(j)'
               PROVE  Key(created'[calls'[j].contract].assets) = k \/ PairsAt(j)'[k] # 0
    BY <1>2 DEF SlotFits
  <2>1. CASE j = m - 1
    <3>1. k \in tmp /\ PairsAt(j)' = pairs'
      BY <2>1, <1>1, <1>2 DEF TmpAt, PairsAt
    <3> QED BY <3>1, <1>1, <1>3 DEF CreationInv, CreationTypes
  <2>2. CASE j # m - 1
    <3>1. j + 1 \in 1..(m - 1) /\ j # m /\ j \in 1..m
      BY <2>2, <1>2
    <3>2. TmpAt(j)' = TmpAt(j) /\ PairsAt(j)' = PairsAt(j)
      BY <3>1, <2>2, <1>2 DEF TmpAt, PairsAt, m
    <3> QED BY <3>1, <3>2, <1>1, <1>2 DEF CreationInv, SlotFits, m
  <2> QED BY <2>1, <2>2
<1> QED BY <1>1, <1>6, <1>7, <1>8, <1>9, <1>10, <1>11 DEF CreationInv, n

LEMMA FailStep ==
  ASSUME CreationInv, FailCreation
  PROVE  CreationInv'
<1> DEFINE m == Len(calls)
           c == Innermost.contract
<1>1. /\ ~Idle
      /\ tmp' = Innermost.tmp /\ pairs' = Innermost.pairs
      /\ calls' = SubSeq(calls, 1, Len(calls) - 1)
      /\ created' = SubSeq(created, 1, c - 1)
      /\ UNCHANGED <<trackerConfig, registry>>
  BY DEF FailCreation, registryVars
<1>2. /\ m \in Nat \ {0} /\ Innermost = calls[m]
      /\ \A j \in 1..m : calls[j] \in Frames /\ calls[j].contract \in 1..Len(created)
      /\ \A j \in 1..(m - 1) : calls[j].contract < c
      /\ calls' \in Seq(Frames)
      /\ Len(calls') = m - 1
      /\ \A j \in 1..(m - 1) : calls'[j] = calls[j]
  BY <1>1, StackCut
<1>3. Len(created) \in Nat /\ c \in 1..Len(created) /\ m \in 1..m /\ calls[m] \in Frames
  BY <1>2, CallsShape DEF CreationInv
<1>4. /\ created' \in Seq(Contracts) /\ Len(created') = c - 1
      /\ \A p \in 1..(c - 1) : created'[p] = created[p]
  <2>1. created \in Seq(Contracts) /\ c - 1 \in 0..Len(created)
    BY <1>3 DEF CreationInv, CreationTypes
  <2> HIDE DEF c
  <2> QED BY <2>1, <1>1, Cut
<1> HIDE DEF m, c
<1>5. CreationTypes'
  BY <1>1, <1>2, <1>3, <1>4 DEF CreationInv, CreationTypes, Frames
<1>6. Serves(created', pairs', c - 1)
  <2>1. Serves(created, pairs', c - 1)
    BY <1>1, <1>2, <1>3 DEF CreationInv, Saved, m, c
  <2> QED BY <2>1, <1>4 DEF Serves
<1>7. Nested'
  <2> SUFFICES ASSUME NEW j \in 1..(m - 1)
               PROVE  /\ calls'[j].contract <= c - 1
                      /\ \A i \in 1..(j - 1) : calls'[i].contract < calls'[j].contract
    BY <1>2, <1>4 DEF Nested
  <2>1. calls'[j].contract <= c - 1
    BY <1>2, <1>3
  <2>2. \A i \in 1..(j - 1) : calls[i].contract < calls[j].contract
    BY <1>2 DEF CreationInv, Nested, m
  <2> QED BY <2>1, <2>2, <1>2
<1>8. Saved'
  <2> SUFFICES ASSUME NEW j \in 1..(m - 1)
               PROVE  Serves(created', calls'[j].pairs, calls'[j].contract - 1)
    BY <1>2 DEF Saved
  <2>1. Serves(created, calls[j].pairs, calls[j].contract - 1)
    BY <1>2 DEF CreationInv, Saved, m
  <2>2. \A p \in 1..(calls[j].contract - 1) : created'[p] = created[p]
    BY <1>2, <1>3, <1>4
  <2> QED BY <2>1, <2>2, <1>2 DEF Serves
<1>9. \A j \in 1..(m - 1) : created'[calls'[j].contract] = created[calls[j].contract]
  BY <1>2, <1>3, <1>4
<1>10. Due'
  <2> SUFFICES ASSUME NEW j \in 1..(m - 1)
               PROVE  Fits(calls'[j].due, created'[calls'[j].contract], trackerConfig)
    BY <1>1, <1>2 DEF Due
  <2> QED BY <1>2, <1>9 DEF CreationInv, Due, m
<1>11. SlotFits'
  <2> SUFFICES ASSUME NEW j \in 1..(m - 1), NEW k \in TmpAt(j)'
               PROVE  Key(created'[calls'[j].contract].assets) = k \/ PairsAt(j)'[k] # 0
    BY <1>2 DEF SlotFits
  <2>1. TmpAt(j)' = TmpAt(j) /\ PairsAt(j)' = PairsAt(j)
    <3>1. CASE j = m - 1
      BY <3>1, <1>1, <1>2 DEF TmpAt, PairsAt, m
    <3>2. CASE j # m - 1
      <4>1. j + 1 \in 1..(m - 1) /\ j # m
        BY <3>2, <1>2
      <4> QED BY <4>1, <3>2, <1>2 DEF TmpAt, PairsAt, m
    <3> QED BY <3>1, <3>2
  <2> QED BY <2>1, <1>2, <1>9 DEF CreationInv, SlotFits, m
<1> QED BY <1>4, <1>5, <1>6, <1>7, <1>8, <1>10, <1>11 DEF CreationInv

LEMMA DeregisterStep ==
  ASSUME CreationInv, NEW sender, NEW assets, Deregister(sender, assets)
  PROVE  CreationInv'
<1>1. /\ Idle /\ calls = <<>> /\ Len(calls) = 0
      /\ pairs' = [pairs EXCEPT ![Key(assets)] = 0]
      /\ UNCHANGED <<calls, created, tmp, trackerConfig, registry>>
  BY EmptySeq DEF Deregister, Idle, registryVars
<1>2. CreationTypes'
  BY <1>1 DEF CreationInv, CreationTypes
<1>3. Serves(created, pairs', Len(created))
  BY <1>1 DEF CreationInv, CreationTypes, Serves
<1>4. Nested' /\ Saved' /\ Due' /\ SlotFits'
  BY <1>1 DEF Nested, Saved, Due, SlotFits
<1> QED BY <1>1, <1>2, <1>3, <1>4 DEF CreationInv

LEMMA TrackerConfigStep ==
  ASSUME CreationInv, NEW sender, NEW code \in TrackerCodes, NEW withModule,
         UpdateTrackerConfig(sender, code, withModule)
  PROVE  CreationInv'
<1>1. /\ calls = <<>> /\ Len(calls) = 0 /\ trackerConfig' = code
      /\ UNCHANGED <<pairs, calls, created, tmp, registry>>
  BY EmptySeq DEF UpdateTrackerConfig, Idle, registryVars, creationVars
<1>2. CreationTypes'
  BY <1>1, FactoryAssumption DEF CreationInv, CreationTypes
<1>3. Nested' /\ Saved' /\ Due' /\ SlotFits'
  BY <1>1 DEF Nested, Saved, Due, SlotFits
<1> QED BY <1>1, <1>2, <1>3 DEF CreationInv

(* Any other step leaves the creations alone.                              *)
LEMMA OtherStep ==
  ASSUME CreationInv, registry' \in [Coins -> Nat],
         UNCHANGED <<pairs, calls, created, tmp, trackerConfig>>
  PROVE  CreationInv'
BY DEF CreationInv, CreationTypes, Nested, Saved, Due, SlotFits, TmpAt, PairsAt

LEMMA InitCreation == Init => CreationInv
<1> SUFFICES ASSUME Init PROVE CreationInv
  OBVIOUS
<1>1. /\ calls = <<>> /\ Len(calls) = 0 /\ calls \in Seq(Frames)
      /\ created = <<>> /\ Len(created) = 0 /\ created \in Seq(Contracts)
  BY EmptySeq DEF Init
<1>2. CreationTypes
  BY <1>1 DEF Init, CreationTypes
<1>3. Serves(created, pairs, Len(created))
  BY DEF Init, Serves
<1>4. Nested /\ Saved /\ Due /\ SlotFits
  BY <1>1 DEF Nested, Saved, Due, SlotFits
<1> QED BY <1>2, <1>3, <1>4 DEF CreationInv

LEMMA RegistrySteps ==
  ASSUME CreationInv,
         \/ \E coin \in Coins, decimals \in Decimals : RegisterDecimals(coin, decimals)
         \/ \E coin \in Coins, decimals \in Decimals, sender \in Accounts : UpdateDecimals(sender, coin, decimals)
         \/ \E sender \in Accounts, coin \in Coins : RemoveDecimals(sender, coin)
         \/ \E sender \in Accounts, content \in [Coins -> Allowed \union {0}] : UpdateConfig(sender, content)
  PROVE  CreationInv'
<1> USE FactoryAssumption DEF CreationInv, CreationTypes
<1>1. registry' \in [Coins -> Nat]
  <2>1. CASE \E coin \in Coins, decimals \in Decimals : RegisterDecimals(coin, decimals)
    BY <2>1 DEF RegisterDecimals, InnerAdd
  <2>2. CASE \E coin \in Coins, decimals \in Decimals, sender \in Accounts : UpdateDecimals(sender, coin, decimals)
    BY <2>2 DEF UpdateDecimals, InnerAdd
  <2>3. CASE \E sender \in Accounts, coin \in Coins : RemoveDecimals(sender, coin)
    BY <2>3 DEF RemoveDecimals
  <2>4. CASE \E sender \in Accounts, content \in [Coins -> Allowed \union {0}] : UpdateConfig(sender, content)
    <3>1. PICK content \in [Coins -> Allowed \union {0}] : registry' = content
      BY <2>4 DEF UpdateConfig
    <3>2. Allowed \union {0} \subseteq Nat
      OBVIOUS
    <3> QED BY <3>1, <3>2
  <2> QED BY <2>1, <2>2, <2>3, <2>4
<1>2. UNCHANGED <<pairs, calls, created, tmp, trackerConfig>>
  BY DEF RegisterDecimals, UpdateDecimals, RemoveDecimals, UpdateConfig, RegistryOnly, factoryVars, creationVars, InnerAdd
<1> QED BY <1>1, <1>2, OtherStep

LEMMA CreationStep ==
  ASSUME CreationInv, [Next]_vars
  PROVE  CreationInv'
<1>1. CASE \E sender \in Accounts, type \in Types, config \in Configs : UpdatePairConfig(sender, type, config)
  BY <1>1, OtherStep DEF UpdatePairConfig, registryVars, CreationInv, CreationTypes
<1>2. CASE \E type \in Types, assets \in AssetSets, tracks \in BOOLEAN : SomebodyCreates(type, assets, tracks)
  BY <1>2, CreateStep DEF SomebodyCreates
<1>3. CASE DenomCreated
  BY <1>3, DenomCreatedStep
<1>4. CASE TrackerInstantiated
  BY <1>4, TrackerStep
<1>5. CASE RegisterPair
  BY <1>5, RegisterStep
<1>6. CASE FailCreation
  BY <1>6, FailStep
<1>7. CASE \E sender \in Accounts, assets \in AssetSets : Deregister(sender, assets)
  BY <1>7, DeregisterStep
<1>8. CASE \E coin \in Coins, decimals \in Decimals :
             \/ RegisterDecimals(coin, decimals)
             \/ \E sender \in Accounts : UpdateDecimals(sender, coin, decimals)
  BY <1>8, RegistrySteps
<1>9. CASE \E sender \in Accounts, coin \in Coins : RemoveDecimals(sender, coin)
  BY <1>9, RegistrySteps
<1>10. CASE \E sender \in Accounts, code \in TrackerCodes, withModule \in BOOLEAN :
              UpdateTrackerConfig(sender, code, withModule)
  BY <1>10, TrackerConfigStep
<1>11. CASE \E sender \in Accounts, content \in [Coins -> Allowed \union {0}] : UpdateConfig(sender, content)
  BY <1>11, RegistrySteps
<1>12. CASE \E sender \in Accounts : FactoryHandover(sender) \/ PairHandover(sender)
  BY <1>12, OtherStep DEF FactoryHandover, PairHandover, registryVars, factoryVars, creationVars, CreationInv, CreationTypes
<1>13. CASE Tick \/ UNCHANGED vars
  BY <1>13, OtherStep DEF Tick, vars, registryVars, factoryVars, creationVars, CreationInv, CreationTypes
<1> QED BY <1>1, <1>2, <1>3, <1>4, <1>5, <1>6, <1>7, <1>8, <1>9, <1>10, <1>11, <1>12, <1>13 DEF Next

(* The pair that the factory names for some assets is a pair of assets     *)
(* with that key, set up to its end (execute_create_pair, reply), for any  *)
(* nesting and failing of creations.                                       *)
THEOREM RegisteredServes == Spec => []RegisteredServesItsKey
<1>1. CreationInv => RegisteredServesItsKey
  BY DEF CreationInv, Serves, Ready, RegisteredServesItsKey
<1> QED BY InitCreation, CreationStep, <1>1, PTL DEF Spec
-----------------------------------------------------------------------------
(* Decimals.                                                               *)

LEMMA InitDecimals == Init => DecimalsInv
BY EmptySeq DEF Init, DecimalsInv

(* Contracts that were there keep their decimals, new ones take the        *)
(* registry's, and the registry changes only what is touched or empty.     *)
LEMMA DecimalsKept ==
  ASSUME DecimalsInv, touched \subseteq touched',
         \A c \in Coins : c \notin touched' /\ registry[c] # 0 => registry'[c] = registry[c],
         \A p \in 1..Len(created') :
           /\ DOMAIN created'[p].decimals \subseteq Coins
           /\ \/ p \in 1..Len(created) /\ created'[p].decimals = created[p].decimals
              \/ \A c \in DOMAIN created'[p].decimals :
                   created'[p].decimals[c] = registry'[c] /\ registry'[c] # 0
  PROVE  DecimalsInv'
<1> SUFFICES ASSUME NEW p \in 1..Len(created'), NEW c \in DOMAIN created'[p].decimals, c \notin touched'
             PROVE  created'[p].decimals[c] = registry'[c] /\ registry'[c] # 0
  BY DEF DecimalsInv
<1>1. CASE p \in 1..Len(created) /\ created'[p].decimals = created[p].decimals
  <2>1. created[p].decimals[c] = registry[c] /\ registry[c] # 0
    BY <1>1 DEF DecimalsInv
  <2> QED BY <2>1, <1>1
<1> QED BY <1>1

LEMMA CoinsOfContracts ==
  ASSUME NEW contracts \in Seq(Contracts)
  PROVE  \A p \in 1..Len(contracts) : DOMAIN contracts[p].decimals \subseteq Coins
<1>1. \A p \in 1..Len(contracts) : contracts[p] \in Contracts
  BY ElementOfSeq
<1> QED BY <1>1 DEF Contracts

LEMMA DecimalsStep ==
  ASSUME CreationInv, CreationInv', DecimalsInv, [Next]_vars
  PROVE  DecimalsInv'
<1>0. /\ Len(created) \in Nat
      /\ \A p \in 1..Len(created) : DOMAIN created[p].decimals \subseteq Coins
      /\ \A p \in 1..Len(created') : DOMAIN created'[p].decimals \subseteq Coins
  BY CoinsOfContracts, LenProperties DEF CreationInv, CreationTypes
<1>1. CASE \E type \in Types, assets \in AssetSets, tracks \in BOOLEAN : SomebodyCreates(type, assets, tracks)
  <2>1. PICK type \in Types, assets \in AssetSets, tracks \in BOOLEAN, sender \in Accounts \union {None} :
          CreatePair(sender, type, assets, tracks)
    BY <1>1 DEF SomebodyCreates
  <2> DEFINE pair == [assets |-> assets, tracks |-> tracks,
                      decimals |-> [c \in Kept(type, assets) |-> registry[c]],
                      lpToken |-> FALSE, tracker |-> 0]
  <2>2. /\ created' = Append(created, pair)
        /\ UNCHANGED <<registry, touched>>
        /\ \A c \in Kept(type, assets) : registry[c] # 0
    BY <2>1 DEF CreatePair, registryVars, Kept
  <2>3. /\ pair.decimals = [c \in Kept(type, assets) |-> registry[c]]
        /\ DOMAIN pair.decimals = Kept(type, assets)
    OBVIOUS
  <2> HIDE DEF pair
  <2>4. /\ Len(created') = Len(created) + 1
        /\ \A p \in 1..Len(created) : created'[p] = created[p]
        /\ created'[Len(created) + 1] = pair
    BY <2>2, AppendProperties DEF CreationInv, CreationTypes
  <2>5. \A c \in DOMAIN pair.decimals : pair.decimals[c] = registry'[c] /\ registry'[c] # 0
    BY <2>2, <2>3
  <2>6. \A p \in 1..Len(created') : p \in 1..Len(created) \/ p = Len(created) + 1
    BY <1>0, <2>4
  <2> QED BY <1>0, <2>2, <2>4, <2>5, <2>6, DecimalsKept
<1>2. CASE FailCreation
  <2> DEFINE n == Innermost.contract - 1
  <2>1. /\ created' = SubSeq(created, 1, n)
        /\ UNCHANGED <<registry, touched>>
    BY <1>2 DEF FailCreation, registryVars
  <2>2. n \in 0..Len(created)
    <3>1. Len(calls) \in 1..Len(calls)
      BY <1>2, CallsShape DEF FailCreation, CreationInv
    <3>2. calls[Len(calls)].contract \in 1..Len(created)
      BY <3>1, CallsShape DEF CreationInv
    <3> QED BY <1>0, <3>2 DEF Innermost
  <2>3. Len(created') = n /\ \A p \in 1..n : created'[p] = created[p]
    BY <2>1, <2>2, Cut DEF CreationInv, CreationTypes
  <2>4. \A p \in 1..n : p \in 1..Len(created)
    BY <1>0, <2>2
  <2> QED BY <1>0, <2>1, <2>3, <2>4, DecimalsKept
<1>3. CASE DenomCreated \/ TrackerInstantiated
  <2> DEFINE c == Innermost.contract
  <2>1. c \in 1..Len(created) /\ created[c] \in Contracts
    BY <1>3, CallsShape DEF DenomCreated, TrackerInstantiated, Innermost, CreationInv
  <2>2. PICK pair \in {[created[c] EXCEPT !.lpToken = TRUE], [created[c] EXCEPT !.tracker = trackerConfig]} :
          created' = [created EXCEPT ![c] = pair] /\ UNCHANGED <<registry, touched>>
    BY <1>3 DEF DenomCreated, TrackerInstantiated, registryVars
  <2>3. pair.decimals = created[c].decimals /\ pair \in Contracts
    BY <2>1, <2>2 DEF Contracts, CreationInv, CreationTypes
  <2> HIDE DEF c
  <2>4. Len(created') = Len(created) /\ \A p \in 1..Len(created) : created'[p] = IF p = c THEN pair ELSE created[p]
    BY <2>1, <2>2, <2>3, ExceptSeq DEF CreationInv, CreationTypes
  <2> QED BY <1>0, <2>2, <2>3, <2>4, DecimalsKept
<1>4. CASE /\ created' = created
           /\ touched \subseteq touched'
           /\ \A c \in Coins : c \notin touched' /\ registry[c] # 0 => registry'[c] = registry[c]
  BY <1>0, <1>4, DecimalsKept
<1>5. CASE \/ \E coin \in Coins, decimals \in Decimals :
                \/ RegisterDecimals(coin, decimals)
                \/ \E sender \in Accounts : UpdateDecimals(sender, coin, decimals)
           \/ \E sender \in Accounts, coin \in Coins : RemoveDecimals(sender, coin)
           \/ \E sender \in Accounts, content \in [Coins -> Allowed \union {0}] : UpdateConfig(sender, content)
  <2>1. created' = created
    BY <1>5 DEF RegisterDecimals, UpdateDecimals, RemoveDecimals, UpdateConfig, RegistryOnly, factoryVars, creationVars, InnerAdd
  <2>2. registry \in [Coins -> Nat]
    BY DEF CreationInv, CreationTypes
  <2>3. CASE \E coin \in Coins, decimals \in Decimals : RegisterDecimals(coin, decimals)
    BY <2>1, <2>2, <2>3, <1>4 DEF RegisterDecimals, InnerAdd
  <2>4. CASE \E coin \in Coins, decimals \in Decimals, sender \in Accounts : UpdateDecimals(sender, coin, decimals)
    BY <2>1, <2>2, <2>4, <1>4 DEF UpdateDecimals, InnerAdd
  <2>5. CASE \E sender \in Accounts, coin \in Coins : RemoveDecimals(sender, coin)
    BY <2>1, <2>2, <2>5, <1>4 DEF RemoveDecimals
  <2>6. CASE \E sender \in Accounts, content \in [Coins -> Allowed \union {0}] : UpdateConfig(sender, content)
    BY <2>1, <2>6, <1>4, <1>0 DEF UpdateConfig, DecimalsInv
  <2> QED BY <1>5, <2>3, <2>4, <2>5, <2>6
<1>6. ASSUME UNCHANGED <<created, registry, touched>> PROVE DecimalsInv'
  BY <1>6, <1>4
<1>7. CASE \E sender \in Accounts, type \in Types, config \in Configs : UpdatePairConfig(sender, type, config)
  BY <1>6, <1>7 DEF UpdatePairConfig, registryVars
<1>8. CASE RegisterPair
  BY <1>6, <1>8 DEF RegisterPair, registryVars
<1>9. CASE \E sender \in Accounts, assets \in AssetSets : Deregister(sender, assets)
  BY <1>6, <1>9 DEF Deregister, registryVars
<1>10. CASE \E sender \in Accounts, code \in TrackerCodes, withModule \in BOOLEAN :
              UpdateTrackerConfig(sender, code, withModule)
  BY <1>6, <1>10 DEF UpdateTrackerConfig, registryVars, creationVars
<1>11. CASE \E sender \in Accounts : FactoryHandover(sender) \/ PairHandover(sender)
  BY <1>6, <1>11 DEF FactoryHandover, PairHandover, registryVars, factoryVars, creationVars
<1>12. CASE Tick \/ UNCHANGED vars
  BY <1>6, <1>12 DEF Tick, vars, registryVars, factoryVars, creationVars
<1> QED BY <1>1, <1>2, <1>3, <1>5, <1>7, <1>8, <1>9, <1>10, <1>11, <1>12 DEF Next

(* Two pairs of one coin count it with the same decimals, as long as the   *)
(* registry's owner left the coin alone, whatever the pairs were set up    *)
(* within and whichever creations failed.                                  *)
THEOREM DecimalsAgree == Spec => []PairsAgreeOnDecimals
<1>1. DecimalsInv => PairsAgreeOnDecimals
  BY DEF DecimalsInv, PairsAgreeOnDecimals
<1>2. CreationInv /\ DecimalsInv /\ CreationInv' /\ [Next]_vars => DecimalsInv'
  BY DecimalsStep
<1>3. Spec => []CreationInv
  BY InitCreation, CreationStep, PTL DEF Spec
<1> QED BY <1>1, <1>2, <1>3, InitDecimals, PTL DEF Spec
-----------------------------------------------------------------------------
(* Owners.                                                                 *)

LEMMA ProposalsStep ==
  ASSUME ProposalsInv, [Next]_vars
  PROVE  /\ ProposalsInv'
         /\ owner' # owner => /\ owner' = proposal.owner
                              /\ proposer = owner
                              /\ now <= made + MaxTtl
         /\ pairOwner' # pairOwner => /\ now <= pairMade + MaxTtl
                                      /\ pairOwner # None => pairProposer = pairOwner
<1>1. CASE \E sender \in Accounts : FactoryHandover(sender)
  <2>1. PICK sender \in Accounts : FactoryHandover(sender)
    BY <1>1
  <2> QED BY <2>1, FactoryHandoverStep DEF FactoryHandover, pairVars
<1>2. CASE \E sender \in Accounts : PairHandover(sender)
  <2>1. PICK sender \in Accounts : PairHandover(sender)
    BY <1>2
  <2> QED BY <2>1, PairHandoverStep DEF PairHandover, ownershipVars
<1>3. CASE Tick
  BY <1>3 DEF Tick, ownershipVars, pairVars, ProposalsInv
<1>4. ASSUME UNCHANGED <<ownershipVars, pairVars, now>>
      PROVE  ProposalsInv' /\ UNCHANGED <<owner, pairOwner>>
  BY <1>4 DEF ownershipVars, pairVars, ProposalsInv
<1>5. CASE \E sender \in Accounts, type \in Types, config \in Configs : UpdatePairConfig(sender, type, config)
  BY <1>4, <1>5 DEF UpdatePairConfig
<1>6. CASE \E type \in Types, assets \in AssetSets, tracks \in BOOLEAN : SomebodyCreates(type, assets, tracks)
  BY <1>4, <1>6 DEF SomebodyCreates, CreatePair
<1>7. CASE DenomCreated \/ TrackerInstantiated \/ RegisterPair \/ FailCreation
  BY <1>4, <1>7 DEF DenomCreated, TrackerInstantiated, RegisterPair, FailCreation
<1>8. CASE \E sender \in Accounts, assets \in AssetSets : Deregister(sender, assets)
  BY <1>4, <1>8 DEF Deregister
<1>9. CASE \/ \E coin \in Coins, decimals \in Decimals :
                \/ RegisterDecimals(coin, decimals)
                \/ \E sender \in Accounts : UpdateDecimals(sender, coin, decimals)
           \/ \E sender \in Accounts, coin \in Coins : RemoveDecimals(sender, coin)
  BY <1>4, <1>9 DEF RegisterDecimals, UpdateDecimals, RemoveDecimals, RegistryOnly, InnerAdd
<1>10. CASE \E sender \in Accounts, code \in TrackerCodes, withModule \in BOOLEAN :
              UpdateTrackerConfig(sender, code, withModule)
  BY <1>4, <1>10 DEF UpdateTrackerConfig
<1>11. CASE \E sender \in Accounts, content \in [Coins -> Allowed \union {0}] : UpdateConfig(sender, content)
  BY <1>4, <1>11 DEF UpdateConfig
<1>12. CASE UNCHANGED vars
  BY <1>4, <1>12 DEF vars
<1> QED BY <1>1, <1>2, <1>3, <1>4, <1>5, <1>6, <1>7, <1>8, <1>9, <1>10, <1>11, <1>12 DEF Next

(* Whoever becomes the owner of the factory or of a pair was proposed by   *)
(* the one he takes over from, at most MaxTtl ago.                         *)
THEOREM OwnersChosen == Spec => OwnersChosenInTime
<1>1. ProposalsInv /\ [Next]_vars => ProposalsInv'
  BY ProposalsStep
<1>2. ProposalsInv /\ [Next]_vars =>
        [/\ owner' # owner => /\ owner' = proposal.owner
                              /\ proposer = owner
                              /\ now <= made + MaxTtl
         /\ pairOwner' # pairOwner => /\ now <= pairMade + MaxTtl
                                      /\ pairOwner # None => pairProposer = pairOwner]_vars
  BY ProposalsStep
<1> QED BY <1>1, <1>2, InitProposals, PTL DEF Spec, OwnersChosenInTime
=============================================================================
