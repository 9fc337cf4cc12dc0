--------------------------- MODULE TransferProofs ---------------------------
(***************************************************************************)
(* Reward transfers and their replies, for any claims, tokens, amounts,    *)
(* funds and nesting: the pending entries are those of the messages still  *)
(* to be replied to, and no unit is lost or paid twice.                    *)
(*                                                                         *)
(* A failing transfer takes back what happened since it began, so the      *)
(* invariant speaks of every storage that may come back: the one each      *)
(* running transfer began with agrees with the messages of the handlers    *)
(* up to its own, and the one of the last transaction has nothing pending. *)
(***************************************************************************)
EXTENDS RewardTransfers, SumLemmas, FiniteSetTheorems, SequenceTheorems

Message == [id : Nat, payout : Payout]
Pendings == UNION {[D -> Payout] : D \in SUBSET (FirstReplyId..MaxReplyId)}
Storage ==
  [due : SUBSET Claims, next : Nat, pending : Pendings,
   orphaned : [Tokens -> Nat], bank : [Tokens -> Nat], paid : [Tokens -> Nat]]
Frames == [queue : Seq(Message), running : BOOLEAN, saved : Storage \cup {<< >>}]

(* A storage whose ids are behind the counter and whose books balance. *)
StoreOK(s) ==
  /\ s \in Storage
  /\ s.next >= FirstReplyId
  /\ \A id \in DOMAIN s.pending : id < s.next
  /\ \A t \in Tokens : Accounted(s, t) = DueSum(Claims, t)

(* The pending entries of s are the messages of the first n handlers. *)
Matches(s, stk, n) ==
  /\ \A i \in 1..n : \A j \in 1..Len(stk[i].queue) :
        /\ stk[i].queue[j].id \in DOMAIN s.pending
        /\ s.pending[stk[i].queue[j].id] = stk[i].queue[j].payout
  /\ \A id \in DOMAIN s.pending :
        \E i \in 1..n : \E j \in 1..Len(stk[i].queue) : stk[i].queue[j].id = id

Distinct(stk) ==
  \A i, k \in 1..Len(stk) : \A j \in 1..Len(stk[i].queue), l \in 1..Len(stk[k].queue) :
     stk[i].queue[j].id = stk[k].queue[l].id => i = k /\ j = l

(* All handlers but the innermost wait for a transfer, and what a failure  *)
(* of that transfer would bring back agrees with the handlers up to it.    *)
Nested(stk) ==
  /\ \A i \in 1..Len(stk) : i < Len(stk) => stk[i].running
  /\ \A i \in 1..Len(stk) : stk[i].running =>
        stk[i].queue # << >> /\ StoreOK(stk[i].saved) /\ Matches(stk[i].saved, stk, i)

TransferInv ==
  /\ StoreOK(store) /\ StoreOK(committed) /\ DOMAIN committed.pending = {}
  /\ stack \in Seq(Frames) /\ Distinct(stack) /\ Nested(stack)
  /\ Matches(store, stack, Len(stack))
(* What a reply does to the pending entries, the funds and the stack. *)
Without(pending, id) == [x \in DOMAIN pending \ {id} |-> pending[x]]
PaidOut(s, token, amount) == [s EXCEPT !.bank[token] = @ - amount, !.paid[token] = @ + amount]
SettledAt(stk, k) == [stk EXCEPT ![k] = Settled(stk[k])]
-----------------------------------------------------------------------------
LEMMA PendingDomain ==
  ASSUME NEW pending \in Pendings
  PROVE  /\ DOMAIN pending \subseteq FirstReplyId..MaxReplyId
         /\ pending \in [DOMAIN pending -> Payout]
BY DEF Pendings

LEMMA PendingIs ==
  ASSUME NEW D \in SUBSET (FirstReplyId..MaxReplyId), NEW pending \in [D -> Payout]
  PROVE  pending \in Pendings
BY DEF Pendings

LEMMA DueSumNat ==
  ASSUME NEW S \in SUBSET Claims, NEW t
  PROVE  DueSum(S, t) \in Nat
<1> DEFINE f == [c \in Claims |-> IF TokenOf[c] = t THEN AmountOf[c] ELSE 0]
<1>1. \A c \in 1..NumClaims : c \in S => f[c] \in Nat
  BY ClaimsAssumption DEF Claims
<1> HIDE DEF f
<1>2. SumIn(S, NumClaims, f) \in Nat
  BY <1>1, ClaimsAssumption, SumInNat
<1> QED BY <1>2 DEF DueSum, f

LEMMA PendingSumNat ==
  ASSUME NEW pending \in Pendings, NEW t
  PROVE  PendingSum(pending, t) \in Nat
<1> DEFINE f == [id \in DOMAIN pending |-> IF pending[id].token = t THEN pending[id].amount ELSE 0]
<1>1. \A id \in 1..MaxReplyId : id \in DOMAIN pending => f[id] \in Nat
  BY PendingDomain DEF Payout
<1> HIDE DEF f
<1>2. SumIn(DOMAIN pending, MaxReplyId, f) \in Nat
  BY <1>1, ClaimsAssumption, SumInNat
<1> QED BY <1>2 DEF PendingSum, f

(* What a list of payouts holds of one token. *)
PaySum(payouts, t) ==
  SumTo(Len(payouts), [i \in 1..Len(payouts) |-> IF payouts[i].token = t THEN payouts[i].amount ELSE 0])
-----------------------------------------------------------------------------
(* Sets are paid out element by element. *)
LEMMA Enumeration ==
  ASSUME NEW S, IsFiniteSet(S)
  PROVE  /\ Cardinality(S) \in Nat
         /\ SetToSeq(S) \in [1..Cardinality(S) -> S]
         /\ \A i, j \in 1..Cardinality(S) : SetToSeq(S)[i] = SetToSeq(S)[j] => i = j
         /\ S = {SetToSeq(S)[i] : i \in 1..Cardinality(S)}
<1> DEFINE n == Cardinality(S)
           q == SetToSeq(S)
<1>1. n \in Nat /\ ExistsBijection(1..n, S)
  BY FS_CardinalityType
<1>2. \E f \in [1..n -> S] : IsInjective(f)
  BY <1>1 DEF ExistsBijection, Bijection, Injection
<1>3. q \in [1..n -> S] /\ IsInjective(q)
  BY <1>2 DEF SetToSeq
<1> HIDE DEF q
<1>4. q \in Injection(1..n, S)
  BY <1>3 DEF Injection
<1>5. Cardinality(1..n) = n
  BY <1>1, FS_Interval
<1> HIDE DEF n
<1>6. q \in Surjection(1..n, S)
  BY <1>4, <1>5, FS_Injection DEF n
<1>7. S = {q[i] : i \in 1..n}
  BY <1>3, <1>6 DEF Surjection
<1>8. \A i, j \in 1..n : q[i] = q[j] => i = j
  BY <1>3 DEF IsInjective
<1> QED BY <1>1, <1>3, <1>7, <1>8 DEF n, q

(* The payouts of the claims C are what was due of them. *)
LEMMA ClaimPayoutsSum ==
  ASSUME NEW C \in SUBSET Claims
  PROVE  /\ ClaimPayouts(C) \in Seq(Payout)
         /\ \A t \in Tokens : PaySum(ClaimPayouts(C), t) = DueSum(C, t)
<1> DEFINE n == Cardinality(C)
           q == SetToSeq(C)
           pay == ClaimPayouts(C)
<1>1. IsFiniteSet(C)
  <2>1. IsFiniteSet(1..NumClaims)
    BY ClaimsAssumption, FS_Interval
  <2> QED BY <2>1, FS_Subset DEF Claims
<1>2. /\ n \in Nat /\ q \in [1..n -> C] /\ C = {q[i] : i \in 1..n}
      /\ \A i, j \in 1..n : q[i] = q[j] => i = j
  BY <1>1, Enumeration
<1>3. pay = [i \in 1..n |-> [token |-> TokenOf[q[i]], amount |-> AmountOf[q[i]]]]
  BY DEF ClaimPayouts
<1> HIDE DEF n, q, pay
<1>4. \A c \in C : TokenOf[c] \in Tokens /\ AmountOf[c] \in Nat
  BY ClaimsAssumption
<1>5. pay \in [1..n -> Payout]
  BY <1>2, <1>3, <1>4 DEF Payout
<1>6. pay \in Seq(Payout) /\ Len(pay) = n
  BY <1>2, <1>5
<1>7. ASSUME NEW t \in Tokens PROVE PaySum(pay, t) = DueSum(C, t)
  <2> DEFINE f == [c \in Claims |-> IF TokenOf[c] = t THEN AmountOf[c] ELSE 0]
             h == [i \in 1..Len(pay) |-> IF pay[i].token = t THEN pay[i].amount ELSE 0]
  <2>1. q \in [1..n -> 1..NumClaims] /\ NumClaims \in Nat
    BY <1>2, ClaimsAssumption DEF Claims
  <2>2. \A i \in 1..n : f[q[i]] \in Int /\ h[i] = f[q[i]]
    BY <1>2, <1>3, <1>4, <1>6
  <2> HIDE DEF f, h
  <2>3. SumIn(C, NumClaims, f) = SumTo(n, h)
    <3>1. Enumerates(q, n, C, NumClaims) /\ NumClaims \in Nat
      BY <1>2, <2>1 DEF Enumerates
    <3> QED BY <2>2, <3>1, SumInEnumerated
  <2> QED BY <1>2, <1>6, <2>3 DEF PaySum, DueSum, f, h
<1> QED BY <1>6, <1>7 DEF pay

(* The payouts of the orphaned tokens are what was orphaned. *)
LEMMA OrphanPayoutsSum ==
  ASSUME NEW orphaned \in [Tokens -> Nat]
  PROVE  /\ OrphanPayouts(orphaned) \in Seq(Payout)
         /\ \A t \in Tokens : PaySum(OrphanPayouts(orphaned), t) = orphaned[t]
<1> DEFINE held == {t \in Tokens : orphaned[t] > 0}
           n == Cardinality(held)
           q == SetToSeq(held)
           pay == OrphanPayouts(orphaned)
<1>0. held \subseteq Tokens /\ \A t \in Tokens : t \in held <=> orphaned[t] > 0
  OBVIOUS
<1>1. IsFiniteSet(held)
  BY ClaimsAssumption, FS_Subset
<1>3. pay = [i \in 1..n |-> [token |-> q[i], amount |-> orphaned[q[i]]]]
  BY DEF OrphanPayouts
<1> HIDE DEF held
<1>2. /\ n \in Nat /\ q \in [1..n -> held] /\ held = {q[i] : i \in 1..n}
      /\ \A i, j \in 1..n : q[i] = q[j] => i = j
  BY <1>1, Enumeration
<1> HIDE DEF n, q, pay
<1>5. pay \in [1..n -> Payout]
  BY <1>0, <1>2, <1>3 DEF Payout
<1>6. pay \in Seq(Payout) /\ Len(pay) = n
  BY <1>2, <1>5
<1>7. ASSUME NEW t \in Tokens PROVE PaySum(pay, t) = orphaned[t]
  <2> DEFINE h == [i \in 1..Len(pay) |-> IF pay[i].token = t THEN pay[i].amount ELSE 0]
             z == [i \in 1..n |-> 0]
  <2>1. \A i \in 1..n : h[i] = IF q[i] = t THEN orphaned[t] ELSE 0
    BY <1>3, <1>6
  <2>2. SumTo(n, z) = 0
    BY <1>2, SumToZero
  <2>3. \A i \in 1..n : z[i] \in Int /\ z[i] = 0
    OBVIOUS
  <2>4. \A i \in 1..n : h[i] \in Int
    <3>1. orphaned[t] \in Int
      OBVIOUS
    <3> HIDE DEF h
    <3> QED BY <2>1, <3>1
  <2> HIDE DEF h, z
  <2>5. CASE t \in held
    <3>1. PICK j \in 1..n : q[j] = t
      BY <1>2, <2>5
    <3>2. \A i \in 1..n : i # j => h[i] = z[i]
      BY <1>2, <2>1, <2>3, <3>1
    <3>3. SumTo(n, h) = SumTo(n, z) + h[j] - z[j]
      <4>1. n \in Nat /\ j \in 1..n
        BY <1>2
      <4>2. \A i \in 1..n : z[i] \in Int /\ h[i] \in Int
        BY <2>3, <2>4
      <4> QED BY ONLY <4>1, <4>2, <3>2, SumToChange
    <3>4. h[j] = orphaned[t] /\ z[j] = 0
      BY <2>1, <2>3, <3>1
    <3> QED BY <1>6, <2>2, <3>3, <3>4 DEF PaySum, h
  <2>6. CASE t \notin held
    <3>1. \A i \in 1..n : z[i] \in Int /\ h[i] = z[i]
      BY <1>2, <2>1, <2>3, <2>6
    <3>2. SumTo(n, h) = SumTo(n, z)
      BY <1>2, <3>1, SumToSame
    <3>3. orphaned[t] = 0
      BY <1>0, <2>6
    <3> QED BY <1>6, <2>2, <3>2, <3>3 DEF PaySum, h
  <2> QED BY <2>5, <2>6
<1> QED BY <1>6, <1>7 DEF pay
-----------------------------------------------------------------------------
(* Registering payouts puts exactly them into PENDING. *)
LEMMA RegisterOK ==
  ASSUME NEW s \in Storage, s.next >= FirstReplyId, \A id \in DOMAIN s.pending : id < s.next,
         NEW payouts \in Seq(Payout), s.next + Len(payouts) <= MaxReplyId + 1
  PROVE  LET n == Len(payouts)
             ids == s.next..(s.next + n - 1)
             r == Register(s, payouts)
         IN  /\ r \in Storage /\ r.next = s.next + n
             /\ r.due = s.due /\ r.orphaned = s.orphaned /\ r.paid = s.paid
             /\ DOMAIN r.pending = DOMAIN s.pending \cup ids
             /\ \A id \in DOMAIN s.pending : r.pending[id] = s.pending[id] /\ id \notin ids
             /\ \A i \in 1..n : s.next + i - 1 \in ids /\ r.pending[s.next + i - 1] = payouts[i]
             /\ \A id \in ids : id - s.next + 1 \in 1..n
             /\ \A t \in Tokens : PendingSum(r.pending, t) = PendingSum(s.pending, t) + PaySum(payouts, t)
<1> DEFINE n == Len(payouts)
           a == s.next
           ids == a..(a + n - 1)
           r == Register(s, payouts)
           old == s.pending
           new == [id \in DOMAIN old \cup ids |-> IF id \in ids THEN payouts[id - a + 1] ELSE old[id]]
<1>1. /\ n \in Nat /\ payouts \in [1..n -> Payout] /\ a \in Nat /\ a >= FirstReplyId
      /\ MaxReplyId \in Nat /\ a + n <= MaxReplyId + 1 /\ FirstReplyId = 2
  BY ClaimsAssumption DEF Storage, FirstReplyId, PostTransferReplyId
<1>2. r = [s EXCEPT !.next = a + n, !.pending = new]
  BY DEF Register
<1>3. /\ old \in Pendings /\ DOMAIN old \subseteq FirstReplyId..MaxReplyId
      /\ old \in [DOMAIN old -> Payout]
  BY PendingDomain DEF Storage
<1>4. r.pending = new /\ r.next = a + n /\ r.due = s.due /\ r.orphaned = s.orphaned /\ r.paid = s.paid
  BY <1>2 DEF Storage
<1>5. ids \subseteq FirstReplyId..MaxReplyId /\ \A id \in ids : id - a + 1 \in 1..n
  <2>1. n \in Nat /\ a \in Nat /\ a >= FirstReplyId /\ FirstReplyId \in Nat
    BY <1>1
  <2>2. MaxReplyId \in Nat /\ a + n <= MaxReplyId + 1
    BY <1>1
  <2> HIDE DEF n, a, r, new
  <2> QED BY <2>1, <2>2
<1>6. \A id \in DOMAIN old : id < a /\ id \notin ids
  BY <1>1, <1>3
<1>7. \A i \in 1..n : a + i - 1 \in ids /\ (a + i - 1) - a + 1 = i
  BY <1>1
<1>8. /\ DOMAIN new = DOMAIN old \cup ids
      /\ \A id \in DOMAIN old : new[id] = old[id]
      /\ \A id \in ids : new[id] = payouts[id - a + 1]
  BY <1>6
<1> HIDE DEF n, a, ids, new
<1>9. \A i \in 1..n : new[a + i - 1] = payouts[i]
  BY <1>7, <1>8
<1>10. new \in [DOMAIN old \cup ids -> Payout]
  <2>1. \A id \in DOMAIN old \cup ids : new[id] \in Payout
    BY <1>1, <1>3, <1>5, <1>8
  <2> QED BY <1>8, <2>1 DEF new
<1>11. new \in Pendings
  BY <1>3, <1>5, <1>10, PendingIs
<1>12. r \in Storage
  <2>1. a + n \in Nat
    BY <1>1
  <2> DEFINE b == a + n
  <2> HIDE DEF b, r
  <2>2. r = [s EXCEPT !.next = b, !.pending = new] /\ b \in Nat
    BY <1>2, <2>1 DEF b
  <2> QED BY <1>11, <2>2 DEF Storage
<1>13. ASSUME NEW t \in Tokens
       PROVE  PendingSum(new, t) = PendingSum(old, t) + PaySum(payouts, t)
  <2> DEFINE f == [id \in DOMAIN old |-> IF old[id].token = t THEN old[id].amount ELSE 0]
             g == [id \in DOMAIN new |-> IF new[id].token = t THEN new[id].amount ELSE 0]
             h == [i \in 1..Len(payouts) |-> IF payouts[i].token = t THEN payouts[i].amount ELSE 0]
             q == [i \in 1..n |-> a + i - 1]
             both == DOMAIN new
  <2>1. \A id \in DOMAIN new : g[id] \in Int
    BY <1>8, <1>10 DEF Payout
  <2>2. \A id \in DOMAIN old : f[id] \in Int /\ g[id] = f[id]
    BY <1>3, <1>8 DEF Payout
  <2>3. \A i \in 1..n : q[i] \in ids /\ h[i] = g[q[i]]
    <3>1. \A i \in 1..n : a + i - 1 \in DOMAIN new /\ new[a + i - 1] = payouts[i]
      BY <1>7, <1>8, <1>9
    <3> QED BY <1>7, <3>1 DEF n
  <2> HIDE DEF f, g, h
  <2>4. Enumerates(q, n, ids, MaxReplyId)
    <3>1. q \in [1..n -> 1..MaxReplyId]
      BY <1>1, <1>5, <2>3
    <3>2. \A i, j \in 1..n : q[i] = q[j] => i = j
      BY <1>1
    <3>3. ids = {q[i] : i \in 1..n}
      <4>1. ASSUME NEW id \in ids PROVE \E i \in 1..n : id = q[i]
        <5>1. id - a + 1 \in 1..n /\ id \in Int
          BY <1>1, <1>5 DEF ids
        <5>2. q[id - a + 1] = a + (id - a + 1) - 1
          BY <5>1
        <5> HIDE DEF q
        <5>3. a + (id - a + 1) - 1 = id
          BY <1>1, <5>1
        <5> QED BY <5>1, <5>2, <5>3
      <4> HIDE DEF q
      <4> QED BY <2>3, <4>1
    <3> QED BY <1>1, <3>1, <3>2, <3>3 DEF Enumerates
  <2> HIDE DEF q
  <2>5. SumIn(ids, MaxReplyId, g) = SumTo(n, h)
    <3>1. \A i \in 1..n : g[q[i]] \in Int /\ h[i] = g[q[i]]
      BY <1>8, <2>1, <2>3
    <3> QED BY <1>1, <2>4, <3>1, SumInEnumerated
  <2>6. SumIn(both, MaxReplyId, g) = SumIn(both \ ids, MaxReplyId, g) + SumIn(ids, MaxReplyId, g)
    <3>1. ids \subseteq both /\ \A id \in 1..MaxReplyId : id \in both => g[id] \in Int
      BY <1>8, <2>1
    <3> QED BY <1>1, <3>1, SumInSplit
  <2>7. both \ ids = DOMAIN old
    BY <1>6, <1>8
  <2>8. SumIn(DOMAIN old, MaxReplyId, g) = SumIn(DOMAIN old, MaxReplyId, f)
    BY <1>1, <2>2, SumInSame
  <2> QED BY <2>5, <2>6, <2>7, <2>8 DEF PendingSum, PaySum, f, g, h, n
<1> QED BY <1>4, <1>5, <1>6, <1>7, <1>8, <1>9, <1>12, <1>13 DEF n, a, ids

(* A reply takes the entry of its message out and leaves the others. *)
LEMMA PendingWithout ==
  ASSUME NEW pending \in Pendings, NEW id \in DOMAIN pending,
         NEW rest, rest = [x \in DOMAIN pending \ {id} |-> pending[x]]
  PROVE  /\ rest \in Pendings
         /\ \A t \in Tokens : PendingSum(pending, t) =
              PendingSum(rest, t) + (IF pending[id].token = t THEN pending[id].amount ELSE 0)
<1>1. DOMAIN pending \subseteq FirstReplyId..MaxReplyId /\ pending \in [DOMAIN pending -> Payout]
  BY PendingDomain
<1>2. rest \in Pendings
  <2>1. rest \in [DOMAIN pending \ {id} -> Payout]
    BY <1>1
  <2> QED BY <1>1, <2>1, PendingIs
<1>3. ASSUME NEW t \in Tokens
      PROVE  PendingSum(pending, t) =
               PendingSum(rest, t) + (IF pending[id].token = t THEN pending[id].amount ELSE 0)
  <2> DEFINE f == [x \in DOMAIN pending |-> IF pending[x].token = t THEN pending[x].amount ELSE 0]
             g == [x \in DOMAIN rest |-> IF rest[x].token = t THEN rest[x].amount ELSE 0]
             S == DOMAIN rest
             U == DOMAIN pending
  <2>1. \A x \in U : f[x] \in Int
    BY <1>1 DEF Payout
  <2>2. S = U \ {id} /\ \A x \in S : g[x] = f[x]
    OBVIOUS
  <2>3. f[id] = IF pending[id].token = t THEN pending[id].amount ELSE 0
    OBVIOUS
  <2>4. id \in 1..MaxReplyId /\ MaxReplyId \in Nat
    BY <1>1, ClaimsAssumption DEF FirstReplyId, PostTransferReplyId
  <2>5. PendingSum(pending, t) = SumIn(U, MaxReplyId, f) /\ PendingSum(rest, t) = SumIn(S, MaxReplyId, g)
    BY DEF PendingSum
  <2> HIDE DEF f, g, S, U
  <2>6. SumIn(U, MaxReplyId, f) = SumIn(S, MaxReplyId, f) + f[id]
    <3>1. U = S \cup {id} /\ id \notin S
      BY <2>2 DEF U
    <3>2. \A x \in 1..MaxReplyId : x \in U => f[x] \in Int
      BY <2>1
    <3> QED BY ONLY <2>4, <3>1, <3>2, SumInAdd
  <2>7. SumIn(S, MaxReplyId, g) = SumIn(S, MaxReplyId, f)
    <3>1. \A x \in 1..MaxReplyId : x \in S => f[x] \in Int /\ g[x] = f[x]
      BY <2>1, <2>2
    <3> QED BY <2>4, <3>1, SumInSame
  <2> QED BY <2>3, <2>5, <2>6, <2>7
<1> QED BY <1>2, <1>3
-----------------------------------------------------------------------------
LEMMA StackFacts ==
  ASSUME NEW stk \in Seq(Frames)
  PROVE  /\ Len(stk) \in Nat /\ DOMAIN stk = 1..Len(stk)
         /\ stk # << >> => Len(stk) > 0
         /\ Len(stk) = 0 => stk = << >>
         /\ \A i \in 1..Len(stk) : /\ stk[i] \in Frames
                                   /\ stk[i].queue \in Seq(Message) /\ Len(stk[i].queue) \in Nat
                                   /\ DOMAIN stk[i].queue = 1..Len(stk[i].queue)
                                   /\ \A j \in 1..Len(stk[i].queue) : stk[i].queue[j] \in Message
<1>1. /\ Len(stk) \in Nat /\ stk \in [1..Len(stk) -> Frames] /\ DOMAIN stk = 1..Len(stk)
  BY LenProperties
<1>2. \A i \in 1..Len(stk) : stk[i] \in Frames /\ stk[i].queue \in Seq(Message)
  BY <1>1 DEF Frames
<1>3. \A i \in 1..Len(stk) : /\ Len(stk[i].queue) \in Nat /\ DOMAIN stk[i].queue = 1..Len(stk[i].queue)
                             /\ stk[i].queue \in [1..Len(stk[i].queue) -> Message]
  BY <1>2, LenProperties
<1>4. stk # << >> => Len(stk) > 0
  BY EmptySeq
<1> QED BY <1>1, <1>2, <1>3, <1>4

(* What holds of the first n handlers of a stack holds of any other that   *)
(* begins with them.                                                       *)
LEMMA MatchesPrefix ==
  ASSUME NEW s, NEW stk, NEW other, NEW n, \A i \in 1..n : other[i].queue = stk[i].queue,
         Matches(s, stk, n)
  PROVE  Matches(s, other, n)
<1>1. ASSUME NEW i \in 1..n, NEW j \in 1..Len(other[i].queue)
      PROVE  /\ other[i].queue[j].id \in DOMAIN s.pending
             /\ s.pending[other[i].queue[j].id] = other[i].queue[j].payout
  <2>1. other[i].queue = stk[i].queue /\ j \in 1..Len(stk[i].queue)
    OBVIOUS
  <2> QED BY <2>1 DEF Matches
<1>2. ASSUME NEW id \in DOMAIN s.pending
      PROVE  \E i \in 1..n : \E j \in 1..Len(other[i].queue) : other[i].queue[j].id = id
  <2>1. PICK i \in 1..n : \E j \in 1..Len(stk[i].queue) : stk[i].queue[j].id = id
    BY DEF Matches
  <2>2. other[i].queue = stk[i].queue
    OBVIOUS
  <2> QED BY <2>1, <2>2
<1> QED BY <1>1, <1>2 DEF Matches

(* A prefix of the stack is as well nested as the stack. *)
LEMMA PrefixNested ==
  ASSUME NEW stk \in Seq(Frames), Distinct(stk), Nested(stk),
         NEW other \in Seq(Frames), Len(other) <= Len(stk),
         \A i \in 1..Len(other) : other[i] = stk[i]
  PROVE  Distinct(other) /\ Nested(other)
<1> DEFINE m == Len(other)
           k == Len(stk)
<1>1. m \in Nat /\ k \in Nat /\ m <= k
  BY LenProperties
<1>2. \A i \in 1..m : i \in 1..k /\ other[i] = stk[i]
  BY <1>1
<1>3. Distinct(other)
  BY <1>2 DEF Distinct
<1>4. ASSUME NEW i \in 1..m, other[i].running
      PROVE  other[i].queue # << >> /\ StoreOK(other[i].saved) /\ Matches(other[i].saved, other, i)
  <2>1. i \in 1..k /\ other[i] = stk[i]
    BY <1>2
  <2>2. stk[i].queue # << >> /\ StoreOK(stk[i].saved) /\ Matches(stk[i].saved, stk, i)
    BY <1>4, <2>1 DEF Nested
  <2>3. \A x \in 1..i : other[x].queue = stk[x].queue
    BY <1>1, <1>2
  <2>4. Matches(stk[i].saved, other, i)
    BY <2>2, <2>3, MatchesPrefix
  <2> QED BY <2>1, <2>2, <2>4
<1>5. \A i \in 1..m : i < m => other[i].running
  <2>1. \A i \in 1..m : i < m => i < k
    BY <1>1
  <2> QED BY <1>2, <2>1 DEF Nested
<1> QED BY <1>3, <1>4, <1>5 DEF Nested

LEMMA IdleFrame ==
  ASSUME NEW queue \in Seq(Message)
  PROVE  LET frame == [Frame EXCEPT !.queue = queue]
         IN  frame \in Frames /\ frame.queue = queue /\ frame.running = FALSE
<1>1. Frame \in Frames /\ Frame.running = FALSE
  BY DEF Frame, Frames
<1> QED BY <1>1 DEF Frames

(* A handler is called and its messages are put on top. *)
LEMMA HandleInv ==
  ASSUME TransferInv, NEW s \in Storage, s.next = store.next, s.pending = store.pending,
         NEW payouts \in Seq(Payout), Handle(s, payouts),
         \A t \in Tokens : DueSum(s.due, t) + s.orphaned[t] + s.paid[t] + PaySum(payouts, t)
                             = DueSum(store.due, t) + store.orphaned[t] + store.paid[t]
  PROVE  TransferInv'
<1> DEFINE n == Len(payouts)
           k == Len(stack)
           ids == s.next..(s.next + n - 1)
           msgs == Messages(s, payouts)
           frame == [Frame EXCEPT !.queue = msgs]
<1>1. /\ store' = Register(s, payouts) /\ stack' = Append(stack, frame) /\ committed' = committed
      /\ s.next + n <= MaxReplyId + 1
      /\ stack # << >> => stack[Len(stack)].running
  BY DEF Handle, MayCall, Top
<1>2. /\ StoreOK(store) /\ StoreOK(committed) /\ DOMAIN committed.pending = {}
      /\ stack \in Seq(Frames) /\ Distinct(stack) /\ Nested(stack) /\ Matches(store, stack, k)
  BY DEF TransferInv
<1>3. s.next >= FirstReplyId /\ \A id \in DOMAIN s.pending : id < s.next
  BY <1>2 DEF StoreOK
<1>4. /\ store' \in Storage /\ store'.next = s.next + n
      /\ store'.due = s.due /\ store'.orphaned = s.orphaned /\ store'.paid = s.paid
      /\ DOMAIN store'.pending = DOMAIN s.pending \cup ids
      /\ \A id \in DOMAIN s.pending : store'.pending[id] = s.pending[id] /\ id \notin ids
      /\ \A i \in 1..n : s.next + i - 1 \in ids /\ store'.pending[s.next + i - 1] = payouts[i]
      /\ \A id \in ids : id - s.next + 1 \in 1..n
      /\ \A t \in Tokens : PendingSum(store'.pending, t) = PendingSum(s.pending, t) + PaySum(payouts, t)
  BY <1>1, <1>3, RegisterOK
<1>5. n \in Nat /\ payouts \in [1..n -> Payout] /\ s.next \in Nat
  BY LenProperties DEF Storage
<1>6. msgs = [i \in 1..n |-> [id |-> s.next + i - 1, payout |-> payouts[i]]]
  BY DEF Messages
<1> HIDE DEF msgs
<1>7. /\ msgs \in Seq(Message) /\ Len(msgs) = n
      /\ \A i \in 1..n : msgs[i].id = s.next + i - 1 /\ msgs[i].payout = payouts[i]
  <2>1. \A i \in 1..n : [id |-> s.next + i - 1, payout |-> payouts[i]] \in Message
    BY <1>3, <1>5 DEF Message, FirstReplyId, PostTransferReplyId
  <2>2. msgs \in [1..n -> Message]
    BY <1>6, <2>1
  <2>3. n \in Nat
    BY <1>5
  <2>4. msgs \in Seq(Message) /\ Len(msgs) = n
    <3> HIDE DEF n
    <3> QED BY ONLY <2>2, <2>3
  <2>5. \A i \in 1..n : msgs[i].id = s.next + i - 1 /\ msgs[i].payout = payouts[i]
    BY <1>6
  <2> QED BY <2>4, <2>5
<1>8. frame \in Frames /\ frame.running = FALSE /\ frame.queue = msgs
  BY <1>7, IdleFrame
<1> HIDE DEF frame
<1>9. /\ stack' \in Seq(Frames) /\ Len(stack') = k + 1
      /\ \A i \in 1..k : stack'[i] = stack[i]
      /\ stack'[k + 1] = frame
  BY <1>1, <1>2, <1>8, AppendProperties
<1>10. k \in Nat /\ (stack # << >> => k > 0) /\ (k = 0 => stack = << >>)
  BY <1>2, StackFacts
<1>11. StoreOK(store')
  <2>1. ASSUME NEW t \in Tokens PROVE Accounted(store', t) = DueSum(Claims, t)
    <3>1. Accounted(store, t) = DueSum(Claims, t)
      BY <1>2 DEF StoreOK
    <3>2. DueSum(s.due, t) \in Nat /\ DueSum(store.due, t) \in Nat /\ PendingSum(s.pending, t) \in Nat
      BY <1>2, DueSumNat, PendingSumNat DEF StoreOK, Storage
    <3>3. s.orphaned[t] \in Nat /\ s.paid[t] \in Nat /\ store.orphaned[t] \in Nat /\ store.paid[t] \in Nat
      BY <1>2 DEF StoreOK, Storage
    <3>4. PaySum(payouts, t) \in Int
      <4> DEFINE h == [i \in 1..n |-> IF payouts[i].token = t THEN payouts[i].amount ELSE 0]
      <4>0. \A i \in 1..n : payouts[i].amount \in Nat
        BY <1>5 DEF Payout
      <4>1. \A i \in 1..n : h[i] \in Int
        BY <4>0
      <4> HIDE DEF h
      <4>2. SumTo(n, h) \in Int
        BY <1>5, <4>1, SumToInt
      <4> QED BY <4>2 DEF PaySum, h
    <3>5. PendingSum(store'.pending, t) = PendingSum(s.pending, t) + PaySum(payouts, t)
      BY <1>4
    <3>6. DueSum(s.due, t) + s.orphaned[t] + s.paid[t] + PaySum(payouts, t)
             = DueSum(store.due, t) + store.orphaned[t] + store.paid[t]
      OBVIOUS
    <3>7. Accounted(store', t) = DueSum(s.due, t) + PendingSum(store'.pending, t) + s.orphaned[t] + s.paid[t]
      BY <1>4 DEF Accounted
    <3>8. Accounted(store, t) = DueSum(store.due, t) + PendingSum(s.pending, t) + store.orphaned[t] + store.paid[t]
      BY DEF Accounted
    <3> DEFINE all == DueSum(Claims, t)
               dueOld == DueSum(store.due, t)
               dueNew == DueSum(s.due, t)
               pend == PendingSum(s.pending, t)
               pendNew == PendingSum(store'.pending, t)
               pay == PaySum(payouts, t)
               accOld == Accounted(store, t)
               accNew == Accounted(store', t)
    <3> HIDE DEF all, dueOld, dueNew, pend, pendNew, pay, accOld, accNew
    <3>9. accNew = all
      <4> DEFINE oldOrph == store.orphaned[t]
                 newOrph == s.orphaned[t]
                 oldPaid == store.paid[t]
                 newPaid == s.paid[t]
      <4>1. /\ accOld = all /\ pendNew = pend + pay
            /\ dueNew + newOrph + newPaid + pay = dueOld + oldOrph + oldPaid
            /\ accNew = dueNew + pendNew + newOrph + newPaid
            /\ accOld = dueOld + pend + oldOrph + oldPaid
        BY <3>1, <3>5, <3>6, <3>7, <3>8 DEF all, dueOld, dueNew, pend, pendNew, pay, accOld, accNew
      <4>2. /\ dueNew \in Nat /\ dueOld \in Nat /\ pend \in Nat /\ pay \in Int
            /\ newOrph \in Nat /\ newPaid \in Nat /\ oldOrph \in Nat /\ oldPaid \in Nat
        BY <3>2, <3>3, <3>4 DEF dueOld, dueNew, pend, pay
      <4> HIDE DEF oldOrph, newOrph, oldPaid, newPaid
      <4> QED BY ONLY <4>1, <4>2
    <3> QED BY <3>9 DEF accNew, all
  <2>2. \A id \in DOMAIN store'.pending : id < store'.next
    <3>1. \A id \in DOMAIN s.pending : id \in Nat /\ id < s.next
      BY <1>3, PendingDomain DEF Storage, FirstReplyId, PostTransferReplyId
    <3> QED BY <1>4, <1>5, <3>1
  <2>3. store'.next >= FirstReplyId
    BY <1>3, <1>4, <1>5 DEF FirstReplyId, PostTransferReplyId
  <2> QED BY <1>4, <2>1, <2>2, <2>3 DEF StoreOK
<1>12. ASSUME NEW i \in 1..k, NEW j \in 1..Len(stack[i].queue)
       PROVE  stack[i].queue[j].id \in DOMAIN s.pending
  BY <1>2 DEF Matches
<1>13. \A i \in 1..(k + 1) : i \in 1..k \/ i = k + 1
  BY <1>10
<1>17. \A j \in 1..Len(frame.queue) :
         /\ frame.queue[j].id \in ids /\ frame.queue[j].id = s.next + j - 1
         /\ store'.pending[frame.queue[j].id] = frame.queue[j].payout
  BY <1>4, <1>7, <1>8
<1>18. \A id \in ids : id \notin DOMAIN s.pending
  BY <1>4
<1>14. Matches(store', stack', k + 1)
  <2>1. ASSUME NEW i \in 1..(k + 1), NEW j \in 1..Len(stack'[i].queue)
        PROVE  /\ stack'[i].queue[j].id \in DOMAIN store'.pending
               /\ store'.pending[stack'[i].queue[j].id] = stack'[i].queue[j].payout
    <3>1. CASE i \in 1..k
      <4>1. stack'[i] = stack[i] /\ j \in 1..Len(stack[i].queue)
        BY <1>9, <3>1
      <4>2. /\ stack[i].queue[j].id \in DOMAIN s.pending
            /\ s.pending[stack[i].queue[j].id] = stack[i].queue[j].payout
        BY <1>2, <3>1, <4>1 DEF Matches
      <4> QED BY <1>4, <4>1, <4>2
    <3>2. CASE i = k + 1
      <4>1. stack'[i] = frame /\ j \in 1..Len(frame.queue)
        BY <1>9, <3>2
      <4> QED BY <1>4, <1>17, <4>1
    <3> QED BY <1>13, <3>1, <3>2
  <2>2. ASSUME NEW id \in DOMAIN store'.pending
        PROVE  \E i \in 1..(k + 1) : \E j \in 1..Len(stack'[i].queue) : stack'[i].queue[j].id = id
    <3>1. CASE id \in DOMAIN s.pending
      <4>1. PICK i \in 1..k : \E j \in 1..Len(stack[i].queue) : stack[i].queue[j].id = id
        BY <1>2, <3>1 DEF Matches
      <4>2. i \in 1..(k + 1) /\ stack'[i] = stack[i]
        BY <1>9, <1>10
      <4> QED BY <4>1, <4>2
    <3>2. CASE id \in ids
      <4> DEFINE j == id - s.next + 1
      <4>1. j \in 1..n /\ s.next + j - 1 = id
        BY <1>4, <1>5, <3>2
      <4>2. k + 1 \in 1..(k + 1) /\ stack'[k + 1].queue[j].id = id /\ j \in 1..Len(stack'[k + 1].queue)
        BY <1>7, <1>8, <1>9, <1>10, <4>1
      <4> QED BY <4>2
    <3> QED BY <1>4, <3>1, <3>2
  <2> QED BY <2>1, <2>2 DEF Matches
<1>15. Distinct(stack')
  <2> SUFFICES ASSUME NEW i \in 1..(k + 1), NEW m \in 1..(k + 1),
                      NEW j \in 1..Len(stack'[i].queue), NEW l \in 1..Len(stack'[m].queue),
                      stack'[i].queue[j].id = stack'[m].queue[l].id
               PROVE  i = m /\ j = l
    BY <1>9 DEF Distinct
  <2>1. CASE i \in 1..k /\ m \in 1..k
    <3>1. stack'[i] = stack[i] /\ stack'[m] = stack[m]
      BY <1>9, <2>1
    <3>2. /\ j \in 1..Len(stack[i].queue) /\ l \in 1..Len(stack[m].queue)
          /\ stack[i].queue[j].id = stack[m].queue[l].id
      BY <3>1
    <3> QED BY <1>2, <2>1, <3>2 DEF Distinct
  <2>2. CASE i \in 1..k /\ m = k + 1
    <3>1. stack'[i].queue[j].id \in DOMAIN s.pending
      BY <1>9, <1>12, <2>2
    <3>2. stack'[m].queue[l].id \in ids
      BY <1>9, <1>17, <2>2
    <3> QED BY <1>18, <3>1, <3>2
  <2>3. CASE i = k + 1 /\ m \in 1..k
    <3>1. stack'[m].queue[l].id \in DOMAIN s.pending
      BY <1>9, <1>12, <2>3
    <3>2. stack'[i].queue[j].id \in ids
      BY <1>9, <1>17, <2>3
    <3> QED BY <1>18, <3>1, <3>2
  <2>4. CASE i = k + 1 /\ m = k + 1
    <3>1. stack'[i].queue[j].id = s.next + j - 1 /\ stack'[m].queue[l].id = s.next + l - 1
      BY <1>9, <1>17, <2>4
    <3>2. j \in Int /\ l \in Int
      OBVIOUS
    <3> QED BY <1>5, <2>4, <3>1, <3>2
  <2> QED BY <1>13, <2>1, <2>2, <2>3, <2>4
<1>16. Nested(stack')
  <2>1. ASSUME NEW i \in 1..(k + 1), i < k + 1 PROVE stack'[i].running
    <3>1. i \in 1..k
      BY <1>10, <2>1
    <3>2. i < k => stack[i].running
      BY <1>2, <3>1 DEF Nested
    <3>3. i = k => stack[i].running
      BY <1>1, <1>10, <3>1
    <3> QED BY <1>9, <1>10, <3>1, <3>2, <3>3
  <2>2. ASSUME NEW i \in 1..(k + 1), stack'[i].running
        PROVE  stack'[i].queue # << >> /\ StoreOK(stack'[i].saved) /\ Matches(stack'[i].saved, stack', i)
    <3>1. i \in 1..k /\ stack'[i] = stack[i]
      BY <1>8, <1>9, <1>13, <2>2
    <3>2. stack[i].queue # << >> /\ StoreOK(stack[i].saved) /\ Matches(stack[i].saved, stack, i)
      BY <1>2, <2>2, <3>1 DEF Nested
    <3>3. \A x \in 1..i : stack'[x].queue = stack[x].queue
      BY <1>9, <1>10, <3>1
    <3>4. Matches(stack[i].saved, stack', i)
      BY <3>2, <3>3, MatchesPrefix
    <3> QED BY <3>1, <3>2, <3>4
  <2> QED BY <1>9, <2>1, <2>2 DEF Nested
<1> QED BY <1>1, <1>2, <1>9, <1>11, <1>14, <1>15, <1>16 DEF TransferInv

(* The reply to the head message of the innermost handler: the others      *)
(* still match what is pending.                                            *)
LEMMA SettleStack ==
  ASSUME NEW stk \in Seq(Frames), Distinct(stk), Nested(stk),
         NEW k, k = Len(stk), k > 0, stk[k].running,
         NEW s, Matches(s, stk, k), NEW r,
         r.pending = Without(s.pending, Head(stk[k].queue).id),
         NEW other, other = SettledAt(stk, k)
  PROVE  /\ other \in Seq(Frames) /\ Len(other) = k
         /\ Distinct(other) /\ Nested(other) /\ Matches(r, other, k)
<1> DEFINE q == stk[k].queue
           frame == Settled(stk[k])
           id == Head(q).id
<1>1. k \in Nat /\ k \in 1..k /\ stk \in [1..k -> Frames]
  BY LenProperties
<1>2. q \in Seq(Message) /\ q # << >>
  BY <1>1 DEF Nested, Frames
<1>3. /\ Tail(q) \in Seq(Message) /\ Len(q) \in Nat /\ Len(q) > 0 /\ Len(Tail(q)) = Len(q) - 1
      /\ \A j \in 1..Len(Tail(q)) : Tail(q)[j] = q[j + 1]
      /\ Head(q) = q[1]
  BY <1>2, HeadTailProperties, EmptySeq, LenProperties
<1>4. frame \in Frames /\ frame.queue = Tail(q) /\ frame.running = FALSE
  BY <1>3, IdleFrame DEF Settled
<1>5. /\ other \in Seq(Frames) /\ Len(other) = k /\ other[k] = frame
      /\ \A i \in 1..k : i # k => other[i] = stk[i]
  BY <1>1, <1>4, LenProperties DEF SettledAt
<1>6. \A i \in 1..k : i # k => other[i].queue = stk[i].queue
  BY <1>5
<1>7. id = q[1].id /\ 1 \in 1..Len(q)
  BY <1>3
<1> HIDE DEF frame, q, id
<1>8. \A j \in 1..Len(other[k].queue) : j + 1 \in 1..Len(q) /\ other[k].queue[j] = q[j + 1]
  <2>1. other[k].queue = Tail(q)
    BY <1>4, <1>5
  <2>2. \A j \in 1..Len(Tail(q)) : j + 1 \in 1..Len(q)
    BY <1>3
  <2> QED BY <1>3, <2>1, <2>2
<1>9. DOMAIN r.pending = DOMAIN s.pending \ {id} /\ \A x \in DOMAIN r.pending : r.pending[x] = s.pending[x]
  BY DEF id, q, Without
(* Each message left was one of the handlers', and not the first of k. *)
<1>10. ASSUME NEW i \in 1..k, NEW j \in 1..Len(other[i].queue)
       PROVE  \E l \in 1..Len(stk[i].queue) :
                /\ other[i].queue[j] = stk[i].queue[l] /\ l = (IF i = k THEN j + 1 ELSE j)
                /\ stk[i].queue[l].id # id
  <2>1. CASE i = k
    <3>1. j + 1 \in 1..Len(q) /\ other[i].queue[j] = q[j + 1] /\ j + 1 # 1
      BY <1>8, <2>1
    <3>2. q[j + 1].id # id
      <4>1. Distinct(stk) /\ k \in 1..Len(stk) /\ 1 \in 1..Len(stk[k].queue) /\ j + 1 \in 1..Len(stk[k].queue)
        BY <1>1, <1>7, <3>1 DEF q
      <4>2. stk[k].queue[j + 1].id # stk[k].queue[1].id
        BY ONLY <3>1, <4>1 DEF Distinct
      <4> QED BY <1>7, <4>2 DEF q
    <3> QED BY <2>1, <3>1, <3>2 DEF q
  <2>2. CASE i # k
    <3>1. other[i].queue = stk[i].queue
      BY <1>6, <2>2
    <3>2. stk[i].queue[j].id # id
      BY <1>1, <1>7, <2>2, <3>1 DEF Distinct, q
    <3> QED BY <2>2, <3>1, <3>2
  <2> QED BY <2>1, <2>2
<1>11. Matches(r, other, k)
  <2>1. ASSUME NEW i \in 1..k, NEW j \in 1..Len(other[i].queue)
        PROVE  /\ other[i].queue[j].id \in DOMAIN r.pending
               /\ r.pending[other[i].queue[j].id] = other[i].queue[j].payout
    <3>1. PICK l \in 1..Len(stk[i].queue) :
            /\ other[i].queue[j] = stk[i].queue[l] /\ l = (IF i = k THEN j + 1 ELSE j)
            /\ stk[i].queue[l].id # id
      BY <1>10
    <3>2. /\ stk[i].queue[l].id \in DOMAIN s.pending
          /\ s.pending[stk[i].queue[l].id] = stk[i].queue[l].payout
      BY DEF Matches
    <3> DEFINE msg == other[i].queue[j]
    <3>3. msg.id \in DOMAIN s.pending /\ s.pending[msg.id] = msg.payout /\ msg.id # id
      BY <3>1, <3>2
    <3> HIDE DEF msg
    <3>4. msg.id \in DOMAIN r.pending /\ r.pending[msg.id] = msg.payout
      BY <1>9, <3>3
    <3> QED BY <3>4 DEF msg
  <2>2. ASSUME NEW x \in DOMAIN r.pending
        PROVE  \E i \in 1..k : \E j \in 1..Len(other[i].queue) : other[i].queue[j].id = x
    <3>1. x \in DOMAIN s.pending /\ x # id
      BY <1>9
    <3>2. PICK i \in 1..k : \E l \in 1..Len(stk[i].queue) : stk[i].queue[l].id = x
      BY <3>1 DEF Matches
    <3>3. PICK l \in 1..Len(stk[i].queue) : stk[i].queue[l].id = x
      BY <3>2
    <3>4. CASE i # k
      BY <1>6, <3>3, <3>4
    <3>5. CASE i = k
      <4>1. l \in 1..Len(q) /\ q[l].id = x
        BY <3>3, <3>5 DEF q
      <4>2. l # 1
        BY <1>7, <3>1, <4>1
      <4>3. l - 1 \in 1..Len(other[k].queue) /\ (l - 1) + 1 = l
        BY <1>3, <1>4, <1>5, <4>1, <4>2
      <4>4. other[k].queue[l - 1] = q[l]
        BY <1>8, <4>3
      <4> QED BY <1>1, <4>1, <4>3, <4>4
    <3> QED BY <3>4, <3>5
  <2> QED BY <2>1, <2>2 DEF Matches
<1>12. Distinct(other)
  <2> SUFFICES ASSUME NEW i \in 1..k, NEW m \in 1..k,
                      NEW j \in 1..Len(other[i].queue), NEW l \in 1..Len(other[m].queue),
                      other[i].queue[j].id = other[m].queue[l].id
               PROVE  i = m /\ j = l
    BY <1>5 DEF Distinct
  <2>1. PICK a \in 1..Len(stk[i].queue) :
          /\ other[i].queue[j] = stk[i].queue[a] /\ a = (IF i = k THEN j + 1 ELSE j)
          /\ stk[i].queue[a].id # id
    BY <1>10
  <2>2. PICK b \in 1..Len(stk[m].queue) :
          /\ other[m].queue[l] = stk[m].queue[b] /\ b = (IF m = k THEN l + 1 ELSE l)
          /\ stk[m].queue[b].id # id
    BY <1>10
  <2>3. i = m /\ a = b
    <3>1. stk[i].queue[a].id = stk[m].queue[b].id
      BY <2>1, <2>2
    <3>2. Distinct(stk) /\ i \in 1..Len(stk) /\ m \in 1..Len(stk)
      OBVIOUS
    <3> QED BY ONLY <3>1, <3>2, a \in 1..Len(stk[i].queue), b \in 1..Len(stk[m].queue) DEF Distinct
  <2>4. j \in Int /\ l \in Int
    OBVIOUS
  <2> QED BY <2>1, <2>2, <2>3, <2>4
<1>13. Nested(other)
  <2>1. \A i \in 1..k : i < k => other[i].running
    BY <1>5 DEF Nested
  <2>2. ASSUME NEW i \in 1..k, other[i].running
        PROVE  other[i].queue # << >> /\ StoreOK(other[i].saved) /\ Matches(other[i].saved, other, i)
    <3>1. i # k
      BY <1>4, <1>5, <2>2
    <3>2. other[i] = stk[i]
      BY <1>5, <3>1
    <3>3. stk[i].queue # << >> /\ StoreOK(stk[i].saved) /\ Matches(stk[i].saved, stk, i)
      BY <2>2, <3>2 DEF Nested
    <3>4. \A x \in 1..i : other[x].queue = stk[x].queue
      <4>1. \A x \in 1..i : x \in 1..k /\ x # k
        BY <1>1, <3>1
      <4> QED BY <1>6, <4>1
    <3>5. Matches(stk[i].saved, other, i)
      BY <3>3, <3>4, MatchesPrefix
    <3> QED BY <3>2, <3>3, <3>5
  <2> QED BY <1>5, <2>1, <2>2 DEF Nested
<1> QED BY <1>5, <1>11, <1>12, <1>13

(* The amount of the entry a reply takes out is added to what is paid or   *)
(* to what is orphaned.                                                    *)
LEMMA BooksKept ==
  ASSUME NEW s, StoreOK(s), NEW id \in DOMAIN s.pending, NEW r \in Storage,
         r.next = s.next, r.due = s.due, r.pending = Without(s.pending, id),
         \A t \in Tokens : r.orphaned[t] + r.paid[t] = s.orphaned[t] + s.paid[t]
                             + (IF s.pending[id].token = t THEN s.pending[id].amount ELSE 0)
  PROVE  StoreOK(r)
<1>1. s \in Storage /\ s.pending \in Pendings /\ s.pending[id] \in Payout
  BY PendingDomain DEF StoreOK, Storage
<1>2. ASSUME NEW t \in Tokens PROVE Accounted(r, t) = DueSum(Claims, t)
  <2> DEFINE a == PendingSum(r.pending, t)
             b == PendingSum(s.pending, t)
             x == IF s.pending[id].token = t THEN s.pending[id].amount ELSE 0
             d == DueSum(s.due, t)
             u == r.orphaned[t]
             v == r.paid[t]
             y == s.orphaned[t]
             z == s.paid[t]
  <2>1. r.pending \in Pendings /\ b = a + x
    <3> DEFINE rest == r.pending
    <3>1. rest = [e \in DOMAIN s.pending \ {id} |-> s.pending[e]]
      BY DEF Without
    <3> HIDE DEF rest
    <3>2. rest \in Pendings /\ PendingSum(s.pending, t) = PendingSum(rest, t) + x
      BY <1>1, <3>1, PendingWithout
    <3> QED BY <3>2 DEF rest
  <2>2. a \in Nat /\ b \in Nat /\ d \in Nat
    BY <1>1, <2>1, PendingSumNat, DueSumNat DEF Storage
  <2>3. u \in Nat /\ v \in Nat /\ y \in Nat /\ z \in Nat
    BY <1>1 DEF Storage
  <2>4. x \in Nat
    BY <1>1 DEF Payout
  <2>5. u + v = y + z + x
    OBVIOUS
  <2>6. Accounted(r, t) = d + a + u + v /\ Accounted(s, t) = d + b + y + z
    BY DEF Accounted
  <2>7. Accounted(s, t) = DueSum(Claims, t)
    BY DEF StoreOK
  <2> HIDE DEF a, b, x, d, u, v, y, z
  <2>8. d + a + u + v = d + b + y + z
    BY ONLY <2>1, <2>2, <2>3, <2>4, <2>5
  <2> QED BY <2>6, <2>7, <2>8
<1>3. \A x \in DOMAIN r.pending : x \in DOMAIN s.pending
  BY DEF Without
<1> QED BY <1>2, <1>3 DEF StoreOK

LEMMA ReplySucceeds ==
  ASSUME NEW s, StoreOK(s), NEW id \in DOMAIN s.pending,
         s.pending[id].amount <= s.bank[s.pending[id].token],
         NEW moved, moved = PaidOut(s, s.pending[id].token, s.pending[id].amount)
  PROVE  /\ StoreOK(Reply(moved, id, TRUE))
         /\ Reply(moved, id, TRUE).pending = Without(s.pending, id)
<1> DEFINE rest == Without(s.pending, id)
           token == s.pending[id].token
           amount == s.pending[id].amount
           bank == [s.bank EXCEPT ![token] = @ - amount]
           paid == [s.paid EXCEPT ![token] = @ + amount]
           r == [moved EXCEPT !.pending = rest]
<1>1. s \in Storage /\ s.pending \in Pendings /\ token \in Tokens /\ amount \in Nat
  BY PendingDomain DEF StoreOK, Storage, Payout
<1>2. bank \in [Tokens -> Nat] /\ paid \in [Tokens -> Nat]
  BY <1>1 DEF Storage
<1>3. rest \in Pendings
  BY <1>1, PendingWithout DEF Without
<1>4. moved = [s EXCEPT !.bank = bank, !.paid = paid]
  BY <1>1 DEF Storage, PaidOut
<1>5. moved.pending = s.pending
  BY <1>1, <1>4 DEF Storage
<1>6. Reply(moved, id, TRUE) = r
  BY <1>5 DEF Reply, Without
<1>7. \A t \in Tokens : paid[t] = s.paid[t] + (IF token = t THEN amount ELSE 0)
  BY <1>1 DEF Storage
<1>8. /\ r \in Storage /\ r.pending = rest /\ r.next = s.next /\ r.due = s.due
      /\ r.orphaned = s.orphaned /\ r.paid = paid
  <2> HIDE DEF rest, bank, paid
  <2> QED BY <1>1, <1>2, <1>3, <1>4 DEF Storage
<1>9. \A t \in Tokens : s.orphaned[t] \in Nat /\ s.paid[t] \in Nat
  BY <1>1 DEF Storage
<1> HIDE DEF r, paid
<1>10. \A t \in Tokens : r.orphaned[t] + r.paid[t] = s.orphaned[t] + s.paid[t]
                             + (IF s.pending[id].token = t THEN s.pending[id].amount ELSE 0)
  BY <1>1, <1>7, <1>8, <1>9
<1>11. StoreOK(r)
  BY <1>8, <1>10, BooksKept
<1> HIDE DEF rest
<1>12. StoreOK(Reply(moved, id, TRUE)) /\ Reply(moved, id, TRUE).pending = rest
  BY <1>6, <1>8, <1>11
<1> QED BY <1>12 DEF rest

LEMMA ReplyFails ==
  ASSUME NEW s, StoreOK(s), NEW id \in DOMAIN s.pending
  PROVE  /\ StoreOK(Reply(s, id, FALSE))
         /\ Reply(s, id, FALSE).pending = Without(s.pending, id)
<1> DEFINE rest == Without(s.pending, id)
           token == s.pending[id].token
           amount == s.pending[id].amount
           orphaned == [s.orphaned EXCEPT ![token] = @ + amount]
           r == [s EXCEPT !.pending = rest, !.orphaned = orphaned]
<1>1. s \in Storage /\ s.pending \in Pendings /\ token \in Tokens /\ amount \in Nat
  BY PendingDomain DEF StoreOK, Storage, Payout
<1>2. orphaned \in [Tokens -> Nat]
  BY <1>1 DEF Storage
<1>3. rest \in Pendings
  BY <1>1, PendingWithout DEF Without
<1>4. Reply(s, id, FALSE) = r
  BY <1>1 DEF Reply, Storage, Without
<1>5. \A t \in Tokens : orphaned[t] = s.orphaned[t] + (IF token = t THEN amount ELSE 0)
  BY <1>1 DEF Storage
<1>6. /\ r \in Storage /\ r.pending = rest /\ r.next = s.next /\ r.due = s.due
      /\ r.orphaned = orphaned /\ r.paid = s.paid
  <2> HIDE DEF rest, orphaned
  <2> QED BY <1>1, <1>2, <1>3 DEF Storage
<1>7. \A t \in Tokens : s.orphaned[t] \in Nat /\ s.paid[t] \in Nat
  BY <1>1 DEF Storage
<1> HIDE DEF r, orphaned
<1>8. \A t \in Tokens : r.orphaned[t] + r.paid[t] = s.orphaned[t] + s.paid[t]
                            + (IF s.pending[id].token = t THEN s.pending[id].amount ELSE 0)
  BY <1>1, <1>5, <1>6, <1>7
<1>9. StoreOK(r)
  BY <1>6, <1>8, BooksKept
<1> HIDE DEF rest
<1>10. StoreOK(Reply(s, id, FALSE)) /\ Reply(s, id, FALSE).pending = rest
  BY <1>4, <1>6, <1>9
<1> QED BY <1>10 DEF rest
-----------------------------------------------------------------------------
LEMMA HeadPending ==
  ASSUME NEW stk \in Seq(Frames), NEW k \in 1..Len(stk), stk[k].queue # << >>, NEW s, Matches(s, stk, k)
  PROVE  LET msg == Head(stk[k].queue)
         IN  msg.id \in DOMAIN s.pending /\ s.pending[msg.id] = msg.payout
<1> DEFINE q == stk[k].queue
<1>1. q \in Seq(Message) /\ q # << >>
  BY StackFacts
<1>2. 1 \in 1..Len(q) /\ Head(q) = q[1]
  BY <1>1, EmptySeq, LenProperties, HeadTailProperties
<1>3. k \in 1..k
  BY LenProperties
<1> QED BY <1>2, <1>3 DEF Matches

LEMMA BeginInv ==
  ASSUME TransferInv, Begin
  PROVE  TransferInv'
<1> DEFINE k == Len(stack)
           frame == [stack[k] EXCEPT !.running = TRUE, !.saved = store]
<1>1. /\ StoreOK(store) /\ StoreOK(committed) /\ DOMAIN committed.pending = {}
      /\ stack \in Seq(Frames) /\ Distinct(stack) /\ Nested(stack) /\ Matches(store, stack, k)
  BY DEF TransferInv
<1>2. /\ stack # << >> /\ stack[k].queue # << >> /\ stack' = [stack EXCEPT ![k] = frame]
      /\ store' = store /\ committed' = committed
  BY DEF Begin, SetTop, Top
<1>3. k \in Nat /\ k \in 1..k /\ stack[k] \in Frames /\ stack \in [1..k -> Frames]
  BY <1>1, <1>2, StackFacts, LenProperties
<1>4. frame \in Frames /\ frame.queue = stack[k].queue /\ frame.running /\ frame.saved = store
  BY <1>1, <1>3 DEF Frames, StoreOK
<1> HIDE DEF frame
<1>5. stack' \in Seq(Frames) /\ Len(stack') = k /\ stack'[k] = frame
      /\ \A i \in 1..k : i # k => stack'[i] = stack[i]
  <2> HIDE DEF k
  <2>1. stack' \in [1..k -> Frames] /\ stack'[k] = frame /\ \A i \in 1..k : i # k => stack'[i] = stack[i]
    BY <1>2, <1>3, <1>4
  <2> QED BY <1>3, <2>1
<1>6. \A i \in 1..k : stack'[i].queue = stack[i].queue
  BY <1>4, <1>5
<1> HIDE DEF k
<1>7. Matches(store, stack', k)
  BY <1>1, <1>6, MatchesPrefix
<1>8. Distinct(stack')
  <2> SUFFICES ASSUME NEW i \in 1..k, NEW m \in 1..k,
                      NEW j \in 1..Len(stack'[i].queue), NEW l \in 1..Len(stack'[m].queue),
                      stack'[i].queue[j].id = stack'[m].queue[l].id
               PROVE  i = m /\ j = l
    BY <1>5 DEF Distinct
  <2>1. stack'[i].queue = stack[i].queue /\ stack'[m].queue = stack[m].queue
    BY <1>6
  <2>2. /\ j \in 1..Len(stack[i].queue) /\ l \in 1..Len(stack[m].queue)
        /\ stack[i].queue[j].id = stack[m].queue[l].id
    BY <2>1
  <2> QED BY <1>1, <2>2 DEF Distinct, k
<1>9. Nested(stack')
  <2>1. \A i \in 1..k : i < k => stack'[i].running
    BY <1>1, <1>4, <1>5 DEF Nested, k
  <2>2. ASSUME NEW i \in 1..k, stack'[i].running
        PROVE  stack'[i].queue # << >> /\ StoreOK(stack'[i].saved) /\ Matches(stack'[i].saved, stack', i)
    <3>1. CASE i = k
      BY <1>1, <1>2, <1>4, <1>5, <1>7, <3>1
    <3>2. CASE i # k
      <4>1. stack'[i] = stack[i]
        BY <1>5, <3>2
      <4>2. stack[i].queue # << >> /\ StoreOK(stack[i].saved) /\ Matches(stack[i].saved, stack, i)
        BY <1>1, <2>2, <4>1 DEF Nested, k
      <4>3. \A x \in 1..i : stack'[x].queue = stack[x].queue
        BY <1>3, <1>6
      <4>4. Matches(stack[i].saved, stack', i)
        BY <4>2, <4>3, MatchesPrefix
      <4> QED BY <4>1, <4>2, <4>4
    <3> QED BY <3>1, <3>2
  <2> QED BY <1>5, <2>1, <2>2 DEF Nested
<1> QED BY <1>1, <1>2, <1>5, <1>7, <1>8, <1>9 DEF TransferInv

LEMMA SucceedInv ==
  ASSUME TransferInv, Succeed
  PROVE  TransferInv'
<1> DEFINE k == Len(stack)
           msg == Head(stack[k].queue)
           moved == [store EXCEPT !.bank[msg.payout.token] = @ - msg.payout.amount,
                                  !.paid[msg.payout.token] = @ + msg.payout.amount]
<1>1. /\ StoreOK(store) /\ StoreOK(committed) /\ DOMAIN committed.pending = {}
      /\ stack \in Seq(Frames) /\ Distinct(stack) /\ Nested(stack) /\ Matches(store, stack, k)
  BY DEF TransferInv
<1>2. /\ stack # << >> /\ stack[k].running /\ msg.payout.amount <= store.bank[msg.payout.token]
      /\ store' = Reply(moved, msg.id, TRUE)
      /\ stack' = [stack EXCEPT ![k] = Settled(stack[k])] /\ committed' = committed
  BY DEF Succeed, SetTop, Top
<1>3. k \in Nat /\ k > 0 /\ k \in 1..k
  <2>1. k \in Nat /\ k > 0
    BY <1>1, <1>2, StackFacts
  <2> HIDE DEF k
  <2> QED BY <2>1
<1>4. stack[k].queue # << >>
  BY <1>1, <1>2, <1>3 DEF Nested
<1>5. msg.id \in DOMAIN store.pending /\ store.pending[msg.id] = msg.payout
  BY <1>1, <1>3, <1>4, HeadPending
<1>6. /\ StoreOK(store')
      /\ store'.pending = Without(store.pending, msg.id)
  <2> DEFINE id == msg.id
  <2>1. /\ id \in DOMAIN store.pending
        /\ store.pending[id].amount <= store.bank[store.pending[id].token]
        /\ moved = PaidOut(store, store.pending[id].token, store.pending[id].amount)
    BY <1>2, <1>5 DEF PaidOut
  <2> HIDE DEF id, moved
  <2>2. StoreOK(Reply(moved, id, TRUE)) /\ Reply(moved, id, TRUE).pending = Without(store.pending, id)
    BY <1>1, <2>1, ReplySucceeds
  <2> QED BY <1>2, <2>2 DEF id
<1> HIDE DEF k
<1>7. /\ stack' \in Seq(Frames) /\ Len(stack') = k
      /\ Distinct(stack') /\ Nested(stack') /\ Matches(store', stack', k)
  <2> DEFINE r == store'
             other == stack'
  <2>1. k = Len(stack) /\ other = SettledAt(stack, k)
    BY <1>2 DEF k, SettledAt
  <2>2. r.pending = Without(store.pending, Head(stack[k].queue).id)
    BY <1>6
  <2>3. k > 0 /\ stack[k].running
    BY <1>2, <1>3
  <2> HIDE DEF r, other, msg, moved
  <2>4. /\ other \in Seq(Frames) /\ Len(other) = k
        /\ Distinct(other) /\ Nested(other) /\ Matches(r, other, k)
    BY ONLY <1>1, <2>1, <2>2, <2>3, SettleStack
  <2> QED BY <2>4 DEF r, other
<1> QED BY <1>1, <1>2, <1>6, <1>7 DEF TransferInv

LEMMA FailInv ==
  ASSUME TransferInv, NEW i \in DOMAIN stack, Fail(i)
  PROVE  TransferInv'
<1> DEFINE base == SubSeq(stack, 1, i)
           s == stack[i].saved
           id == Head(stack[i].queue).id
<1>1. /\ StoreOK(committed) /\ DOMAIN committed.pending = {}
      /\ stack \in Seq(Frames) /\ Distinct(stack) /\ Nested(stack)
  BY DEF TransferInv
<1>2. /\ stack[i].running /\ store' = Reply(s, id, FALSE)
      /\ stack' = [base EXCEPT ![i] = Settled(base[i])] /\ committed' = committed
  BY DEF Fail
<1>3. i \in 1..Len(stack) /\ Len(stack) \in Nat /\ i \in Nat /\ i > 0 /\ i \in 1..i
  BY <1>1, StackFacts
<1>4. /\ base \in Seq(Frames) /\ Len(base) = i /\ \A x \in 1..i : base[x] = stack[x]
  BY <1>1, <1>3, SubSeqProperties
<1>5. stack[i].queue # << >> /\ StoreOK(s) /\ Matches(s, stack, i)
  BY <1>1, <1>2, <1>3 DEF Nested
<1>6. id \in DOMAIN s.pending
  BY <1>1, <1>3, <1>5, HeadPending
<1> HIDE DEF base
<1>7. /\ StoreOK(store')
      /\ store'.pending = Without(s.pending, id)
  BY <1>2, <1>5, <1>6, ReplyFails
<1>8. Distinct(base) /\ Nested(base)
  <2>1. Len(base) <= Len(stack) /\ \A x \in 1..Len(base) : base[x] = stack[x]
    BY <1>3, <1>4
  <2> QED BY <1>1, <1>4, <2>1, PrefixNested
<1>9. Matches(s, base, i)
  BY <1>4, <1>5, MatchesPrefix
<1>10. /\ stack' \in Seq(Frames) /\ Len(stack') = i
       /\ Distinct(stack') /\ Nested(stack') /\ Matches(store', stack', i)
  <2>1. base[i] = stack[i] /\ base[i].running /\ i = Len(base)
    BY <1>2, <1>3, <1>4
  <2>2. store'.pending = Without(s.pending, Head(base[i].queue).id)
    BY <1>7, <2>1
  <2> DEFINE r == store'
             other == stack'
  <2>3. /\ other = SettledAt(base, i)
        /\ r.pending = Without(s.pending, Head(base[i].queue).id)
    BY <1>2, <2>2 DEF SettledAt
  <2> HIDE DEF s, id, r, other
  <2>4. /\ other \in Seq(Frames) /\ Len(other) = i
        /\ Distinct(other) /\ Nested(other) /\ Matches(r, other, i)
    BY ONLY <1>3, <1>4, <1>8, <1>9, <2>1, <2>3, SettleStack
  <2> QED BY <2>4 DEF r, other
<1> QED BY <1>1, <1>2, <1>7, <1>10 DEF TransferInv

LEMMA ReturnInv ==
  ASSUME TransferInv, Return
  PROVE  TransferInv'
<1> DEFINE k == Len(stack)
<1>1. /\ StoreOK(store) /\ StoreOK(committed) /\ DOMAIN committed.pending = {}
      /\ stack \in Seq(Frames) /\ Distinct(stack) /\ Nested(stack) /\ Matches(store, stack, k)
  BY DEF TransferInv
<1>2. /\ stack # << >> /\ stack[k].queue = << >> /\ stack' = Front(stack) /\ store' = store
      /\ committed' = IF k = 1 THEN store ELSE committed
  BY DEF Return, Top
<1>3. k \in Nat /\ k > 0 /\ stack[k].queue = << >>
  BY <1>1, <1>2, StackFacts
<1>4. /\ stack' \in Seq(Frames) /\ Len(stack') = k - 1
      /\ \A x \in 1..(k - 1) : stack'[x] = stack[x]
  <2>1. stack' = SubSeq(stack, 1, k - 1)
    BY <1>2 DEF Front
  <2>2. \A x \in 1..(k - 1) : x \in 1..k
    BY <1>3
  <2> DEFINE front == SubSeq(stack, 1, k - 1)
             m == k - 1
  <2>3. 1 \in 1..(k + 1) /\ m \in 0..k /\ m - 1 + 1 = m /\ m \in Nat
    BY <1>3
  <2>4. /\ front \in Seq(Frames) /\ Len(front) = (IF 1 <= m THEN m - 1 + 1 ELSE 0)
        /\ \A x \in 1..(m - 1 + 1) : front[x] = stack[1 + x - 1]
    <3> HIDE DEF m
    <3> QED BY <1>1, <2>3, SubSeqProperties DEF m
  <2>5. \A x \in 1..m : 1 + x - 1 = x
    OBVIOUS
  <2> HIDE DEF front
  <2> QED BY <1>3, <2>1, <2>3, <2>4, <2>5 DEF front
<1>5. Distinct(stack') /\ Nested(stack')
  <2>1. Len(stack') <= Len(stack) /\ \A x \in 1..Len(stack') : stack'[x] = stack[x]
    BY <1>3, <1>4
  <2> QED BY <1>1, <1>4, <2>1, PrefixNested
<1>6. \A x \in 1..k : x = k \/ x \in 1..(k - 1)
  BY <1>3
<1>7. Len(stack[k].queue) = 0
  BY <1>3
<1> HIDE DEF k
<1>8. ASSUME NEW id \in DOMAIN store.pending
      PROVE  \E x \in 1..(k - 1) : \E j \in 1..Len(stack[x].queue) : stack[x].queue[j].id = id
  <2>1. PICK x \in 1..k : \E j \in 1..Len(stack[x].queue) : stack[x].queue[j].id = id
    BY <1>1 DEF Matches
  <2>2. x # k
    BY <1>7, <2>1
  <2> QED BY <1>6, <2>1, <2>2
<1>9. Matches(store, stack, k - 1)
  <2>1. \A x \in 1..(k - 1) : x \in 1..k
    BY <1>3
  <2> QED BY <1>1, <1>8, <2>1 DEF Matches
<1>10. Matches(store, stack', k - 1)
  BY <1>4, <1>9, MatchesPrefix
<1>11. StoreOK(committed') /\ DOMAIN committed'.pending = {}
  <2>1. CASE k = 1
    <3>1. DOMAIN store.pending = {}
      BY <1>8, <2>1
    <3> QED BY <1>1, <1>2, <2>1, <3>1
  <2>2. CASE k # 1
    BY <1>1, <1>2, <2>2
  <2> QED BY <2>1, <2>2
<1> QED BY <1>1, <1>2, <1>4, <1>5, <1>10, <1>11 DEF TransferInv

(* Nothing runs and nothing is pending. *)
LEMMA QuietInv ==
  ASSUME StoreOK(store), StoreOK(committed), DOMAIN store.pending = {},
         DOMAIN committed.pending = {}, stack = << >>
  PROVE  TransferInv
<1>1. stack \in Seq(Frames) /\ Len(stack) = 0
  BY EmptySeq
<1>2. Distinct(stack) /\ Nested(stack) /\ Matches(store, stack, Len(stack))
  BY <1>1 DEF Distinct, Nested, Matches
<1> QED BY <1>1, <1>2 DEF TransferInv

LEMMA ClaimInv ==
  ASSUME TransferInv, NEW C \in SUBSET Claims, Claim(C)
  PROVE  TransferInv'
<1> DEFINE s == [store EXCEPT !.due = @ \ C]
           payouts == ClaimPayouts(C)
<1>1. store \in Storage /\ C \subseteq store.due /\ Handle(s, payouts)
  BY DEF TransferInv, StoreOK, Claim
<1>2. /\ s \in Storage /\ s.due = store.due \ C /\ s.next = store.next /\ s.pending = store.pending
      /\ s.orphaned = store.orphaned /\ s.paid = store.paid
  BY <1>1 DEF Storage
<1> HIDE DEF s, payouts
<1>3. payouts \in Seq(Payout) /\ \A t \in Tokens : PaySum(payouts, t) = DueSum(C, t)
  BY ClaimPayoutsSum DEF payouts
<1>4. ASSUME NEW t \in Tokens
      PROVE  DueSum(s.due, t) + s.orphaned[t] + s.paid[t] + PaySum(payouts, t)
               = DueSum(store.due, t) + store.orphaned[t] + store.paid[t]
  <2>1. DueSum(store.due, t) = DueSum(store.due \ C, t) + DueSum(C, t)
    <3> DEFINE f == [c \in Claims |-> IF TokenOf[c] = t THEN AmountOf[c] ELSE 0]
               U == store.due
    <3>1. NumClaims \in Nat /\ C \subseteq U /\ \A c \in 1..NumClaims : c \in U => f[c] \in Int
      BY <1>1, ClaimsAssumption DEF Claims
    <3> HIDE DEF f, U
    <3>2. SumIn(U, NumClaims, f) = SumIn(U \ C, NumClaims, f) + SumIn(C, NumClaims, f)
      BY ONLY <3>1, SumInSplit
    <3> QED BY <3>2 DEF DueSum, f, U
  <2> DEFINE a == DueSum(s.due, t)
             b == DueSum(C, t)
             d == DueSum(store.due, t)
             x == store.orphaned[t]
             y == store.paid[t]
  <2>2. a \in Nat /\ b \in Nat /\ d \in Nat /\ x \in Nat /\ y \in Nat
    BY <1>1, <1>2, DueSumNat DEF Storage
  <2>3. d = a + b
    BY <1>2, <2>1
  <2>4. PaySum(payouts, t) = b /\ s.orphaned[t] = x /\ s.paid[t] = y
    BY <1>2, <1>3
  <2> HIDE DEF a, b, d, x, y
  <2>5. a + x + y + b = d + x + y
    BY ONLY <2>2, <2>3
  <2> QED BY <2>4, <2>5 DEF a, b, d, x, y
<1> QED BY <1>1, <1>2, <1>3, <1>4, HandleInv

LEMMA ClaimOrphanedInv ==
  ASSUME TransferInv, ClaimOrphaned
  PROVE  TransferInv'
<1> DEFINE s == [store EXCEPT !.orphaned = NoTokens]
           payouts == OrphanPayouts(store.orphaned)
<1>1. store \in Storage /\ Handle(s, payouts)
  BY DEF TransferInv, StoreOK, ClaimOrphaned
<1>2. NoTokens \in [Tokens -> Nat] /\ \A t \in Tokens : NoTokens[t] = 0
  BY DEF NoTokens
<1>3. /\ s \in Storage /\ s.due = store.due /\ s.next = store.next /\ s.pending = store.pending
      /\ s.orphaned = NoTokens /\ s.paid = store.paid
  BY <1>1, <1>2 DEF Storage
<1> HIDE DEF s, payouts
<1>4. payouts \in Seq(Payout) /\ \A t \in Tokens : PaySum(payouts, t) = store.orphaned[t]
  BY <1>1, OrphanPayoutsSum DEF payouts, Storage
<1>5. ASSUME NEW t \in Tokens
      PROVE  DueSum(s.due, t) + s.orphaned[t] + s.paid[t] + PaySum(payouts, t)
               = DueSum(store.due, t) + store.orphaned[t] + store.paid[t]
  <2> DEFINE d == DueSum(store.due, t)
             x == store.orphaned[t]
             y == store.paid[t]
  <2>1. d \in Nat /\ x \in Nat /\ y \in Nat
    BY <1>1, DueSumNat DEF Storage
  <2>2. DueSum(s.due, t) = d /\ PaySum(payouts, t) = x /\ s.orphaned[t] = 0 /\ s.paid[t] = y
    BY <1>2, <1>3, <1>4
  <2> HIDE DEF d, x, y
  <2>3. d + 0 + y + x = d + x + y
    BY ONLY <2>1
  <2> QED BY <2>2, <2>3 DEF d, x, y
<1> QED BY <1>1, <1>3, <1>4, <1>5, HandleInv

LEMMA AbortInv ==
  ASSUME TransferInv, Abort
  PROVE  TransferInv'
<1>1. /\ StoreOK(committed) /\ DOMAIN committed.pending = {}
      /\ stack' = << >> /\ store' = committed /\ committed' = committed
  BY DEF TransferInv, Abort
<1>2. stack' \in Seq(Frames) /\ Len(stack') = 0
  BY <1>1, EmptySeq
<1>3. Distinct(stack') /\ Nested(stack') /\ Matches(store', stack', Len(stack'))
  BY <1>1, <1>2 DEF Distinct, Nested, Matches
<1> QED BY <1>1, <1>2, <1>3 DEF TransferInv

LEMMA TransferInvInit ==
  ASSUME Init
  PROVE  TransferInv
<1> DEFINE none == [id \in {} |-> 0]
<1>1. /\ store = [due |-> Claims, next |-> FirstReplyId, pending |-> none,
                  orphaned |-> NoTokens, bank |-> Funds, paid |-> NoTokens]
      /\ stack = << >> /\ committed = store
  BY DEF Init
<1>2. NoTokens \in [Tokens -> Nat] /\ (\A t \in Tokens : NoTokens[t] = 0) /\ Funds \in [Tokens -> Nat]
  BY ClaimsAssumption DEF NoTokens
<1>3. DOMAIN none = {} /\ none \in [{} -> Payout]
  OBVIOUS
<1>4. FirstReplyId \in Nat
  BY DEF FirstReplyId, PostTransferReplyId
<1> HIDE DEF none
<1>5. none \in Pendings
  BY <1>3, PendingIs
<1>6. store \in Storage
  BY <1>1, <1>2, <1>4, <1>5 DEF Storage
<1>7. ASSUME NEW t \in Tokens PROVE Accounted(store, t) = DueSum(Claims, t)
  <2>1. PendingSum(none, t) = 0
    <3> DEFINE f == [id \in DOMAIN none |-> IF none[id].token = t THEN none[id].amount ELSE 0]
               U == DOMAIN none
    <3>1. U = {} /\ MaxReplyId \in Nat
      BY <1>3, ClaimsAssumption
    <3> HIDE DEF f, U
    <3>3. SumIn({}, MaxReplyId, f) = 0
      BY <3>1, SumInNone
    <3> QED BY <3>1, <3>3 DEF PendingSum, f, U
  <2>2. DueSum(Claims, t) \in Nat
    BY DueSumNat
  <2>3. Accounted(store, t) = DueSum(Claims, t) + 0 + 0 + 0
    BY <1>1, <1>2, <2>1 DEF Accounted
  <2> QED BY <2>2, <2>3
<1>8. StoreOK(store) /\ DOMAIN store.pending = {}
  BY <1>1, <1>3, <1>4, <1>6, <1>7 DEF StoreOK
<1> QED BY <1>1, <1>8, QuietInv

LEMMA TransferInvNext ==
  ASSUME TransferInv, [Next]_vars
  PROVE  TransferInv'
<1>1. CASE \E C \in SUBSET Claims : Claim(C)
  BY <1>1, ClaimInv
<1>2. CASE ClaimOrphaned
  BY <1>2, ClaimOrphanedInv
<1>3. CASE Begin
  BY <1>3, BeginInv
<1>4. CASE Succeed
  BY <1>4, SucceedInv
<1>5. CASE \E i \in DOMAIN stack : Fail(i)
  BY <1>5, FailInv
<1>6. CASE Return
  BY <1>6, ReturnInv
<1>7. CASE Abort
  BY <1>7, AbortInv
<1>8. CASE UNCHANGED vars
  BY <1>8 DEF vars, TransferInv, StoreOK, Accounted, Distinct, Nested, Matches
<1> QED BY <1>1, <1>2, <1>3, <1>4, <1>5, <1>6, <1>7, <1>8 DEF Next, Execute

LEMMA TransferInvAlways == Spec => []TransferInv
<1>1. Init => TransferInv
  BY TransferInvInit
<1>2. TransferInv /\ [Next]_vars => TransferInv'
  BY TransferInvNext
<1> QED BY <1>1, <1>2, PTL DEF Spec
-----------------------------------------------------------------------------
(* Due claims, ids, payloads and balances keep their types. *)
THEOREM TransfersTypeCorrect == Spec => []TypeOK
<1>1. TransferInv => TypeOK
  <2> SUFFICES ASSUME TransferInv PROVE TypeOK
    OBVIOUS
  <2>1. store \in Storage
    BY DEF TransferInv, StoreOK
  <2>2. \A id \in DOMAIN store.pending :
          id \in PostTransferReplyId + 1..MaxReplyId /\ store.pending[id] \in Payout
    BY <2>1, PendingDomain DEF Storage, FirstReplyId
  <2> QED BY <2>1, <2>2 DEF Storage, TypeOK
<1> QED BY <1>1, TransferInvAlways, PTL

(* The pending entries are exactly the transfers still to be replied to,   *)
(* each with its own payload, however deep handlers nest and whatever is   *)
(* rolled back.                                                            *)
THEOREM PendingAlwaysInFlight == Spec => []PendingMatchesInFlight
<1>1. TransferInv => PendingMatchesInFlight
  <2> SUFFICES ASSUME TransferInv PROVE PendingMatchesInFlight
    OBVIOUS
  <2> DEFINE k == Len(stack)
  <2>1. stack \in Seq(Frames) /\ Matches(store, stack, k)
    BY DEF TransferInv
  <2>2. DOMAIN stack = 1..k /\ \A i \in 1..k : DOMAIN stack[i].queue = 1..Len(stack[i].queue)
    BY <2>1, StackFacts
  <2>3. ASSUME NEW msg \in InFlight
        PROVE  msg.id \in DOMAIN store.pending /\ store.pending[msg.id] = msg.payout
    <3>1. PICK i \in 1..k : msg \in Range(stack[i].queue)
      BY <2>2 DEF InFlight
    <3>2. PICK j \in 1..Len(stack[i].queue) : msg = stack[i].queue[j]
      BY <2>2, <3>1 DEF Range
    <3> QED BY <2>1, <3>2 DEF Matches
  <2>4. ASSUME NEW id \in DOMAIN store.pending
        PROVE  \E msg \in InFlight : msg.id = id
    <3>1. PICK i \in 1..k : \E j \in 1..Len(stack[i].queue) : stack[i].queue[j].id = id
      BY <2>1 DEF Matches
    <3>2. PICK j \in 1..Len(stack[i].queue) : stack[i].queue[j].id = id
      BY <3>1
    <3>3. stack[i].queue[j] \in Range(stack[i].queue)
      BY <2>2 DEF Range
    <3>4. stack[i].queue[j] \in InFlight
      BY <2>2, <3>3 DEF InFlight
    <3> QED BY <3>2, <3>4
  <2> QED BY <2>3, <2>4 DEF PendingMatchesInFlight
<1> QED BY <1>1, TransferInvAlways, PTL

(* Every unit that was due is due, in flight, orphaned or paid, and once.  *)
THEOREM NothingEverLostOrDoubled == Spec => []NothingLostOrDoubled
<1>1. TransferInv => NothingLostOrDoubled
  BY DEF TransferInv, StoreOK, NothingLostOrDoubled
<1> QED BY <1>1, TransferInvAlways, PTL
=============================================================================
