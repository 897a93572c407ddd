----------------------- MODULE NotificationCycle_proofs -----------------------
(***************************************************************************)
(* The notification cycle, for any cycles and commands under way at once   *)
(* and any limits: what is marked as seen is announced, and once; what a   *)
(* cycle has given back after a failure is not forgotten; a start changes  *)
(* only its own activation.                                                *)
(*                                                                         *)
(* Each step of a cycle works on its own record, so the invariants are     *)
(* said of one cycle's place and data (ShapeOf, ClaimsOf, OneClaimEach),   *)
(* and a step shows them of its next place and data.  A cycle works on the *)
(* claims that it has (Claims): an update is claimed by one cycle, which   *)
(* has it once, is not announced while it is claimed, and what is seen and *)
(* not claimed is accounted for (ClaimInv).  What was given back is either *)
(* stored or where the only cycle under way looks for it (KeptInv).        *)
(***************************************************************************)
EXTENDS NotificationCycle, TLAPS, FiniteSetTheorems, FunctionTheorems

(* Sequences of items and their ids.                                       *)

LEMMA EmptyIds == Ids(<<>>) = {}
  BY DEF Ids

LEMMA ItemsAre ==
  ASSUME NEW s \in Seq(Item)
  PROVE  Ids(s) \subseteq Update /\ \A n \in DOMAIN s : s[n] \in Item /\ s[n].id \in Update
<1>1. \A n \in DOMAIN s : s[n] \in Item
  OBVIOUS
<1>2. \A x \in Item : x.id \in Update
  BY DEF Item
<1> QED BY <1>1, <1>2 DEF Ids

LEMMA JoinedIds ==
  ASSUME NEW s \in Seq(Item), NEW t \in Seq(Item)
  PROVE  s \o t \in Seq(Item) /\ Ids(s \o t) = Ids(s) \cup Ids(t)
<1> DEFINE u == s \o t
<1>1. /\ u \in Seq(Item) /\ Len(u) = Len(s) + Len(t)
      /\ \A n \in 1 .. Len(s) : u[n] = s[n]
      /\ \A n \in 1 .. Len(t) : u[Len(s) + n] = t[n]
  OBVIOUS
<1>2. ASSUME NEW n \in DOMAIN u PROVE u[n].id \in Ids(s) \cup Ids(t)
  <2>1. CASE n <= Len(s)
    BY <1>1, <2>1 DEF Ids
  <2>2. CASE n > Len(s)
    <3>1. n - Len(s) \in 1 .. Len(t) /\ n = Len(s) + (n - Len(s))
      BY <1>1, <2>2
    <3> QED BY <1>1, <3>1 DEF Ids
  <2> QED BY <2>1, <2>2, <1>1
<1>3. ASSUME NEW n \in DOMAIN s PROVE s[n].id \in Ids(u)
  <2>1. n \in DOMAIN u /\ u[n] = s[n]
    BY <1>1
  <2> HIDE DEF u
  <2> QED BY <2>1 DEF Ids
<1>4. ASSUME NEW n \in DOMAIN t PROVE t[n].id \in Ids(u)
  <2>1. Len(s) + n \in DOMAIN u /\ u[Len(s) + n] = t[n]
    BY <1>1
  <2> HIDE DEF u
  <2> QED BY <2>1 DEF Ids
<1> QED
  <2>1. u \in Seq(Item)
    BY <1>1
  <2> HIDE DEF u
  <2>2. Ids(u) = Ids(s) \cup Ids(t)
    BY <1>2, <1>3, <1>4 DEF Ids
  <2> QED BY <2>1, <2>2 DEF u

LEMMA AppendedIds ==
  ASSUME NEW s \in Seq(Item), NEW x \in Item
  PROVE  Append(s, x) \in Seq(Item) /\ Ids(Append(s, x)) = Ids(s) \cup {x.id}
<1> DEFINE u == Append(s, x)
<1>1. /\ u \in Seq(Item) /\ Len(u) = Len(s) + 1
      /\ \A n \in 1 .. Len(s) : u[n] = s[n]
      /\ u[Len(s) + 1] = x
  OBVIOUS
<1> HIDE DEF u
<1>2. DOMAIN u = 1 .. Len(s) + 1 /\ DOMAIN s = 1 .. Len(s) /\ Len(s) \in Nat
  BY <1>1
<1>3. \A n \in DOMAIN u : n \in DOMAIN s \/ n = Len(s) + 1
  BY <1>2
<1>4. DOMAIN s \subseteq DOMAIN u /\ Len(s) + 1 \in DOMAIN u
  BY <1>2
<1>5. Ids(u) \subseteq Ids(s) \cup {x.id}
  BY <1>1, <1>2, <1>3 DEF Ids
<1>6. Ids(s) \cup {x.id} \subseteq Ids(u)
  BY <1>1, <1>2, <1>4 DEF Ids
<1> QED BY <1>1, <1>5, <1>6 DEF u

LEMMA OneId ==
  ASSUME NEW x \in Item
  PROVE  <<x>> \in Seq(Item) /\ Ids(<<x>>) = {x.id} /\ <<x>> # <<>> /\ Len(<<x>>) = 1 /\ Head(<<x>>) = x
<1>1. <<x>> \in Seq(Item) /\ Len(<<x>>) = 1 /\ DOMAIN <<x>> = {1} /\ <<x>>[1] = x
  OBVIOUS
<1> QED BY <1>1 DEF Ids

LEMMA HeadAndTail ==
  ASSUME NEW s \in Seq(Item), s # <<>>
  PROVE  /\ s[1] \in Item /\ Head(s) = s[1] /\ Tail(s) \in Seq(Item) /\ Len(Tail(s)) = Len(s) - 1
         /\ Ids(s) = {s[1].id} \cup Ids(Tail(s))
         /\ \A n \in DOMAIN Tail(s) : n + 1 \in DOMAIN s /\ Tail(s)[n] = s[n + 1]
<1> DEFINE u == Tail(s)
<1>1. /\ u \in Seq(Item) /\ Len(u) = Len(s) - 1 /\ 1 \in DOMAIN s /\ DOMAIN s = 1 .. Len(s) /\ Len(s) \in Nat
      /\ \A n \in DOMAIN u : n + 1 \in DOMAIN s /\ u[n] = s[n + 1]
      /\ s[1] \in Item /\ Head(s) = s[1]
  OBVIOUS
<1> HIDE DEF u
<1>2. DOMAIN u = 1 .. Len(s) - 1
  BY <1>1
<1>3. \A n \in DOMAIN s : n = 1 \/ (n - 1 \in DOMAIN u /\ n = (n - 1) + 1)
  BY <1>1, <1>2
<1>4. \A n \in DOMAIN s : n = 1 \/ (n - 1 \in DOMAIN u /\ s[n] = u[n - 1])
  BY <1>1, <1>3
<1>5. Ids(s) \subseteq {s[1].id} \cup Ids(u)
  BY <1>4 DEF Ids
<1>6. {s[1].id} \cup Ids(u) \subseteq Ids(s)
  BY <1>1 DEF Ids
<1> QED BY <1>1, <1>5, <1>6 DEF u

LEMMA Part ==
  ASSUME NEW s \in Seq(Item), NEW m \in 1 .. Len(s) + 1, NEW n \in 0 .. Len(s)
  PROVE  /\ SubSeq(s, m, n) \in Seq(Item) /\ Ids(SubSeq(s, m, n)) = {s[k].id : k \in m .. n}
         /\ Len(SubSeq(s, m, n)) = IF m <= n THEN n - m + 1 ELSE 0
         /\ \A k \in DOMAIN SubSeq(s, m, n) : k + m - 1 \in m .. n /\ SubSeq(s, m, n)[k] = s[k + m - 1]
<1> DEFINE u == SubSeq(s, m, n)
           d == IF m <= n THEN n - m + 1 ELSE 0
<1>1. u = [k \in 1 .. d |-> s[k + m - 1]]
  OBVIOUS
<1>2. d \in Nat /\ \A k \in 1 .. d : k + m - 1 \in m .. n /\ k + m - 1 \in 1 .. Len(s)
  OBVIOUS
<1>3. \A k \in 1 .. d : s[k + m - 1] \in Item
  BY <1>2
<1> HIDE DEF u
<1>a. u \in [1 .. d -> Item]
  BY <1>1, <1>3
<1> HIDE DEF d
<1>4. u \in Seq(Item) /\ Len(u) = d /\ DOMAIN u = 1 .. d
  BY <1>a, <1>2
<1>5. \A k \in DOMAIN u : k + m - 1 \in m .. n /\ u[k] = s[k + m - 1]
  BY <1>1, <1>2, <1>4
<1>6. Ids(u) \subseteq {s[k].id : k \in m .. n}
  BY <1>5 DEF Ids
<1>7. \A k \in m .. n : k - m + 1 \in 1 .. d /\ (k - m + 1) + m - 1 = k
  BY DEF d
<1>8. \A k \in m .. n : k - m + 1 \in DOMAIN u /\ u[k - m + 1] = s[k]
  BY <1>7, <1>4, <1>5
<1>9. {s[k].id : k \in m .. n} \subseteq Ids(u)
  BY <1>8 DEF Ids
<1> QED BY <1>4, <1>5, <1>6, <1>9 DEF u, d

(* The positions in a set are numbered without gaps: the rank of a position *)
(* in the set is an injection onto 1 .. Cardinality.                        *)
LEMMA Positions ==
  ASSUME NEW N \in Nat, NEW K \in SUBSET (1 .. N)
  PROVE  /\ Cardinality(K) \in Nat
         /\ \A n \in 1 .. Cardinality(K) : Position(K, n) \in K
         /\ \A k \in K : \E n \in 1 .. Cardinality(K) : Position(K, n) = k
<1> DEFINE Below(k) == {j \in K : j <= k}
           rank == [k \in K |-> Cardinality(Below(k))]
           C == Cardinality(K)
<1>1. IsFiniteSet(K) /\ C \in Nat
  <2>1. IsFiniteSet(1 .. N)
    BY FS_Interval
  <2>2. IsFiniteSet(K)
    BY <2>1, FS_Subset
  <2> QED BY <2>2, FS_CardinalityType
<1>2. ASSUME NEW k \in K PROVE IsFiniteSet(Below(k)) /\ rank[k] \in 1 .. C
  <2>1. Below(k) \in SUBSET K
    OBVIOUS
  <2>2. IsFiniteSet(Below(k)) /\ Cardinality(Below(k)) \in Nat /\ Cardinality(Below(k)) <= C
    BY <1>1, <2>1, FS_Subset, FS_CardinalityType
  <2>3. k \in Below(k)
    OBVIOUS
  <2>4. Cardinality(Below(k)) # 0
    BY <2>2, <2>3, FS_EmptySet
  <2> QED BY <2>2, <2>4, <1>1
<1>3. ASSUME NEW k \in K, NEW l \in K, k < l PROVE rank[k] # rank[l]
  <2>1. Below(k) \in SUBSET Below(l) /\ l \in Below(l) /\ l \notin Below(k)
    <3>1. \A j \in K : j \in Nat
      OBVIOUS
    <3>2. \A j \in K : j <= k => j <= l
      BY <3>1, <1>3
    <3>3. ~(l <= k) /\ l <= l
      BY <3>1, <1>3
    <3> QED BY <3>2, <3>3
  <2>2. IsFiniteSet(Below(l)) /\ Below(k) # Below(l)
    BY <2>1, <1>2
  <2>3. Cardinality(Below(l)) # Cardinality(Below(k))
    BY <2>1, <2>2, FS_Subset
  <2> QED BY <2>3
<1>4. rank \in [K -> 1 .. C]
  BY <1>2
<1>a. \A k, l \in K : rank[k] = rank[l] => k = l
  <2>1. \A k, l \in K : k < l \/ l < k \/ k = l
    OBVIOUS
  <2> HIDE DEF rank
  <2> QED BY <2>1, <1>3
<1>5. rank \in Surjection(K, 1 .. C)
  <2>1. IsFiniteSet(1 .. C) /\ Cardinality(1 .. C) = C
    BY <1>1, FS_Interval
  <2> HIDE DEF rank, C
  <2>2. rank \in Injection(K, 1 .. C)
    BY <1>4, <1>a, Fun_IsInj
  <2> QED BY <2>1, <2>2, FS_Injection DEF C
<1>6. \A n \in 1 .. C : \E k \in K : rank[k] = n
  <2> HIDE DEF rank
  <2> QED BY <1>5, Fun_SurjectionProperties
<1>7. ASSUME NEW n \in 1 .. C PROVE Position(K, n) \in K /\ rank[Position(K, n)] = n
  <2>1. \E k \in K : Cardinality({j \in K : j <= k}) = n
    BY <1>6
  <2> QED BY <2>1 DEF Position
<1>8. ASSUME NEW k \in K PROVE Position(K, rank[k]) = k
  <2>1. rank[k] \in 1 .. C
    BY <1>2
  <2>2. Position(K, rank[k]) \in K /\ rank[Position(K, rank[k])] = rank[k]
    BY <1>7, <2>1
  <2> HIDE DEF rank
  <2> QED BY <2>2, <1>a
<1>9. \A k \in K : rank[k] \in 1 .. C
  BY <1>2
<1> HIDE DEF rank
<1> QED BY <1>1, <1>7, <1>8, <1>9

LEMMA PickedIds ==
  ASSUME NEW s \in Seq(Item), NEW K \in SUBSET DOMAIN s
  PROVE  /\ Picked(s, K) \in Seq(Item) /\ Ids(Picked(s, K)) = {s[k].id : k \in K}
         /\ \A n \in DOMAIN Picked(s, K) : \E k \in K : Picked(s, K)[n] = s[k]
<1> DEFINE u == Picked(s, K)
           C == Cardinality(K)
<1>1. Len(s) \in Nat /\ K \in SUBSET (1 .. Len(s)) /\ \A k \in K : s[k] \in Item
  OBVIOUS
<1>2. /\ C \in Nat
      /\ \A n \in 1 .. C : Position(K, n) \in K
      /\ \A k \in K : \E n \in 1 .. C : Position(K, n) = k
  BY <1>1, Positions
<1>3. u = [n \in 1 .. C |-> s[Position(K, n)]]
  BY DEF Picked
<1> HIDE DEF u, C
<1>4. u \in [1 .. C -> Item]
  BY <1>1, <1>2, <1>3
<1>5. u \in Seq(Item) /\ DOMAIN u = 1 .. C
  BY <1>2, <1>4
<1>6. \A n \in DOMAIN u : \E k \in K : u[n] = s[k]
  BY <1>2, <1>3, <1>5
<1>7. \A k \in K : \E n \in DOMAIN u : u[n] = s[k]
  BY <1>2, <1>3, <1>5
<1>8. Ids(u) = {s[k].id : k \in K}
  BY <1>6, <1>7 DEF Ids
<1> QED BY <1>5, <1>6, <1>8 DEF u

-----------------------------------------------------------------------------
(* The helpers of the cycle: the queue it builds, what it gives back, and  *)
(* the messages it cuts its batch into.                                    *)

(* No update is in q twice, but for those spared. *)
Distinct(q, spared) == \A m, n \in DOMAIN q : q[m].id = q[n].id => m = n \/ q[m].id \in spared

LEMMA NewestTyped ==
  ASSUME CycleAssumption, NEW q \in Seq(Item)
  PROVE  Newest(q) \in Seq(Item)
<1>1. QueueLimit \in Nat \ {0} /\ Len(q) \in Nat
  BY DEF CycleAssumption
<1>2. (IF Len(q) > QueueLimit THEN Len(q) - QueueLimit + 1 ELSE 1) \in 1 .. Len(q) + 1 /\ Len(q) \in 0 .. Len(q)
  BY <1>1
<1> QED BY <1>2, Part DEF Newest

LEMMA FreshTyped ==
  ASSUME CycleAssumption, NEW q \in Seq(Item), NEW old \in 0 .. Len(q)
  PROVE  Fresh(q, old) \in Seq(Item)
<1> DEFINE K == {n \in old + 1 .. Len(q) : q[n].attempts < MaxAttempts}
<1>1. K \in SUBSET DOMAIN q
  OBVIOUS
<1> HIDE DEF K
<1>2. Picked(q, K) \in Seq(Item)
  BY <1>1, PickedIds
<1>3. Newest(Picked(q, K)) \in Seq(Item)
  BY <1>2, NewestTyped
<1> QED BY <1>3 DEF Fresh, K

LEMMA WithFeedTyped ==
  ASSUME CycleAssumption, NEW q \in Seq(Item), NEW feed \in 0 .. Published
  PROVE  WithFeed(q, feed) \in Seq(Item)
<1>1. CASE feed = 0 \/ feed \in Ids(q)
  BY <1>1 DEF WithFeed
<1>2. CASE ~(feed = 0 \/ feed \in Ids(q))
  <2>1. [id |-> feed, attempts |-> 0] \in Item
    BY <1>2 DEF CycleAssumption, Item, Update
  <2>2. Append(q, [id |-> feed, attempts |-> 0]) \in Seq(Item)
    BY <2>1, AppendedIds
  <2> QED BY <1>2, <2>2, NewestTyped DEF WithFeed
<1> QED BY <1>1, <1>2

LEMMA QueueTyped ==
  ASSUME CycleAssumption, NEW q \in Seq(Item), NEW old \in 0 .. Len(q), NEW feed \in 0 .. Published
  PROVE  WithFeed(Fresh(q, old), feed) \in Seq(Item)
BY FreshTyped, WithFeedTyped

LEMMA GivenBackKeeps ==
  ASSUME CycleAssumption, NEW data \in CycleData, NEW items \in Seq(Item)
  PROVE  LET back == GivenBack(data, items) IN
         /\ back \in CycleData /\ back.hand = <<>> /\ back.failed = <<>> /\ back.batch = data.batch
         /\ Ids(back.queue) \cup back.dead = Ids(data.queue) \cup data.dead \cup Ids(items)
<1> DEFINE K == DOMAIN items \ Last(items)
           again == Picked(items, K)
           queued == [n \in DOMAIN again |-> [again[n] EXCEPT !.attempts = @ + 1]]
<1>1. /\ again \in Seq(Item) /\ Ids(again) = {items[k].id : k \in K}
      /\ \A n \in DOMAIN again : \E k \in K : again[n] = items[k]
  <2>1. K \in SUBSET DOMAIN items
    OBVIOUS
  <2> HIDE DEF K
  <2> QED BY <2>1, PickedIds
<1>2. \A k \in K : items[k] \in Item /\ items[k].attempts + 1 < MaxAttempts
  <2>1. \A k \in K : items[k] \in Item
    OBVIOUS
  <2> QED BY <2>1 DEF Last, LastAttempt, Item, CycleAssumption
<1> HIDE DEF again, K
<1>3. \A n \in DOMAIN again : /\ [again[n] EXCEPT !.attempts = @ + 1] \in Item
                              /\ [again[n] EXCEPT !.attempts = @ + 1].id = again[n].id
  <2>1. \A x \in Item : x.attempts + 1 < MaxAttempts => /\ [x EXCEPT !.attempts = @ + 1] \in Item
                                                        /\ [x EXCEPT !.attempts = @ + 1].id = x.id
    BY DEF Item, CycleAssumption
  <2> QED BY <2>1, <1>1, <1>2
<1>4. queued \in Seq(Item) /\ DOMAIN queued = DOMAIN again
  <2>1. DOMAIN again = 1 .. Len(again) /\ Len(again) \in Nat
    BY <1>1
  <2>2. queued \in [1 .. Len(again) -> Item]
    BY <1>3, <2>1
  <2> QED BY <2>1, <2>2
<1>5. Ids(queued) = Ids(again)
  BY <1>3 DEF Ids
<1> HIDE DEF queued
<1>6. queued \o data.queue \in Seq(Item) /\ Ids(queued \o data.queue) = Ids(queued) \cup Ids(data.queue)
  BY <1>4, JoinedIds DEF CycleData
<1>7. DeadOf(items) = {items[k].id : k \in Last(items)} /\ DeadOf(items) \subseteq Update
  <2>1. \A k \in Last(items) : items[k] \in Item
    BY DEF Last
  <2> QED BY <2>1 DEF DeadOf, Item
<1>8. Ids(items) = Ids(again) \cup DeadOf(items)
  BY <1>1, <1>7 DEF Ids, K, Last
<1>9. GivenBack(data, items) =
      [data EXCEPT !.queue = queued \o @, !.dead = @ \cup DeadOf(items), !.hand = <<>>, !.failed = <<>>]
  BY DEF GivenBack, queued, again, K
<1>10. <<>> \in Seq(Item)
  OBVIOUS
<1> QED
  <2>1. /\ GivenBack(data, items).queue = queued \o data.queue
        /\ GivenBack(data, items).dead = data.dead \cup DeadOf(items)
        /\ GivenBack(data, items).hand = <<>> /\ GivenBack(data, items).failed = <<>>
        /\ GivenBack(data, items).batch = data.batch
    BY <1>9 DEF CycleData
  <2>2. GivenBack(data, items) \in CycleData
    BY <1>9, <1>6, <1>7, <1>10 DEF CycleData
  <2> QED BY <2>1, <2>2, <1>5, <1>6, <1>8

LEMMA InHandIs ==
  ASSUME TypeOK, NEW c \in Cycle
  PROVE  InHand(c) =
        Ids(cyc[c].queue) \cup Ids(cyc[c].batch) \cup Ids(cyc[c].hand) \cup Ids(cyc[c].failed) \cup cyc[c].dead
<1>1. /\ cyc[c].queue \in Seq(Item) /\ cyc[c].batch \in Seq(Item) /\ cyc[c].hand \in Seq(Item)
      /\ cyc[c].failed \in Seq(Item)
  BY DEF TypeOK, CycleData
<1>2. /\ cyc[c].queue \o cyc[c].batch \in Seq(Item)
      /\ Ids(cyc[c].queue \o cyc[c].batch) = Ids(cyc[c].queue) \cup Ids(cyc[c].batch)
  BY <1>1, JoinedIds
<1>3. /\ cyc[c].queue \o cyc[c].batch \o cyc[c].hand \in Seq(Item)
      /\ Ids(cyc[c].queue \o cyc[c].batch \o cyc[c].hand) =
            Ids(cyc[c].queue) \cup Ids(cyc[c].batch) \cup Ids(cyc[c].hand)
  BY <1>1, <1>2, JoinedIds
<1>4. Ids(cyc[c].queue \o cyc[c].batch \o cyc[c].hand \o cyc[c].failed)
        = Ids(cyc[c].queue) \cup Ids(cyc[c].batch) \cup Ids(cyc[c].hand) \cup Ids(cyc[c].failed)
  BY <1>1, <1>3, JoinedIds
<1> QED BY <1>4 DEF InHand

LEMMA Chunks ==
  ASSUME CycleAssumption, TypeOK, NEW c \in Cycle, NEW D
  PROVE  /\ ChunkOf(c) \in Seq(Item) /\ AfterChunk(c) \in Seq(Item)
         /\ Ids(cyc[c].batch) = Ids(ChunkOf(c)) \cup Ids(AfterChunk(c))
         /\ Distinct(cyc[c].batch, D) =>
               Distinct(AfterChunk(c), D) /\ Ids(ChunkOf(c)) \cap Ids(AfterChunk(c)) \subseteq D
<1> DEFINE b == cyc[c].batch
           p == IF Len(b) > PerMessage THEN PerMessage ELSE Len(b)
<1>1. b \in Seq(Item) /\ Len(b) \in Nat /\ DOMAIN b = 1 .. Len(b)
  BY DEF TypeOK, CycleData
<1>2. p \in 0 .. Len(b) /\ 1 \in 1 .. Len(b) + 1 /\ p + 1 \in 1 .. Len(b) + 1 /\ Len(b) \in 0 .. Len(b)
  BY <1>1 DEF CycleAssumption
<1>3. ChunkOf(c) = SubSeq(b, 1, p)
  BY DEF ChunkOf
<1> HIDE DEF b, p
<1>4. ChunkOf(c) \in Seq(Item) /\ Ids(ChunkOf(c)) = {b[k].id : k \in 1 .. p} /\ Len(ChunkOf(c)) = p
  BY <1>1, <1>2, <1>3, Part
<1>5. AfterChunk(c) = SubSeq(b, p + 1, Len(b))
  BY <1>4 DEF AfterChunk, b
<1>6. /\ AfterChunk(c) \in Seq(Item) /\ Ids(AfterChunk(c)) = {b[k].id : k \in p + 1 .. Len(b)}
      /\ \A k \in DOMAIN AfterChunk(c) : k + p \in p + 1 .. Len(b) /\ AfterChunk(c)[k] = b[k + p]
  <2> DEFINE m == p + 1
             n == Len(b)
             rest == SubSeq(b, m, n)
  <2>1. m \in 1 .. Len(b) + 1 /\ n \in 0 .. Len(b)
    BY <1>2
  <2> HIDE DEF m, n
  <2>2. /\ rest \in Seq(Item) /\ Ids(rest) = {b[k].id : k \in m .. n}
        /\ \A k \in DOMAIN rest : k + m - 1 \in m .. n /\ rest[k] = b[k + m - 1]
    BY <1>1, <2>1, Part
  <2>3. \A k \in DOMAIN rest : k \in Int
    BY <2>2
  <2>4. \A k \in Int : k + m - 1 = k + p
    BY <1>2 DEF m
  <2>5. AfterChunk(c) = rest /\ m = p + 1 /\ n = Len(b)
    BY <1>5 DEF m, n
  <2> HIDE DEF rest
  <2> QED BY <2>2, <2>3, <2>4, <2>5
<1>7. 1 .. Len(b) = (1 .. p) \cup (p + 1 .. Len(b)) /\ (1 .. p) \cap (p + 1 .. Len(b)) = {}
  BY <1>1, <1>2
<1>8. Ids(b) = Ids(ChunkOf(c)) \cup Ids(AfterChunk(c))
  BY <1>1, <1>4, <1>6, <1>7 DEF Ids
<1>9. ASSUME Distinct(b, D) PROVE Distinct(AfterChunk(c), D) /\ Ids(ChunkOf(c)) \cap Ids(AfterChunk(c)) \subseteq D
  <2>1. \A k, l \in 1 .. Len(b) : b[k].id = b[l].id => k = l \/ b[k].id \in D
    BY <1>1, <1>9 DEF Distinct
  <2>2. Ids(ChunkOf(c)) \cap Ids(AfterChunk(c)) \subseteq D
    BY <2>1, <1>4, <1>6, <1>7
  <2>3. Distinct(AfterChunk(c), D)
    <3> SUFFICES ASSUME NEW k \in DOMAIN AfterChunk(c), NEW l \in DOMAIN AfterChunk(c),
                        AfterChunk(c)[k].id = AfterChunk(c)[l].id
                 PROVE  k = l \/ AfterChunk(c)[k].id \in D
      BY DEF Distinct
    <3>1. k \in Int /\ l \in Int /\ p \in Int
      BY <1>2, <1>6
    <3>2. k + p \in 1 .. Len(b) /\ l + p \in 1 .. Len(b)
      BY <1>6, <1>7
    <3>3. k + p = l + p \/ AfterChunk(c)[k].id \in D
      BY <2>1, <1>6, <3>2
    <3> QED BY <3>1, <3>3
  <2> QED BY <2>2, <2>3
<1> QED BY <1>4, <1>6, <1>8, <1>9 DEF b

-----------------------------------------------------------------------------
(* Types.  A cycle's data has a shape at each of its places; in particular *)
(* what is left of a failed send when the channel is given up was dropped. *)

ShapeOf(p, d, dropped) ==
    /\ p = "idle" => d = NoData
    /\ p \in {"upsert", "unclaim"} => Len(d.hand) = 1
    /\ p = "undo" => d.hand # <<>> /\ Ids(d.hand) \subseteq Ids(d.failed)
    /\ p \notin {"upsert", "unclaim", "undo"} => d.hand = <<>>
    /\ p \notin {"claim", "upsert", "unclaim", "send"} => d.batch = <<>>
    /\ p \notin {"undo", "disable", "persist", "deadLetter"} => d.failed = <<>>
    /\ p \in {"persist", "deadLetter"} => Ids(d.failed) \subseteq dropped
    /\ p = "send" => d.batch # <<>>
ShapeInv == \A c \in Cycle : ShapeOf(pc[c], cyc[c], excused["drop"])
TypeInv == TypeOK /\ ShapeInv

LEMMA NoDataTyped == ASSUME CycleAssumption PROVE NoData \in CycleData /\ <<>> \in Seq(Item)
<1>1. <<>> \in Seq(Item)
  OBVIOUS
<1> QED BY <1>1 DEF NoData, CycleData, CycleAssumption

LEMMA Excused ==
  ASSUME TypeOK, NEW why \in Excuses, NEW items \in SUBSET Update, Excuse(why, items)
  PROVE  /\ excused' \in [Excuses -> SUBSET Update]
         /\ excused'[why] = excused[why] \cup items
         /\ \A w \in Excuses : excused[w] \subseteq excused'[w] /\ (w # why => excused'[w] = excused[w])
BY DEF TypeOK, Excuse

LEMMA HandsTyped ==
  ASSUME TypeOK
  PROVE  /\ \A c \in Cycle : /\ cyc[c] \in CycleData
                             /\ cyc[c].queue \in Seq(Item) /\ cyc[c].batch \in Seq(Item)
                             /\ cyc[c].hand \in Seq(Item) /\ cyc[c].failed \in Seq(Item)
                             /\ Ids(cyc[c].queue) \subseteq Update /\ Ids(cyc[c].batch) \subseteq Update
                             /\ Ids(cyc[c].hand) \subseteq Update /\ Ids(cyc[c].failed) \subseteq Update
                             /\ cyc[c].dead \subseteq Update
                             /\ InHand(c) \subseteq Update
         /\ Ids(pending) \subseteq Update /\ InFlight \subseteq Update
<1>1. ASSUME NEW c \in Cycle
      PROVE  /\ cyc[c] \in CycleData
             /\ cyc[c].queue \in Seq(Item) /\ cyc[c].batch \in Seq(Item)
             /\ cyc[c].hand \in Seq(Item) /\ cyc[c].failed \in Seq(Item)
             /\ Ids(cyc[c].queue) \subseteq Update /\ Ids(cyc[c].batch) \subseteq Update
             /\ Ids(cyc[c].hand) \subseteq Update /\ Ids(cyc[c].failed) \subseteq Update
             /\ cyc[c].dead \subseteq Update /\ InHand(c) \subseteq Update
  <2>1. /\ cyc[c] \in CycleData
        /\ cyc[c].queue \in Seq(Item) /\ cyc[c].batch \in Seq(Item)
        /\ cyc[c].hand \in Seq(Item) /\ cyc[c].failed \in Seq(Item) /\ cyc[c].dead \subseteq Update
    BY DEF TypeOK, CycleData
  <2>2. /\ Ids(cyc[c].queue) \subseteq Update /\ Ids(cyc[c].batch) \subseteq Update
        /\ Ids(cyc[c].hand) \subseteq Update /\ Ids(cyc[c].failed) \subseteq Update
    BY <2>1, ItemsAre
  <2> QED BY <2>1, <2>2, InHandIs
<1>2. Ids(pending) \subseteq Update
  BY ItemsAre DEF TypeOK
<1> QED BY <1>1, <1>2 DEF InFlight

(* What the proof of a step shows apart from what it leaves alone. *)
CyclesTyped ==
    /\ pc \in [Cycle -> Places] /\ cyc \in [Cycle -> CycleData] /\ ShapeInv
    /\ excused \in [Excuses -> SUBSET Update]
Excusing == UNCHANGED excused \/ \E why \in Excuses : \E items \in SUBSET Update : Excuse(why, items)

LEMMA ExcusesGrow ==
  ASSUME TypeOK, Excusing
  PROVE  /\ excused' \in [Excuses -> SUBSET Update]
         /\ \A w \in Excuses : excused[w] \subseteq excused'[w]
         /\ excused["drop"] \subseteq excused'["drop"]
<1>1. CASE UNCHANGED excused
  BY <1>1 DEF TypeOK
<1>2. CASE \E why \in Excuses : \E items \in SUBSET Update : Excuse(why, items)
  BY <1>2, Excused DEF Excuses
<1> QED BY <1>1, <1>2 DEF Excusing

LEMMA CycleMoves ==
  ASSUME TypeInv, NEW c \in Cycle, NEW p \in Places, NEW d \in CycleData,
         pc' = [pc EXCEPT ![c] = p], cyc' = [cyc EXCEPT ![c] = d],
         Excusing, ShapeOf(p, d, excused'["drop"])
  PROVE  CyclesTyped'
<1>1. /\ pc' \in [Cycle -> Places] /\ cyc' \in [Cycle -> CycleData] /\ pc'[c] = p /\ cyc'[c] = d
      /\ \A e \in Cycle \ {c} : pc'[e] = pc[e] /\ cyc'[e] = cyc[e]
  BY DEF TypeInv, TypeOK
<1>0. excused' \in [Excuses -> SUBSET Update] /\ excused["drop"] \subseteq excused'["drop"]
  BY ExcusesGrow DEF TypeInv
<1>2. ASSUME NEW e \in Cycle PROVE ShapeOf(pc'[e], cyc'[e], excused'["drop"])
  <2>1. CASE e = c
    BY <1>1, <2>1
  <2>2. CASE e # c
    <3>1. ShapeOf(pc[e], cyc[e], excused["drop"])
      BY DEF TypeInv, ShapeInv
    <3> QED BY <1>0, <1>1, <2>2, <3>1 DEF ShapeOf
  <2> QED BY <2>1, <2>2
<1> QED BY <1>0, <1>1, <1>2 DEF CyclesTyped, ShapeInv

(* A cycle that only changes its place. *)
LEMMA CycleGoes ==
  ASSUME TypeInv, NEW c \in Cycle, NEW p \in Places, Goto(c, p), UNCHANGED cyc,
         Excusing, ShapeOf(p, cyc[c], excused'["drop"])
  PROVE  CyclesTyped'
<1>1. cyc' = [cyc EXCEPT ![c] = cyc[c]] /\ pc' = [pc EXCEPT ![c] = p] /\ cyc[c] \in CycleData
  BY DEF Goto, TypeInv, TypeOK
<1> QED BY <1>1, CycleMoves

(* One that only changes its data. *)
LEMMA CycleHolds ==
  ASSUME TypeInv, NEW c \in Cycle, NEW d \in CycleData, UNCHANGED pc, cyc' = [cyc EXCEPT ![c] = d],
         Excusing, ShapeOf(pc[c], d, excused'["drop"])
  PROVE  CyclesTyped'
<1>1. pc' = [pc EXCEPT ![c] = pc[c]] /\ pc[c] \in Places
  BY DEF TypeInv, TypeOK
<1> QED BY <1>1, CycleMoves

LEMMA CyclesStay ==
  ASSUME TypeInv, UNCHANGED <<pc, cyc>>, Excusing
  PROVE  CyclesTyped'
<1>1. excused' \in [Excuses -> SUBSET Update] /\ excused["drop"] \subseteq excused'["drop"]
  BY ExcusesGrow DEF TypeInv
<1>2. ASSUME NEW e \in Cycle PROVE ShapeOf(pc'[e], cyc'[e], excused'["drop"])
  <2>1. ShapeOf(pc[e], cyc[e], excused["drop"])
    BY DEF TypeInv, ShapeInv
  <2> QED BY <1>1, <2>1 DEF ShapeOf
<1> QED BY <1>1, <1>2 DEF CyclesTyped, ShapeInv, TypeInv, TypeOK

LEMMA CycleEnds ==
  ASSUME CycleAssumption, TypeInv, NEW c \in Cycle, End(c), Excusing
  PROVE  CyclesTyped'
<1>1. pc' = [pc EXCEPT ![c] = "idle"] /\ cyc' = [cyc EXCEPT ![c] = NoData]
  BY DEF End, Goto
<1>2. ShapeOf("idle", NoData, excused'["drop"])
  BY EmptyIds DEF ShapeOf, NoData
<1> QED BY <1>1, <1>2, CycleMoves, NoDataTyped DEF Places

LEMMA Faults ==
  ASSUME TypeOK, CycleAssumption PROVE (Fault \/ NoFault) => faults' \in 0 .. MaxFaults
BY DEF TypeOK, Fault, NoFault, CycleAssumption

LEMMA FindTyped ==
  ASSUME CycleAssumption, TypeInv, NEW c \in Cycle, Find(c) PROVE TypeInv'
<1> DEFINE d == [NoData EXCEPT !.channel = sub.channel, !.current = current, !.queue = pending]
<1>1. d \in CycleData /\ ShapeOf("feed", d, excused'["drop"])
  BY NoDataTyped DEF TypeInv, TypeOK, CycleData, NoData, Subscription, ShapeOf
<1>2. pc' = [pc EXCEPT ![c] = "feed"] /\ cyc' = [cyc EXCEPT ![c] = d] /\ Excusing
  BY DEF Find, Goto, Excusing
<1> HIDE DEF d
<1>3. CyclesTyped'
  BY <1>1, <1>2, CycleMoves DEF Places
<1> QED BY <1>3 DEF CyclesTyped, TypeInv, TypeOK, Find, guild, feeds, out, admin

LEMMA LoadFeedTyped ==
  ASSUME CycleAssumption, TypeInv, NEW c \in Cycle, LoadFeed(c) PROVE TypeInv'
<1> USE DEF TypeInv
<1>1. Excusing
  BY DEF LoadFeed, ghost, Excusing
<1>2. cyc[c] \in CycleData /\ ShapeOf("feed", cyc[c], excused["drop"]) /\ excused["drop"] \subseteq excused'["drop"]
  BY <1>1, ExcusesGrow, HandsTyped DEF LoadFeed, ShapeInv
<1>3. ASSUME NEW f \in 0 .. Published, cyc' = [cyc EXCEPT ![c].feed = f], Goto(c, "channel") PROVE CyclesTyped'
  <2> DEFINE d == [cyc[c] EXCEPT !.feed = f]
  <2>1. d \in CycleData /\ ShapeOf("channel", d, excused'["drop"])
    BY <1>2 DEF ShapeOf, CycleData
  <2>2. cyc' = [cyc EXCEPT ![c] = d] /\ pc' = [pc EXCEPT ![c] = "channel"]
    BY <1>3 DEF Goto
  <2> HIDE DEF d
  <2> QED BY <1>1, <2>1, <2>2, CycleMoves DEF Places
<1>4. ASSUME UNCHANGED cyc, Goto(c, "channel") PROVE CyclesTyped'
  <2>1. ShapeOf("channel", cyc[c], excused'["drop"])
    BY <1>2 DEF ShapeOf
  <2> QED BY <1>1, <1>4, <2>1, CycleGoes DEF Places
<1>5. latest \in 0 .. Published /\ snapshot \in 0 .. Published
  BY DEF TypeOK, CycleAssumption
<1>6. CyclesTyped'
  BY <1>1, <1>3, <1>4, <1>5, CycleEnds DEF LoadFeed
<1>7. snapshot' \in 0 .. latest' /\ faults' \in 0 .. MaxFaults
  BY Faults DEF LoadFeed, TypeOK, CycleAssumption
<1> QED BY <1>6, <1>7 DEF CyclesTyped, TypeOK, LoadFeed, guild, out, admin, ghost

LEMMA ResolveChannelTyped ==
  ASSUME CycleAssumption, TypeInv, NEW c \in Cycle, ResolveChannel(c) PROVE TypeInv'
<1> USE DEF TypeInv
<1>1. /\ cyc[c] \in CycleData /\ cyc[c].queue \in Seq(Item) /\ cyc[c].feed \in 0 .. Published
      /\ Ids(cyc[c].queue) \subseteq Update /\ ShapeOf("channel", cyc[c], excused["drop"])
  BY HandsTyped DEF CycleData, ResolveChannel, ShapeInv
<1>2. ASSUME NEW old \in 0 .. Len(cyc[c].queue), NEW q, q = WithFeed(Fresh(cyc[c].queue, old), cyc[c].feed),
             cyc' = [cyc EXCEPT ![c].queue = q], Excuse("drop", Ids(cyc[c].queue) \ Ids(q)),
             Goto(c, IF cyc[c].current THEN "claim" ELSE "seed")
      PROVE  CyclesTyped'
  <2> DEFINE d == [cyc[c] EXCEPT !.queue = q]
             p == IF cyc[c].current THEN "claim" ELSE "seed"
  <2>1. q \in Seq(Item)
    BY <1>1, <1>2, QueueTyped
  <2>2. Ids(cyc[c].queue) \ Ids(q) \in SUBSET Update /\ "drop" \in Excuses
    BY <1>1 DEF Excuses
  <2>3. Excusing
    BY <1>2, <2>2 DEF Excusing
  <2>4. d \in CycleData /\ ShapeOf(p, d, excused'["drop"])
    BY <1>1, <2>1 DEF CycleData, ShapeOf
  <2>5. cyc' = [cyc EXCEPT ![c] = d] /\ pc' = [pc EXCEPT ![c] = p] /\ p \in Places
    BY <1>2 DEF Goto, Places
  <2> HIDE DEF d, p
  <2> QED BY <2>3, <2>4, <2>5, CycleMoves
<1>3. ASSUME End(c), UNCHANGED excused PROVE CyclesTyped'
  BY <1>3, CycleEnds DEF Excusing
<1>4. ASSUME Goto(c, "giveUp"), UNCHANGED <<cyc, excused>> PROVE CyclesTyped'
  <2>1. ShapeOf("giveUp", cyc[c], excused'["drop"])
    BY <1>1, <1>4 DEF ShapeOf
  <2> QED BY <1>4, <2>1, CycleGoes DEF Places, Excusing
<1>5. CyclesTyped'
  BY <1>2, <1>3, <1>4 DEF ResolveChannel
<1>6. faults' \in 0 .. MaxFaults
  BY Faults DEF ResolveChannel
<1> QED BY <1>5, <1>6 DEF CyclesTyped, TypeOK, ResolveChannel, guild, feeds, out, admin

LEMMA DisableTyped ==
  ASSUME CycleAssumption, TypeInv, NEW c \in Cycle, DisableForChannelError(c)
  PROVE  Excusing /\ sub' \in Subscription /\ faults' \in 0 .. MaxFaults
<1>1. Ids(cyc[c].failed) \in SUBSET Update /\ InFlight \in SUBSET Update /\ "drop" \in Excuses
  BY HandsTyped DEF TypeInv, Excuses
<1>2. Excusing
  BY <1>1 DEF DisableForChannelError, Excusing
<1> QED BY <1>2, Faults DEF DisableForChannelError, TypeInv, TypeOK, Subscription, Off

LEMMA GiveUpTyped ==
  ASSUME CycleAssumption, TypeInv, NEW c \in Cycle, GiveUp(c) PROVE TypeInv'
<1>1. Excusing /\ sub' \in Subscription /\ faults' \in 0 .. MaxFaults
  BY DisableTyped DEF GiveUp
<1>2. CyclesTyped'
  BY <1>1, CycleEnds DEF GiveUp
<1> QED BY <1>1, <1>2 DEF CyclesTyped, TypeInv, TypeOK, GiveUp, feeds, out, admin

LEMMA RebaselineTyped ==
  ASSUME CycleAssumption, TypeInv, NEW c \in Cycle, Rebaseline(c) PROVE TypeInv'
<1> USE DEF TypeInv
<1>1. ShapeOf("seed", cyc[c], excused["drop"]) /\ UNCHANGED excused /\ Excusing
  BY DEF Rebaseline, ShapeInv, Excusing
<1>2. CASE Goto(c, "version") /\ UNCHANGED cyc
  <2>1. ShapeOf("version", cyc[c], excused'["drop"])
    BY <1>1 DEF ShapeOf
  <2> QED
    <3>1. CyclesTyped'
      BY <1>1, <1>2, <2>1, CycleGoes DEF Places
    <3> QED BY <3>1, Faults DEF CyclesTyped, TypeOK, Rebaseline, guild, feeds, out, admin
<1>3. CASE End(c)
  <2>1. CyclesTyped'
    BY <1>1, <1>3, CycleEnds
  <2> QED BY <2>1, Faults DEF CyclesTyped, TypeOK, Rebaseline, guild, feeds, out, admin
<1> QED BY <1>2, <1>3 DEF Rebaseline

LEMMA SetHashVersionTyped ==
  ASSUME CycleAssumption, TypeInv, NEW c \in Cycle, SetHashVersion(c) PROVE TypeInv'
<1>1. CyclesTyped'
  BY CycleEnds DEF SetHashVersion, ghost, Excusing
<1>2. current' \in BOOLEAN /\ faults' \in 0 .. MaxFaults
  BY Faults DEF SetHashVersion, TypeInv, TypeOK
<1> QED BY <1>1, <1>2 DEF CyclesTyped, TypeInv, TypeOK, SetHashVersion, feeds, out, admin, ghost

LEMMA EndClaimsTyped ==
  ASSUME CycleAssumption, TypeInv, NEW c \in Cycle, EndClaims(c) PROVE TypeInv'
<1> DEFINE p == IF cyc[c].batch = <<>> THEN "persist" ELSE "send"
<1>1. ShapeOf("claim", cyc[c], excused["drop"]) /\ UNCHANGED excused
  BY DEF EndClaims, ghost, TypeInv, ShapeInv
<1>2. ShapeOf(p, cyc[c], excused'["drop"]) /\ p \in Places
  BY <1>1, EmptyIds DEF ShapeOf, Places
<1>3. CyclesTyped'
  <2>1. Goto(c, p) /\ UNCHANGED cyc /\ Excusing
    BY DEF EndClaims, ghost, Excusing
  <2> HIDE DEF p
  <2> QED BY <1>2, <2>1, CycleGoes
<1> QED BY <1>3 DEF CyclesTyped, TypeInv, TypeOK, EndClaims, guild, feeds, out, admin, ghost

LEMMA ClaimGuardTyped ==
  ASSUME CycleAssumption, TypeInv, NEW c \in Cycle, ClaimGuard(c) PROVE TypeInv'
<1> USE DEF TypeInv
<1> DEFINE item == Head(cyc[c].queue)
           rest == [cyc[c] EXCEPT !.queue = Tail(@)]
           held == [rest EXCEPT !.hand = <<item>>]
           back == GivenBack(rest, <<item>>)
<1>1. pc[c] = "claim" /\ ShapeOf("claim", cyc[c], excused["drop"]) /\ cyc[c] \in CycleData
  BY DEF ClaimGuard, ShapeInv, TypeOK
<1>2. item \in Item /\ item.id \in Update /\ Tail(cyc[c].queue) \in Seq(Item)
  <2>1. cyc[c].queue \in Seq(Item) /\ cyc[c].queue # <<>>
    BY <1>1 DEF ClaimGuard, CycleData
  <2> QED BY <2>1, HeadAndTail DEF Item
<1>3. <<item>> \in Seq(Item) /\ Len(<<item>>) = 1 /\ Ids(<<item>>) = {item.id}
  BY <1>2, OneId
<1>4. rest \in CycleData /\ ShapeOf("claim", rest, excused'["drop"])
  BY <1>1, <1>2 DEF CycleData, ShapeOf
<1>5. held \in CycleData /\ ShapeOf("upsert", held, excused'["drop"])
  BY <1>1, <1>3, <1>4 DEF CycleData, ShapeOf
<1>6. back \in CycleData /\ ShapeOf("claim", back, excused'["drop"])
  <2> HIDE DEF rest, item
  <2>1. back \in CycleData /\ back.hand = <<>> /\ back.failed = <<>> /\ back.batch = rest.batch
    BY <1>3, <1>4, GivenBackKeeps
  <2> QED BY <2>1 DEF ShapeOf
<1>7. \/ /\ cyc' = [cyc EXCEPT ![c] = held] /\ Goto(c, "upsert") /\ NoFault
         /\ UNCHANGED <<returned, excused>>
      \/ /\ cyc' = [cyc EXCEPT ![c] = rest] /\ Excuse("drop", {item.id}) /\ UNCHANGED <<pc, returned>> /\ NoFault
      \/ GiveBack(c, rest, <<item>>) /\ UNCHANGED <<pc, excused>> /\ Fault
  BY DEF ClaimGuard
<1>u. UNCHANGED <<guild, seen, feeds, out, admin, baseline, overlapped>>
  BY DEF ClaimGuard
<1> HIDE DEF item, rest, held, back
<1>8. CyclesTyped'
  <2>1. ASSUME cyc' = [cyc EXCEPT ![c] = held], Goto(c, "upsert"), UNCHANGED <<returned, excused>> PROVE CyclesTyped'
    <3> QED BY <2>1, <1>5, CycleMoves DEF Goto, Excusing, Places
  <2>2. ASSUME cyc' = [cyc EXCEPT ![c] = rest], Excuse("drop", {item.id}), UNCHANGED <<pc, returned>>
        PROVE  CyclesTyped'
    <3>1. {item.id} \in SUBSET Update /\ "drop" \in Excuses
      BY <1>2 DEF Excuses
    <3>2. Excusing
      BY <2>2, <3>1 DEF Excusing
    <3> QED BY <2>2, <1>1, <1>4, <3>2, CycleHolds
  <2>3. ASSUME GiveBack(c, rest, <<item>>), UNCHANGED <<pc, excused>> PROVE CyclesTyped'
    <3>1. cyc' = [cyc EXCEPT ![c] = back]
      BY <2>3 DEF GiveBack, back
    <3> QED BY <2>3, <3>1, <1>1, <1>6, CycleHolds DEF Excusing
  <2> QED BY <1>7, <2>1, <2>2, <2>3
<1>9. returned' \subseteq Update /\ faults' \in 0 .. MaxFaults
  BY <1>7, <1>2, <1>3, Faults DEF GiveBack, TypeOK
<1> QED BY <1>8, <1>9, <1>u DEF CyclesTyped, TypeOK, guild, feeds, out, admin

(* A failed claim that is given back. *)
LEMMA GiveBackTyped ==
  ASSUME CycleAssumption, TypeInv, NEW c \in Cycle, NEW items \in Seq(Item), NEW p \in {"claim", "persist"},
         p = "persist" => cyc[c].batch = <<>>, GiveBack(c, cyc[c], items), Goto(c, p), Excusing
  PROVE  CyclesTyped' /\ returned' \subseteq Update
<1> DEFINE back == GivenBack(cyc[c], items)
<1>1. cyc[c] \in CycleData /\ Ids(items) \subseteq Update
  BY ItemsAre DEF TypeInv, TypeOK
<1>2. back \in CycleData /\ back.hand = <<>> /\ back.failed = <<>> /\ back.batch = cyc[c].batch
  BY <1>1, GivenBackKeeps
<1>3. cyc' = [cyc EXCEPT ![c] = back]
  BY DEF GiveBack
<1> HIDE DEF back
<1>4. ShapeOf(p, back, excused'["drop"])
  BY <1>2, EmptyIds DEF ShapeOf
<1>5. CyclesTyped'
  BY <1>2, <1>3, <1>4, CycleMoves DEF Goto, Places
<1> QED BY <1>1, <1>5 DEF GiveBack, TypeInv, TypeOK

LEMMA InTheHand ==
  ASSUME TypeInv, NEW c \in Cycle, pc[c] \in {"upsert", "unclaim", "undo"}
  PROVE  /\ cyc[c].hand # <<>> /\ cyc[c].hand[1] \in Item /\ cyc[c].hand[1].id \in Update
         /\ <<cyc[c].hand[1]>> \in Seq(Item) /\ Ids(<<cyc[c].hand[1]>>) = {cyc[c].hand[1].id}
         /\ Tail(cyc[c].hand) \in Seq(Item)
         /\ Ids(cyc[c].hand) = {cyc[c].hand[1].id} \cup Ids(Tail(cyc[c].hand))
         /\ pc[c] # "undo" => Ids(cyc[c].hand) = {cyc[c].hand[1].id} /\ cyc[c].failed = <<>>
<1>1. cyc[c].hand \in Seq(Item) /\ ShapeOf(pc[c], cyc[c], excused["drop"])
  BY HandsTyped DEF TypeInv, ShapeInv
<1>2. Len(cyc[c].hand) \in Nat /\ (Len(cyc[c].hand) = 1 => cyc[c].hand # <<>> /\ Len(cyc[c].hand) - 1 = 0)
  <2>1. Len(<<>>) = 0
    OBVIOUS
  <2>2. Len(cyc[c].hand) \in Nat
    BY <1>1
  <2> QED BY <2>1, <2>2
<1>3. cyc[c].hand # <<>>
  BY <1>1, <1>2 DEF ShapeOf
<1>4. /\ cyc[c].hand[1] \in Item /\ Tail(cyc[c].hand) \in Seq(Item) /\ Len(Tail(cyc[c].hand)) = Len(cyc[c].hand) - 1
      /\ Ids(cyc[c].hand) = {cyc[c].hand[1].id} \cup Ids(Tail(cyc[c].hand))
  BY <1>1, <1>3, HeadAndTail
<1>5. pc[c] # "undo" => Len(Tail(cyc[c].hand)) = 0 /\ cyc[c].failed = <<>>
  BY <1>1, <1>2, <1>4 DEF ShapeOf
<1>6. pc[c] # "undo" => Ids(Tail(cyc[c].hand)) = {}
  BY <1>4, <1>5 DEF Ids
<1> QED BY <1>3, <1>4, <1>5, <1>6, OneId DEF Item

LEMMA UpsertTyped ==
  ASSUME CycleAssumption, TypeInv, NEW c \in Cycle, Upsert(c) PROVE TypeInv'
<1> USE DEF TypeInv
<1> DEFINE item == cyc[c].hand[1]
           taken == [cyc[c] EXCEPT !.batch = Append(@, item), !.hand = <<>>]
           left == [cyc[c] EXCEPT !.hand = <<>>]
<1>1. /\ pc[c] = "upsert" /\ ShapeOf("upsert", cyc[c], excused["drop"]) /\ cyc[c] \in CycleData
      /\ cyc[c].batch \in Seq(Item)
      /\ item \in Item /\ item.id \in Update /\ <<item>> \in Seq(Item)
  BY InTheHand, HandsTyped DEF Upsert, ShapeInv
<1>2. taken \in CycleData /\ ShapeOf("claim", taken, excused'["drop"])
  <2>1. Append(cyc[c].batch, item) \in Seq(Item)
    BY <1>1, AppendedIds
  <2> QED BY <1>1, <2>1, NoDataTyped DEF ShapeOf, CycleData
<1>3. left \in CycleData /\ ShapeOf("claim", left, excused'["drop"])
  BY <1>1, NoDataTyped DEF ShapeOf, CycleData
<1>4. seen' \subseteq Update /\ faults' \in 0 .. MaxFaults
  BY <1>1, Faults DEF Upsert, TypeOK
<1>5. Excusing
  <2>1. {item.id} \in SUBSET Update /\ {item.id} \cap (seen' \ seen) \in SUBSET Update /\ "leak" \in Excuses
    BY <1>1 DEF Excuses
  <2> QED BY <2>1 DEF Upsert, Excusing
<1>6. \/ cyc' = [cyc EXCEPT ![c] = taken] /\ Goto(c, "claim") /\ UNCHANGED returned
      \/ UNCHANGED cyc /\ Goto(c, "unclaim") /\ UNCHANGED <<returned, excused>>
      \/ cyc' = [cyc EXCEPT ![c] = left] /\ Goto(c, "claim") /\ UNCHANGED returned
      \/ GiveBack(c, cyc[c], <<item>>) /\ Goto(c, "claim")
  BY DEF Upsert
<1>u. UNCHANGED <<guild, feeds, out, admin, baseline, overlapped>>
  BY DEF Upsert
<1> HIDE DEF item, taken, left
<1>7. CyclesTyped' /\ returned' \subseteq Update
  <2>1. ASSUME cyc' = [cyc EXCEPT ![c] = taken], Goto(c, "claim"), UNCHANGED returned
        PROVE  CyclesTyped' /\ returned' \subseteq Update
    BY <2>1, <1>2, <1>5, CycleMoves DEF Goto, Places, TypeOK
  <2>2. ASSUME UNCHANGED cyc, Goto(c, "unclaim"), UNCHANGED <<returned, excused>>
        PROVE  CyclesTyped' /\ returned' \subseteq Update
    <3>1. ShapeOf("unclaim", cyc[c], excused'["drop"])
      BY <1>1, <2>2 DEF ShapeOf
    <3> QED BY <2>2, <3>1, <1>5, CycleGoes DEF Places, TypeOK
  <2>3. ASSUME cyc' = [cyc EXCEPT ![c] = left], Goto(c, "claim"), UNCHANGED returned
        PROVE  CyclesTyped' /\ returned' \subseteq Update
    BY <2>3, <1>3, <1>5, CycleMoves DEF Goto, Places, TypeOK
  <2>4. ASSUME GiveBack(c, cyc[c], <<item>>), Goto(c, "claim") PROVE CyclesTyped' /\ returned' \subseteq Update
    BY <2>4, <1>1, <1>5, GiveBackTyped
  <2> QED BY <1>6, <2>1, <2>2, <2>3, <2>4
<1> QED BY <1>4, <1>7, <1>u DEF CyclesTyped, TypeOK, guild, feeds, out, admin

LEMMA RollBackTyped ==
  ASSUME CycleAssumption, TypeOK, NEW id \in Update, RollBack(id)
  PROVE  Excusing /\ seen' \subseteq Update /\ faults' \in 0 .. MaxFaults
<1>1. {id} \cap seen' \in SUBSET Update /\ "leak" \in Excuses
  BY DEF Excuses
<1>2. Excusing
  BY <1>1 DEF RollBack, Excusing
<1> QED BY <1>2, Faults DEF RollBack, TypeOK

LEMMA UnclaimTyped ==
  ASSUME CycleAssumption, TypeInv, NEW c \in Cycle, Unclaim(c) PROVE TypeInv'
<1> USE DEF TypeInv
<1> DEFINE item == cyc[c].hand[1]
<1>1. pc[c] = "unclaim" /\ item.id \in Update /\ <<item>> \in Seq(Item)
  BY InTheHand DEF Unclaim
<1>u. UNCHANGED <<guild, feeds, out, admin, baseline, overlapped>>
  BY DEF Unclaim
<1>2. CASE RollBack(item.id) /\ GiveBack(c, cyc[c], <<item>>) /\ Goto(c, "claim")
  <2> HIDE DEF item
  <2>1. Excusing /\ seen' \subseteq Update /\ faults' \in 0 .. MaxFaults
    BY <1>1, <1>2, RollBackTyped
  <2>2. CyclesTyped' /\ returned' \subseteq Update
    BY <1>1, <1>2, <2>1, GiveBackTyped
  <2> QED BY <2>1, <2>2, <1>u DEF CyclesTyped, TypeOK, guild, feeds, out, admin
<1>3. CASE seen' = seen \ {item.id} /\ Excuse("double", {item.id}) /\ UNCHANGED <<cyc, pc, returned>> /\ Fault
  <2> HIDE DEF item
  <2>1. {item.id} \in SUBSET Update /\ "double" \in Excuses
    BY <1>1 DEF Excuses
  <2>2. Excusing
    BY <1>3, <2>1 DEF Excusing
  <2>3. CyclesTyped'
    BY <1>3, <2>2, CyclesStay
  <2>4. faults' \in 0 .. MaxFaults
    BY <1>3, Faults
  <2> QED BY <1>3, <2>3, <2>4, <1>u DEF CyclesTyped, TypeOK, guild, feeds, out, admin
<1> QED BY <1>2, <1>3 DEF Unclaim

LEMMA SendFailsTyped ==
  ASSUME CycleAssumption, TypeInv, NEW c \in Cycle, pc[c] = "send", NEW permanent \in BOOLEAN,
         SendFails(c, permanent), Excusing
  PROVE  CyclesTyped' /\ faults' \in 0 .. MaxFaults
<1> USE DEF TypeInv
<1> DEFINE d == [cyc[c] EXCEPT !.hand = cyc[c].batch, !.failed = cyc[c].batch, !.batch = <<>>,
                              !.permanent = permanent]
<1>1. ShapeOf("send", cyc[c], excused["drop"]) /\ cyc[c] \in CycleData
  BY DEF ShapeInv, TypeOK
<1>2. d \in CycleData /\ ShapeOf("undo", d, excused'["drop"])
  BY <1>1, NoDataTyped DEF ShapeOf, CycleData
<1>3. cyc' = [cyc EXCEPT ![c] = d]
  BY DEF SendFails
<1> HIDE DEF d
<1> QED BY <1>2, <1>3, CycleMoves, Faults DEF SendFails, Goto, Places

LEMMA SendTyped ==
  ASSUME CycleAssumption, TypeInv, NEW c \in Cycle, Send(c) PROVE TypeInv'
<1> USE DEF TypeInv
<1>1. /\ pc[c] = "send" /\ ShapeOf("send", cyc[c], excused["drop"]) /\ cyc[c] \in CycleData
      /\ ChunkOf(c) \in Seq(Item) /\ AfterChunk(c) \in Seq(Item) /\ Ids(ChunkOf(c)) \in SUBSET Update
  BY Chunks, ItemsAre DEF Send, ShapeInv, TypeOK
<1>2. \A ids : Post(ids) => announced' \in [Update -> Nat]
  BY DEF Post, TypeOK
<1>3. CASE /\ Post(Ids(ChunkOf(c))) /\ cyc' = [cyc EXCEPT ![c].batch = AfterChunk(c)]
           /\ Goto(c, IF AfterChunk(c) = <<>> THEN "persist" ELSE "send") /\ UNCHANGED excused /\ NoFault
  <2> DEFINE d == [cyc[c] EXCEPT !.batch = AfterChunk(c)]
             p == IF AfterChunk(c) = <<>> THEN "persist" ELSE "send"
  <2>1. d \in CycleData /\ ShapeOf(p, d, excused'["drop"])
    BY <1>1, EmptyIds DEF ShapeOf, CycleData
  <2>2. cyc' = [cyc EXCEPT ![c] = d] /\ pc' = [pc EXCEPT ![c] = p] /\ p \in Places /\ Excusing
    BY <1>3 DEF Goto, Places, Excusing
  <2> HIDE DEF d, p
  <2>3. CyclesTyped'
    BY <2>1, <2>2, CycleMoves
  <2> QED BY <1>2, <1>3, <2>3, Faults DEF CyclesTyped, TypeOK, Send, guild, feeds, admin
<1>4. ASSUME NEW permanent \in BOOLEAN, SendFails(c, permanent), UNCHANGED <<announced, excused>> PROVE TypeInv'
  <2>1. CyclesTyped' /\ faults' \in 0 .. MaxFaults
    BY <1>1, <1>4, SendFailsTyped DEF Excusing
  <2> QED BY <1>4, <2>1 DEF CyclesTyped, TypeOK, Send, guild, feeds, admin
<1>5. CASE Post(Ids(ChunkOf(c))) /\ Excuse("double", Ids(ChunkOf(c))) /\ SendFails(c, FALSE)
  <2>1. Excusing
    BY <1>1, <1>5 DEF Excusing, Excuses
  <2>2. CyclesTyped' /\ faults' \in 0 .. MaxFaults
    BY <1>1, <1>5, <2>1, SendFailsTyped
  <2> QED BY <1>2, <1>5, <2>2 DEF CyclesTyped, TypeOK, Send, guild, feeds, admin
<1> QED BY <1>3, <1>4, <1>5 DEF Send

LEMMA UndoTyped ==
  ASSUME CycleAssumption, TypeInv, NEW c \in Cycle, Undo(c) PROVE TypeInv'
<1> USE DEF TypeInv
<1> DEFINE id == cyc[c].hand[1].id
           rest == Tail(cyc[c].hand)
<1>1. /\ pc[c] = "undo" /\ ShapeOf("undo", cyc[c], excused["drop"]) /\ cyc[c] \in CycleData
      /\ cyc[c].failed \in Seq(Item)
      /\ id \in Update /\ rest \in Seq(Item) /\ Ids(rest) \subseteq Ids(cyc[c].hand)
  BY InTheHand, HandsTyped DEF Undo, ShapeInv, TypeOK
<1>u. UNCHANGED <<guild, feeds, out, admin, baseline, overlapped>>
  BY DEF Undo
<1>2. ASSUME RollBack(id) PROVE Excusing /\ seen' \subseteq Update /\ faults' \in 0 .. MaxFaults
  <2> HIDE DEF id
  <2> QED BY <1>1, <1>2, RollBackTyped
<1>3. CASE RollBack(id) /\ rest # <<>> /\ cyc' = [cyc EXCEPT ![c].hand = rest] /\ UNCHANGED <<pc, returned>>
  <2> DEFINE d == [cyc[c] EXCEPT !.hand = rest]
  <2>1. d \in CycleData /\ ShapeOf("undo", d, excused'["drop"])
    BY <1>1, <1>3 DEF ShapeOf, CycleData
  <2>2. cyc' = [cyc EXCEPT ![c] = d]
    BY <1>3
  <2> HIDE DEF d, id
  <2>3. CyclesTyped'
    BY <1>1, <1>2, <1>3, <2>1, <2>2, CycleHolds
  <2> QED BY <1>2, <1>3, <2>3, <1>u DEF CyclesTyped, TypeOK, guild, feeds, out, admin
<1>4. CASE RollBack(id) /\ GiveBack(c, cyc[c], cyc[c].failed) /\ Goto(c, "persist")
  <2>1. cyc[c].batch = <<>>
    BY <1>1 DEF ShapeOf
  <2>2. CyclesTyped' /\ returned' \subseteq Update
    BY <1>1, <1>2, <1>4, <2>1, GiveBackTyped
  <2> QED BY <1>2, <1>4, <2>2, <1>u DEF CyclesTyped, TypeOK, guild, feeds, out, admin
<1>5. CASE RollBack(id) /\ cyc' = [cyc EXCEPT ![c].hand = <<>>] /\ Goto(c, "disable") /\ UNCHANGED returned
  <2> DEFINE d == [cyc[c] EXCEPT !.hand = <<>>]
  <2>1. d \in CycleData /\ ShapeOf("disable", d, excused'["drop"])
    BY <1>1, NoDataTyped DEF ShapeOf, CycleData
  <2>2. cyc' = [cyc EXCEPT ![c] = d]
    BY <1>5
  <2> HIDE DEF d, id
  <2>3. CyclesTyped'
    BY <1>2, <1>5, <2>1, <2>2, CycleMoves DEF Goto, Places
  <2> QED BY <1>2, <1>5, <2>3, <1>u DEF CyclesTyped, TypeOK, guild, feeds, out, admin
<1>6. CASE seen' = seen \ {id} /\ Excuse("double", {id}) /\ UNCHANGED <<cyc, pc, returned>> /\ Fault
  <2> HIDE DEF id
  <2>1. {id} \in SUBSET Update /\ "double" \in Excuses
    BY <1>1 DEF Excuses
  <2>2. Excusing
    BY <1>6, <2>1 DEF Excusing
  <2>3. CyclesTyped'
    BY <1>6, <2>2, CyclesStay
  <2>4. faults' \in 0 .. MaxFaults
    BY <1>6, Faults
  <2> QED BY <1>6, <2>3, <2>4, <1>u DEF CyclesTyped, TypeOK, guild, feeds, out, admin
<1> QED BY <1>3, <1>4, <1>5, <1>6 DEF Undo

LEMMA DropAll ==
  ASSUME TypeOK
  PROVE  /\ InFlight \in SUBSET Update /\ "drop" \in Excuses /\ "leak" \in Excuses
         /\ \A c \in Cycle : /\ Ids(cyc[c].failed) \subseteq InHand(c) /\ InHand(c) \subseteq InFlight
                             /\ InHand(c) \in SUBSET Update
BY HandsTyped, InHandIs DEF InFlight, Excuses

LEMMA DisableStepTyped ==
  ASSUME CycleAssumption, TypeInv, NEW c \in Cycle, Disable(c) PROVE TypeInv'
<1> USE DEF TypeInv
<1>1. Excusing /\ sub' \in Subscription /\ faults' \in 0 .. MaxFaults
  BY DisableTyped DEF Disable
<1>2. ShapeOf("disable", cyc[c], excused["drop"])
  BY DEF Disable, ShapeInv
<1>3. Ids(cyc[c].failed) \subseteq excused'["drop"]
  <2>1. \E items : Excuse("drop", items) /\ Ids(cyc[c].failed) \subseteq items /\ items \in SUBSET Update
    BY DropAll, HandsTyped DEF Disable, DisableForChannelError
  <2> QED BY <2>1, DropAll, Excused
<1>4. ShapeOf("persist", cyc[c], excused'["drop"])
  BY <1>2, <1>3 DEF ShapeOf
<1>5. CyclesTyped'
  BY <1>1, <1>4, CycleGoes DEF Disable, Places
<1> QED BY <1>1, <1>5 DEF CyclesTyped, TypeOK, Disable, feeds, out, admin

LEMMA PersistTyped ==
  ASSUME CycleAssumption, TypeInv, NEW c \in Cycle, Persist(c) PROVE TypeInv'
<1> USE DEF TypeInv
<1>1. ShapeOf("persist", cyc[c], excused["drop"]) /\ cyc[c].queue \in Seq(Item)
  BY HandsTyped DEF Persist, ShapeInv
<1>2. Excusing
  BY DropAll DEF Persist, Excusing
<1>3. ASSUME Goto(c, "deadLetter"), UNCHANGED cyc PROVE CyclesTyped'
  <2>1. ShapeOf("deadLetter", cyc[c], excused'["drop"])
    BY <1>1, <1>2, ExcusesGrow DEF ShapeOf
  <2> QED BY <1>2, <1>3, <2>1, CycleGoes DEF Places
<1>4. CyclesTyped'
  BY <1>2, <1>3, CycleEnds DEF Persist
<1>5. pending' \in Seq(Item) /\ faults' \in 0 .. MaxFaults
  BY <1>1, Faults DEF Persist, TypeOK
<1> QED BY <1>4, <1>5 DEF CyclesTyped, TypeOK, Persist, feeds, out, admin

LEMMA DeadLetterTyped ==
  ASSUME CycleAssumption, TypeInv, NEW c \in Cycle, DeadLetter(c) PROVE TypeInv'
<1> USE DEF TypeInv
<1>1. cyc[c].dead \in SUBSET Update /\ "drop" \in Excuses
  BY HandsTyped DEF Excuses
<1>2. Excusing
  BY <1>1 DEF DeadLetter, Excusing
<1>3. CyclesTyped'
  BY <1>2, CycleEnds DEF DeadLetter
<1>4. recorded' \subseteq Update /\ faults' \in 0 .. MaxFaults
  BY <1>1, Faults DEF DeadLetter, TypeOK
<1> QED BY <1>3, <1>4 DEF CyclesTyped, TypeOK, DeadLetter, guild, feeds, admin

LEMMA OffTyped == ASSUME CycleAssumption PROVE Off \in Subscription
BY DEF Off, Subscription, CycleAssumption

LEMMA CommandTyped ==
  ASSUME CycleAssumption, TypeInv, NEW k \in Command, CommandStep(k) PROVE TypeInv'
<1> USE DEF TypeInv
<1>1. ASSUME NEW ch \in Channel, Start(k, ch) PROVE TypeInv'
  <2>1. CyclesTyped'
    BY <1>1, DropAll, CyclesStay DEF Start, Excusing
  <2>2. commands' \in 0 .. MaxCommands
    BY <1>1 DEF Start, TypeOK, CycleAssumption
  <2>3. sub' \in Subscription /\ cpc' \in [Command -> CommandPlaces] /\ pending' \in Seq(Item)
    BY <1>1, <2>2, NoDataTyped DEF Start, TypeOK, Subscription, GotoCommand, CommandPlaces
  <2>4. cmd' \in [Command -> [channel : Channel \cup {NoChannel}, activation : 0 .. MaxCommands,
                             base : 0 .. Published]]
    BY <1>1, <2>2 DEF Start, TypeOK, CycleAssumption
  <2> QED BY <1>1, <2>1, <2>2, <2>3, <2>4 DEF CyclesTyped, TypeOK, Start, feeds, out
<1>2. CASE FetchBaseline(k)
  <2>1. CyclesTyped'
    BY <1>2, CyclesStay DEF FetchBaseline, Excusing, ghost
  <2>2. latest \in 0 .. Published
    BY DEF TypeOK
  <2>3. cmd' \in [Command -> [channel : Channel \cup {NoChannel}, activation : 0 .. MaxCommands,
                             base : 0 .. Published]]
    BY <1>2, <2>2 DEF FetchBaseline, TypeOK
  <2>4. cpc' \in [Command -> CommandPlaces] /\ faults' \in 0 .. MaxFaults
    BY <1>2, Faults DEF FetchBaseline, TypeOK, GotoCommand, CommandPlaces
  <2> QED BY <1>2, <2>1, <2>3, <2>4 DEF CyclesTyped, TypeOK, FetchBaseline, guild, feeds, out, ghost
<1>3. CASE SeedBaseline(k)
  <2>1. CyclesTyped'
    BY <1>3, CyclesStay DEF SeedBaseline, Excusing
  <2>2. /\ cpc' \in [Command -> CommandPlaces] /\ faults' \in 0 .. MaxFaults /\ seen' \subseteq Update
        /\ baseline' \subseteq Update
    BY <1>3, Faults DEF SeedBaseline, TypeOK, GotoCommand, CommandPlaces
  <2> QED BY <1>3, <2>1, <2>2 DEF CyclesTyped, TypeOK, SeedBaseline, guild, feeds, out
<1>4. CASE FinalizeActivation(k)
  <2>1. CyclesTyped'
    BY <1>4, CyclesStay DEF FinalizeActivation, Excusing, ghost
  <2>2. cpc' \in [Command -> CommandPlaces] /\ faults' \in 0 .. MaxFaults
    BY <1>4, Faults DEF FinalizeActivation, TypeOK, GotoCommand, CommandPlaces
  <2>3. sub' \in Subscription /\ current' \in BOOLEAN
    <3>1. \/ sub' = [sub EXCEPT !.initializing = FALSE, !.activation = 0] /\ current' = TRUE
          \/ UNCHANGED <<sub, current>>
      BY <1>4 DEF FinalizeActivation, Finalized
    <3>2. [sub EXCEPT !.initializing = FALSE, !.activation = 0] \in Subscription
      <4>1. sub \in Subscription /\ 0 \in 0 .. MaxCommands
        BY DEF TypeOK, CycleAssumption
      <4> QED BY <4>1 DEF Subscription
    <3> QED BY <3>1, <3>2 DEF TypeOK
  <2> QED BY <1>4, <2>1, <2>2, <2>3 DEF CyclesTyped, TypeOK, FinalizeActivation, feeds, out, ghost
<1>5. CASE RollbackActivation(k)
  <2>1. CyclesTyped'
    BY <1>5, DropAll, CyclesStay DEF RollbackActivation, Excusing
  <2>2. cpc' \in [Command -> CommandPlaces] /\ faults' \in 0 .. MaxFaults
    BY <1>5, Faults DEF RollbackActivation, TypeOK, GotoCommand, CommandPlaces
  <2>3. sub' \in Subscription
    BY <1>5, OffTyped DEF RollbackActivation, TypeOK
  <2> QED BY <1>5, <2>1, <2>2, <2>3 DEF CyclesTyped, TypeOK, RollbackActivation, feeds, out
<1> QED BY <1>1, <1>2, <1>3, <1>4, <1>5 DEF CommandStep

LEMMA StopTyped == ASSUME CycleAssumption, TypeInv, Stop PROVE TypeInv'
<1> USE DEF TypeInv
<1>1. CyclesTyped'
  BY DropAll, CyclesStay DEF Stop, Excusing
<1>2. sub' \in Subscription /\ pending' \in Seq(Item)
  BY NoDataTyped DEF Stop, Off, Subscription, CycleAssumption
<1> QED BY <1>1, <1>2 DEF CyclesTyped, TypeOK, Stop, feeds, out, admin

LEMMA PublishTyped == ASSUME CycleAssumption, TypeInv, Publish PROVE TypeInv'
<1> USE DEF TypeInv
<1>1. CyclesTyped'
  BY CyclesStay DEF Publish, Excusing, ghost
<1>2. latest' \in 0 .. Published /\ snapshot' \in 0 .. latest'
  BY DEF Publish, TypeOK, CycleAssumption
<1> QED BY <1>1, <1>2 DEF CyclesTyped, TypeOK, Publish, guild, out, admin, ghost

LEMMA CrashTyped == ASSUME CycleAssumption, TypeInv, Crash PROVE TypeInv'
<1> USE DEF TypeInv
<1>1. faults' \in 0 .. MaxFaults
  BY Faults DEF Crash
<1>2. ASSUME NEW c \in Cycle, End(c), Excuse("leak", InHand(c)), UNCHANGED cpc PROVE TypeInv'
  <2>1. CyclesTyped'
    BY <1>2, DropAll, CycleEnds DEF Excusing
  <2> QED BY <1>1, <1>2, <2>1 DEF CyclesTyped, TypeOK, Crash, guild, feeds, out
<1>3. ASSUME NEW k \in Command, GotoCommand(k, "idle"), UNCHANGED <<pc, cyc, excused>> PROVE TypeInv'
  <2>1. CyclesTyped'
    BY <1>3, CyclesStay DEF Excusing
  <2>2. cpc' \in [Command -> CommandPlaces]
    BY <1>3 DEF TypeOK, GotoCommand, CommandPlaces
  <2> QED BY <1>1, <1>3, <2>1, <2>2 DEF CyclesTyped, TypeOK, Crash, guild, feeds, out
<1> QED BY <1>2, <1>3 DEF Crash

LEMMA TypeInit == ASSUME CycleAssumption, Init PROVE TypeInv
<1>1. NoData \in CycleData /\ ShapeOf("idle", NoData, excused["drop"])
  BY NoDataTyped, EmptyIds DEF ShapeOf, NoData
<1>2. latest \in 0 .. Published /\ snapshot \in 0 .. latest
  <2> DEFINE most == IF sub.on /\ Published > 0 THEN 1 ELSE 0
  <2>1. most \in Nat /\ most <= Published /\ Published \in Nat
    BY DEF CycleAssumption
  <2>2. latest \in 0 .. most /\ snapshot = 0
    BY DEF Init
  <2> HIDE DEF most
  <2> QED BY <2>1, <2>2
<1>a. sub \in Subscription
  <2>1. \A ch \in Channel : [Off EXCEPT !.on = TRUE, !.channel = ch] \in Subscription
    BY OffTyped DEF Subscription
  <2> QED BY <2>1, OffTyped DEF Init
<1>3. pending \in Seq(Item)
  <2>1. latest \in Nat /\ (latest > 0 => 1 \in Update)
    BY <1>2 DEF Update, CycleAssumption
  <2>2. pending \in [1 .. latest -> [id : {1}, attempts : 0 .. MaxAttempts - 1]]
    BY DEF Init
  <2>3. \A n \in 1 .. latest : pending[n] \in Item
    BY <2>1, <2>2 DEF Item
  <2>4. pending \in [1 .. latest -> Item]
    BY <2>2, <2>3
  <2> QED BY <2>1, <2>4
<1>4. ShapeInv
  BY <1>1 DEF Init, ShapeInv
<1>5. 0 \in 0 .. MaxCommands /\ 0 \in 0 .. MaxFaults /\ 0 \in 0 .. Published
  BY DEF CycleAssumption
<1>6. pc \in [Cycle -> Places] /\ cyc \in [Cycle -> CycleData] /\ cpc \in [Command -> CommandPlaces]
  BY <1>1 DEF Init, Places, CommandPlaces
<1>7. cmd \in [Command -> [channel : Channel \cup {NoChannel}, activation : 0 .. MaxCommands, base : 0 .. Published]]
  BY <1>5 DEF Init
<1>8. TypeOK
  BY <1>2, <1>a, <1>3, <1>5, <1>6, <1>7 DEF Init, TypeOK
<1> QED BY <1>4, <1>8 DEF TypeInv

LEMMA TypeNext == ASSUME CycleAssumption, TypeInv, [Next]_vars PROVE TypeInv'
<1>1. ASSUME NEW c \in Cycle, CycleStep(c) PROVE TypeInv'
  BY <1>1, FindTyped, LoadFeedTyped, ResolveChannelTyped, GiveUpTyped, RebaselineTyped, SetHashVersionTyped,
     EndClaimsTyped, ClaimGuardTyped, UpsertTyped, UnclaimTyped, SendTyped, UndoTyped, DisableStepTyped, PersistTyped,
     DeadLetterTyped
  DEF CycleStep
<1>2. ASSUME UNCHANGED vars PROVE TypeInv'
  <2>1. CyclesTyped'
    BY <1>2, CyclesStay DEF vars, ghost, Excusing
  <2> QED BY <1>2, <2>1 DEF CyclesTyped, TypeInv, TypeOK, vars, guild, feeds, out, admin, ghost
<1> QED BY <1>1, <1>2, CommandTyped, StopTyped, PublishTyped, CrashTyped DEF Next

(* Every variable has its type, and every cycle the data its place calls   *)
(* for, through every failed call, lost answer and crash.                  *)
THEOREM Typing == ASSUME CycleAssumption PROVE Spec => []TypeInv
<1>1. Init => TypeInv
  BY TypeInit
<1>2. TypeInv /\ [Next]_vars => TypeInv'
  BY TypeNext
<1> QED BY <1>1, <1>2, PTL DEF Spec

-----------------------------------------------------------------------------
(* Claims.  The updates a cycle has claimed and not sent: those of its     *)
(* batch, and those whose claims it is rolling back.                       *)

ClaimsOf(p, d) == Ids(d.batch) \cup (IF p \in {"unclaim", "undo"} THEN Ids(d.hand) ELSE {})
Claims(c) == ClaimsOf(pc[c], cyc[c])
(* A cycle has an update once, unless the answer to its deletion was lost. *)
OneClaimEach(p, d, spared) ==
    /\ Distinct(d.batch, spared) /\ (p = "undo" => Distinct(d.hand, spared))
    /\ p = "unclaim" => Ids(d.hand) \cap Ids(d.batch) \subseteq spared
(* Nobody else has the claim of an update, and it is not announced yet. *)
OnceInv ==
    /\ \A i \in Update \ excused["double"] :
        /\ announced[i] <= 1 /\ (i \notin seen => announced[i] = 0)
        /\ \A c \in Cycle : i \in Claims(c) => i \in seen /\ announced[i] = 0
        /\ \A c, d \in Cycle : i \in Claims(c) /\ i \in Claims(d) => c = d
    /\ \A c \in Cycle : OneClaimEach(pc[c], cyc[c], excused["double"])
(* What is seen is announced, or accounted for. *)
AccountInv ==
    \A i \in seen : announced[i] > 0 \/ i \in baseline \/ i \in excused["leak"] \/ \E c \in Cycle : i \in Claims(c)
ClaimInv == OnceInv /\ AccountInv

LEMMA DistinctGrows ==
  ASSUME NEW q, NEW D, NEW E, D \subseteq E, Distinct(q, D) PROVE Distinct(q, E)
BY DEF Distinct

LEMMA DistinctAppend ==
  ASSUME NEW s \in Seq(Item), NEW x \in Item, NEW D, Distinct(s, D), {x.id} \cap Ids(s) \subseteq D
  PROVE  Distinct(Append(s, x), D)
<1> DEFINE u == Append(s, x)
<1>1. /\ u \in Seq(Item) /\ Len(u) = Len(s) + 1
      /\ \A n \in 1 .. Len(s) : u[n] = s[n]
      /\ u[Len(s) + 1] = x
  OBVIOUS
<1> HIDE DEF u
<1>2. DOMAIN u = 1 .. Len(s) + 1 /\ DOMAIN s = 1 .. Len(s) /\ Len(s) \in Nat
  BY <1>1
<1>3. \A n \in DOMAIN u : n \in DOMAIN s \/ n = Len(s) + 1
  BY <1>2
<1> SUFFICES ASSUME NEW m \in DOMAIN u, NEW n \in DOMAIN u, u[m].id = u[n].id PROVE m = n \/ u[m].id \in D
  BY DEF Distinct, u
<1>4. CASE m \in DOMAIN s /\ n \in DOMAIN s
  BY <1>1, <1>2, <1>4 DEF Distinct
<1>5. CASE m \in DOMAIN s /\ n = Len(s) + 1
  BY <1>1, <1>2, <1>5 DEF Ids
<1>6. CASE n \in DOMAIN s /\ m = Len(s) + 1
  BY <1>1, <1>2, <1>6 DEF Ids
<1> QED BY <1>3, <1>4, <1>5, <1>6

LEMMA DistinctTail ==
  ASSUME NEW s \in Seq(Item), s # <<>>, NEW D, Distinct(s, D)
  PROVE  Distinct(Tail(s), D) /\ {s[1].id} \cap Ids(Tail(s)) \subseteq D
<1> DEFINE u == Tail(s)
<1>1. /\ u \in Seq(Item) /\ \A n \in DOMAIN u : n + 1 \in DOMAIN s /\ u[n] = s[n + 1]
  BY HeadAndTail
<1>2. 1 \in DOMAIN s /\ \A n \in DOMAIN u : n \in Nat \ {0}
  BY <1>1
<1> HIDE DEF u
<1>3. Distinct(u, D)
  BY <1>1, <1>2 DEF Distinct
<1>4. \A n \in DOMAIN u : u[n].id = s[1].id => u[n].id \in D
  BY <1>1, <1>2 DEF Distinct
<1> QED BY <1>3, <1>4 DEF u, Ids

LEMMA NoClaims ==
  ASSUME TypeInv, NEW c \in Cycle, pc[c] \notin {"claim", "upsert", "unclaim", "send", "undo"}
  PROVE  Claims(c) = {} /\ cyc[c].batch = <<>>
<1>1. ShapeOf(pc[c], cyc[c], excused["drop"])
  BY DEF TypeInv, ShapeInv
<1>2. cyc[c].batch = <<>>
  BY <1>1 DEF ShapeOf
<1> QED BY <1>2, EmptyIds DEF Claims, ClaimsOf

LEMMA NoBatch ==
  ASSUME NEW p, p \notin {"unclaim", "undo"}, NEW d, d.batch = <<>>, NEW D
  PROVE  ClaimsOf(p, d) = {} /\ OneClaimEach(p, d, D)
BY EmptyIds DEF ClaimsOf, OneClaimEach, Distinct

LEMMA ClaimsMove ==
  ASSUME TypeInv, ClaimInv, NEW c \in Cycle, NEW p, NEW d, NEW gained, NEW posted,
         pc' = [pc EXCEPT ![c] = p], cyc' = [cyc EXCEPT ![c] = d],
         excused["double"] \subseteq excused'["double"], excused["leak"] \subseteq excused'["leak"],
         baseline \subseteq baseline',
         \A i \in Update : announced'[i] = announced[i] + (IF i \in posted THEN 1 ELSE 0),
         posted \subseteq Claims(c), posted \cap ClaimsOf(p, d) \subseteq excused'["double"],
         ClaimsOf(p, d) \subseteq Claims(c) \cup gained, gained \subseteq seen' \ seen,
         seen' \subseteq Update,
         seen \ seen' \subseteq Claims(c), (seen \ seen') \cap ClaimsOf(p, d) \subseteq excused'["double"],
         posted \cap (seen \ seen') = {},
         \A i \in seen' : i \notin seen \/ i \in Claims(c) =>
            i \in ClaimsOf(p, d) \/ i \in posted \/ i \in baseline' \/ i \in excused'["leak"],
         OneClaimEach(p, d, excused'["double"])
  PROVE  ClaimInv'
<1>1. /\ \A i \in Update : announced[i] \in Nat
      /\ seen \subseteq Update
  BY DEF TypeInv, TypeOK
<1>2. /\ Claims(c)' = ClaimsOf(p, d) /\ pc'[c] = p /\ cyc'[c] = d
      /\ \A e \in Cycle \ {c} : Claims(e)' = Claims(e) /\ pc'[e] = pc[e] /\ cyc'[e] = cyc[e]
  BY DEF TypeInv, TypeOK, Claims
<1>3. ASSUME NEW i \in Update, i \notin excused'["double"]
      PROVE  /\ announced'[i] <= 1 /\ (i \notin seen' => announced'[i] = 0)
             /\ \A e \in Cycle : i \in Claims(e)' => i \in seen' /\ announced'[i] = 0
             /\ \A e, f \in Cycle : i \in Claims(e)' /\ i \in Claims(f)' => e = f
  <2>1. /\ announced[i] \in Nat /\ announced[i] <= 1 /\ (i \notin seen => announced[i] = 0)
        /\ \A e \in Cycle : i \in Claims(e) => i \in seen /\ announced[i] = 0
        /\ \A e, f \in Cycle : i \in Claims(e) /\ i \in Claims(f) => e = f
    BY <1>1, <1>3 DEF ClaimInv, OnceInv
  <2>2. announced'[i] = announced[i] + (IF i \in posted THEN 1 ELSE 0)
    OBVIOUS
  <2>3. i \in posted => announced[i] = 0
    BY <2>1
  <2>4. announced'[i] <= 1
    BY <2>1, <2>2, <2>3
  <2>5. i \notin seen' => announced[i] = 0 /\ i \notin posted
    BY <2>1
  <2>6. ASSUME NEW e \in Cycle, i \in Claims(e)' PROVE i \in seen' /\ announced[i] = 0 /\ i \notin posted
    <3>1. CASE e = c
      BY <1>2, <1>3, <2>1, <2>6, <3>1
    <3>2. CASE e # c
      <4>1. i \in Claims(e) /\ i \in seen /\ announced[i] = 0 /\ i \notin Claims(c)
        BY <1>2, <2>1, <2>6, <3>2
      <4> QED BY <4>1
    <3> QED BY <3>1, <3>2
  <2>7. ASSUME NEW e \in Cycle, NEW f \in Cycle, i \in Claims(e)', i \in Claims(f)' PROVE e = f
    <3>1. \A g \in Cycle \ {c} : i \in Claims(g)' => i \in seen /\ i \notin Claims(c) /\ i \notin ClaimsOf(p, d)
      BY <1>2, <2>1
    <3> QED BY <1>2, <2>1, <2>7, <3>1
  <2> QED BY <2>1, <2>2, <2>4, <2>5, <2>6, <2>7
<1>4. ASSUME NEW e \in Cycle PROVE OneClaimEach(pc'[e], cyc'[e], excused'["double"])
  <2>1. CASE e = c
    BY <1>2, <2>1
  <2>2. CASE e # c
    <3>1. OneClaimEach(pc[e], cyc[e], excused["double"])
      BY DEF ClaimInv, OnceInv
    <3> QED BY <1>2, <2>2, <3>1, DistinctGrows DEF OneClaimEach
  <2> QED BY <2>1, <2>2
<1>5. ASSUME NEW i \in seen'
      PROVE  announced'[i] > 0 \/ i \in baseline' \/ i \in excused'["leak"] \/ \E e \in Cycle : i \in Claims(e)'
  <2>1. i \in Update /\ announced[i] \in Nat /\ announced'[i] = announced[i] + (IF i \in posted THEN 1 ELSE 0)
    BY <1>1
  <2>2. CASE i \notin seen \/ i \in Claims(c)
    BY <1>2, <2>1, <2>2
  <2>3. CASE i \in seen /\ i \notin Claims(c)
    <3>1. announced[i] > 0 \/ i \in baseline \/ i \in excused["leak"] \/ \E e \in Cycle \ {c} : i \in Claims(e)
      BY <2>3 DEF ClaimInv, AccountInv
    <3> QED BY <1>2, <2>1, <3>1
  <2> QED BY <2>2, <2>3
<1> QED BY <1>3, <1>4, <1>5 DEF ClaimInv, OnceInv, AccountInv

(* A move that neither claims, releases nor posts. *)
LEMMA ClaimsCarry ==
  ASSUME TypeInv, ClaimInv, NEW c \in Cycle, NEW p, NEW d,
         pc' = [pc EXCEPT ![c] = p], cyc' = [cyc EXCEPT ![c] = d], Excusing, baseline \subseteq baseline',
         UNCHANGED announced,
         seen \subseteq seen', seen' \subseteq Update, seen' \ seen \subseteq baseline' \cup excused'["leak"],
         ClaimsOf(p, d) \subseteq Claims(c), Claims(c) \subseteq ClaimsOf(p, d) \cup excused'["leak"],
         OneClaimEach(p, d, excused'["double"])
  PROVE  ClaimInv'
<1>1. excused["double"] \subseteq excused'["double"] /\ excused["leak"] \subseteq excused'["leak"]
  BY ExcusesGrow DEF Excuses, TypeInv
<1>2. \A i \in Update : announced'[i] = announced[i] + (IF i \in {} THEN 1 ELSE 0)
  BY DEF TypeInv, TypeOK
<1>3. /\ {} \subseteq Claims(c) /\ {} \cap ClaimsOf(p, d) \subseteq excused'["double"]
      /\ ClaimsOf(p, d) \subseteq Claims(c) \cup {} /\ {} \subseteq seen' \ seen
      /\ seen \ seen' \subseteq Claims(c) /\ (seen \ seen') \cap ClaimsOf(p, d) \subseteq excused'["double"]
      /\ {} \cap (seen \ seen') = {}
  OBVIOUS
<1>4. \A i \in seen' : i \notin seen \/ i \in Claims(c) =>
            i \in ClaimsOf(p, d) \/ i \in {} \/ i \in baseline' \/ i \in excused'["leak"]
  OBVIOUS
<1> QED BY <1>1, <1>2, <1>3, <1>4, ClaimsMove

LEMMA ClaimsStay ==
  ASSUME TypeInv, ClaimInv, UNCHANGED <<pc, cyc, announced>>, Excusing, baseline \subseteq baseline',
         seen \subseteq seen', seen' \ seen \subseteq baseline'
  PROVE  ClaimInv'
<1>1. excused["double"] \subseteq excused'["double"] /\ excused["leak"] \subseteq excused'["leak"]
  BY ExcusesGrow DEF Excuses, TypeInv
<1>2. \A e \in Cycle : Claims(e)' = Claims(e)
  BY DEF Claims
<1>3. AccountInv'
  BY <1>1, <1>2 DEF ClaimInv, AccountInv
<1>4. \A e \in Cycle : OneClaimEach(pc'[e], cyc'[e], excused'["double"])
  BY <1>1, DistinctGrows DEF ClaimInv, OnceInv, OneClaimEach
<1>5. OnceInv'
  BY <1>1, <1>2, <1>4 DEF ClaimInv, OnceInv
<1> QED BY <1>3, <1>5 DEF ClaimInv

(* The steps of a cycle that neither claims nor sends. *)
LEMMA QuietClaims ==
  ASSUME CycleAssumption, TypeInv, ClaimInv, NEW c \in Cycle,
         Find(c) \/ LoadFeed(c) \/ ResolveChannel(c) \/ GiveUp(c) \/ Rebaseline(c) \/ SetHashVersion(c)
             \/ Disable(c) \/ Persist(c)
            \/ DeadLetter(c),
         TypeInv'
  PROVE  ClaimInv'
<1>1. /\ Claims(c) = {} /\ pc[c] \notin {"claim", "upsert", "unclaim", "send", "undo"} /\ cyc[c].batch = <<>>
  BY NoClaims DEF Find, LoadFeed, ResolveChannel, GiveUp, Rebaseline, SetHashVersion, Disable, Persist, DeadLetter
<1>2. Excusing
  <2>1. /\ Ids(cyc[c].queue) \in SUBSET Update /\ cyc[c].dead \in SUBSET Update /\ InHand(c) \in SUBSET Update
        /\ "drop" \in Excuses
        /\ \A q : Ids(cyc[c].queue) \ Ids(q) \in SUBSET Update
    BY HandsTyped DEF TypeInv, Excuses
  <2>2. DisableForChannelError(c) => Excusing
    BY DisableTyped
  <2> QED
    BY <2>1, <2>2 DEF Find, LoadFeed, ResolveChannel, GiveUp, Rebaseline, SetHashVersion, Disable, Persist,
        DeadLetter,
                   Excusing, ghost
<1>3. /\ UNCHANGED announced /\ baseline \subseteq baseline' /\ seen \subseteq seen'
      /\ seen' \ seen \subseteq baseline'
      /\ seen' \subseteq Update
  <2>1. UNCHANGED announced
    BY DEF Find, LoadFeed, ResolveChannel, GiveUp, Rebaseline, SetHashVersion, Disable, Persist, DeadLetter, out
  <2>2. baseline \subseteq baseline' /\ seen \subseteq seen' /\ seen' \ seen \subseteq baseline'
    BY DEF Find, LoadFeed, ResolveChannel, GiveUp, Rebaseline, SetHashVersion, Disable, Persist, DeadLetter, ghost
  <2> QED BY <2>1, <2>2 DEF TypeInv, TypeOK
<1>4. cyc[c] \in CycleData /\ NoData.batch = <<>> /\ NoData \in CycleData
  BY HandsTyped, NoDataTyped DEF TypeInv, NoData
<1>5. ASSUME NEW p \in Places \ {"unclaim", "undo"}, NEW d \in CycleData, pc' = [pc EXCEPT ![c] = p],
             cyc' = [cyc EXCEPT ![c] = d], d.batch = <<>>
      PROVE  ClaimInv'
  <2>1. ClaimsOf(p, d) = {} /\ OneClaimEach(p, d, excused'["double"])
    BY <1>5, NoBatch
  <2> QED BY <1>1, <1>2, <1>3, <1>5, <2>1, ClaimsCarry
<1>6. ASSUME UNCHANGED cyc, NEW p \in {"channel", "giveUp", "version", "persist", "deadLetter"}, Goto(c, p)
      PROVE  ClaimInv'
  <2>1. cyc' = [cyc EXCEPT ![c] = cyc[c]] /\ pc' = [pc EXCEPT ![c] = p] /\ p \in Places \ {"unclaim", "undo"}
    BY <1>6 DEF TypeInv, TypeOK, Goto, Places
  <2> QED BY <1>1, <1>4, <1>5, <2>1
<1>7. CASE End(c)
  <2>1. /\ cyc' = [cyc EXCEPT ![c] = NoData] /\ pc' = [pc EXCEPT ![c] = "idle"]
        /\ "idle" \in Places \ {"unclaim", "undo"}
    BY <1>7 DEF End, Goto, Places
  <2> QED BY <1>4, <1>5, <2>1
<1>8. CASE Find(c)
  <2> DEFINE d == [NoData EXCEPT !.channel = sub.channel, !.current = current, !.queue = pending]
  <2>1. cyc' = [cyc EXCEPT ![c] = d] /\ pc' = [pc EXCEPT ![c] = "feed"] /\ "feed" \in Places \ {"unclaim", "undo"}
    BY <1>8 DEF Find, Goto, Places
  <2>2. d.batch = <<>> /\ d \in CycleData
    BY <1>4 DEF NoData, CycleData, TypeInv, TypeOK, Subscription
  <2> HIDE DEF d
  <2> QED BY <1>5, <2>1, <2>2
<1>9. CASE LoadFeed(c)
  <2>1. ASSUME NEW f \in 0 .. Published, cyc' = [cyc EXCEPT ![c].feed = f], Goto(c, "channel") PROVE ClaimInv'
    <3> DEFINE d == [cyc[c] EXCEPT !.feed = f]
    <3>1. /\ cyc' = [cyc EXCEPT ![c] = d] /\ pc' = [pc EXCEPT ![c] = "channel"]
          /\ "channel" \in Places \ {"unclaim", "undo"}
      BY <2>1 DEF Goto, Places
    <3>2. d.batch = <<>> /\ d \in CycleData
      BY <1>1, <1>4 DEF CycleData
    <3> HIDE DEF d
    <3> QED BY <1>5, <3>1, <3>2
  <2>3. latest \in 0 .. Published /\ snapshot \in 0 .. Published
    BY DEF TypeInv, TypeOK, CycleAssumption
  <2>2. \/ \E f \in 0 .. Published : cyc' = [cyc EXCEPT ![c].feed = f] /\ Goto(c, "channel")
        \/ UNCHANGED cyc /\ Goto(c, "channel")
        \/ End(c)
    BY <1>9, <2>3 DEF LoadFeed
  <2> QED BY <1>6, <1>7, <2>1, <2>2
<1>10. CASE ResolveChannel(c)
  <2> DEFINE p == IF cyc[c].current THEN "claim" ELSE "seed"
  <2>1. ASSUME NEW q, cyc' = [cyc EXCEPT ![c].queue = q], Goto(c, p) PROVE ClaimInv'
    <3> DEFINE d == [cyc[c] EXCEPT !.queue = q]
    <3>1. cyc' = [cyc EXCEPT ![c] = d] /\ pc' = [pc EXCEPT ![c] = p] /\ p \in Places \ {"unclaim", "undo"}
      BY <2>1 DEF Goto, Places
    <3>2. d.batch = <<>>
      BY <1>1, <1>4 DEF CycleData
    <3> HIDE DEF d, p
    <3>3. d \in CycleData
      BY <3>1 DEF TypeInv, TypeOK
    <3> QED BY <1>5, <3>1, <3>2, <3>3
  <2>2. \/ \E q : cyc' = [cyc EXCEPT ![c].queue = q] /\ Goto(c, p)
        \/ UNCHANGED cyc /\ Goto(c, "giveUp")
        \/ End(c)
    BY <1>10 DEF ResolveChannel
  <2> HIDE DEF p
  <2> QED BY <1>6, <1>7, <2>1, <2>2
<1>11. CASE GiveUp(c) \/ Rebaseline(c) \/ SetHashVersion(c) \/ Disable(c) \/ Persist(c) \/ DeadLetter(c)
  BY <1>6, <1>7, <1>11 DEF GiveUp, Rebaseline, SetHashVersion, Disable, Persist, DeadLetter
<1> QED BY <1>8, <1>9, <1>10, <1>11

LEMMA EachClaim ==
  ASSUME TypeInv, ClaimInv, NEW c \in Cycle, Excusing
  PROVE  /\ OneClaimEach(pc[c], cyc[c], excused["double"])
         /\ excused["double"] \subseteq excused'["double"] /\ excused["leak"] \subseteq excused'["leak"]
         /\ Distinct(cyc[c].batch, excused'["double"])
         /\ (pc[c] = "undo" => Distinct(cyc[c].hand, excused'["double"]))
<1>1. OneClaimEach(pc[c], cyc[c], excused["double"])
  BY DEF ClaimInv, OnceInv
<1>2. excused["double"] \subseteq excused'["double"] /\ excused["leak"] \subseteq excused'["leak"]
  BY ExcusesGrow DEF Excuses, TypeInv
<1> QED BY <1>1, <1>2, DistinctGrows DEF OneClaimEach

(* A step in the claim loop, or out of it, that keeps the batch. *)
LEMMA BatchStays ==
  ASSUME TypeInv, ClaimInv, NEW c \in Cycle, pc[c] \in {"claim", "upsert", "send"},
         NEW p \in Places \ {"unclaim", "undo"}, NEW d \in CycleData, d.batch = cyc[c].batch,
         pc' = [pc EXCEPT ![c] = p], cyc' = [cyc EXCEPT ![c] = d], Excusing, UNCHANGED <<announced, baseline>>,
         seen \subseteq seen', seen' \subseteq Update, seen' \ seen \subseteq excused'["leak"]
  PROVE  ClaimInv'
<1>1. ClaimsOf(p, d) = Ids(cyc[c].batch) /\ Claims(c) = Ids(cyc[c].batch)
  BY DEF ClaimsOf, Claims
<1>2. OneClaimEach(p, d, excused'["double"])
  BY EachClaim DEF OneClaimEach
<1>3. /\ ClaimsOf(p, d) \subseteq Claims(c) /\ Claims(c) \subseteq ClaimsOf(p, d) \cup excused'["leak"]
      /\ baseline \subseteq baseline' /\ UNCHANGED announced /\ seen' \ seen \subseteq baseline' \cup excused'["leak"]
  BY <1>1
<1> QED BY <1>2, <1>3, ClaimsCarry

LEMMA ClaimGuardClaims ==
  ASSUME CycleAssumption, TypeInv, ClaimInv, NEW c \in Cycle, EndClaims(c) \/ ClaimGuard(c), TypeInv'
  PROVE  ClaimInv'
<1>1. pc[c] = "claim" /\ UNCHANGED <<announced, baseline, seen>> /\ seen' \subseteq Update /\ cyc[c] \in CycleData
  BY DEF EndClaims, ClaimGuard, out, ghost, TypeInv, TypeOK
<1>2. Excusing
  <2>1. ASSUME NEW q \in Seq(Item), q # <<>> PROVE {Head(q).id} \in SUBSET Update
    BY <2>1, HeadAndTail DEF Item
  <2>2. cyc[c].queue \in Seq(Item)
    BY HandsTyped DEF TypeInv
  <2>3. ClaimGuard(c) => {Head(cyc[c].queue).id} \in SUBSET Update
    BY <2>1, <2>2 DEF ClaimGuard
  <2>4. "drop" \in Excuses
    BY DEF Excuses
  <2> QED BY <2>3, <2>4 DEF EndClaims, ClaimGuard, ghost, Excusing
<1>3. pc'[c] \in Places \ {"unclaim", "undo"} /\ pc' = [pc EXCEPT ![c] = pc'[c]]
  BY <1>1 DEF EndClaims, ClaimGuard, Goto, Places, TypeInv, TypeOK
<1>4. cyc'[c] \in CycleData /\ cyc' = [cyc EXCEPT ![c] = cyc'[c]]
  BY DEF EndClaims, ClaimGuard, GiveBack, TypeInv, TypeOK
<1>5. cyc'[c].batch = cyc[c].batch
  <2>1. CASE EndClaims(c)
    BY <2>1 DEF EndClaims
  <2>2. CASE ClaimGuard(c)
    <3> DEFINE item == Head(cyc[c].queue)
               rest == [cyc[c] EXCEPT !.queue = Tail(@)]
               held == [rest EXCEPT !.hand = <<item>>]
    <3>1. rest.batch = cyc[c].batch /\ held.batch = cyc[c].batch /\ GivenBack(rest, <<item>>).batch = cyc[c].batch
      BY <1>1 DEF CycleData, GivenBack
    <3>2. cyc'[c] \in {rest, held, GivenBack(rest, <<item>>)}
      BY <2>2 DEF ClaimGuard, GiveBack, TypeInv, TypeOK
    <3> HIDE DEF rest, held, item
    <3> QED BY <3>1, <3>2
  <2> QED BY <2>1, <2>2
<1> QED BY <1>1, <1>2, <1>3, <1>4, <1>5, BatchStays

LEMMA UpsertClaims ==
  ASSUME CycleAssumption, TypeInv, ClaimInv, NEW c \in Cycle, Upsert(c), TypeInv'
  PROVE  ClaimInv'
<1> DEFINE item == cyc[c].hand[1]
           double == excused'["double"]
           taken == [cyc[c] EXCEPT !.batch = Append(@, item), !.hand = <<>>]
<1>1. /\ pc[c] = "upsert" /\ cyc[c] \in CycleData /\ cyc[c].batch \in Seq(Item)
      /\ item \in Item /\ item.id \in Update /\ <<item>> \in Seq(Item)
      /\ Ids(cyc[c].hand) = {item.id}
  BY InTheHand, HandsTyped DEF Upsert, TypeInv
<1>2. /\ UNCHANGED <<announced, baseline>> /\ seen \subseteq seen' /\ seen' \subseteq Update
      /\ seen' \ seen \subseteq {item.id}
      /\ \A i \in Update : announced[i] \in Nat
  <2>1. UNCHANGED <<announced, baseline>>
    BY DEF Upsert, out
  <2>2. seen \subseteq seen' /\ seen' \ seen \subseteq {item.id}
    BY DEF Upsert
  <2> QED BY <2>1, <2>2 DEF TypeInv, TypeOK
<1>3. Excusing
  <2>1. {item.id} \in SUBSET Update /\ {item.id} \cap (seen' \ seen) \in SUBSET Update /\ "leak" \in Excuses
    BY <1>1 DEF Excuses
  <2> QED BY <2>1 DEF Upsert, Excusing
<1>4. /\ excused["double"] \subseteq double /\ excused["leak"] \subseteq excused'["leak"]
      /\ Distinct(cyc[c].batch, double) /\ Distinct(cyc[c].batch, excused["double"])
  BY <1>3, EachClaim DEF OneClaimEach
<1>5. Claims(c) = Ids(cyc[c].batch) /\ Ids(cyc[c].batch) \subseteq Update
  BY <1>1, ItemsAre DEF Claims, ClaimsOf
<1>6. item.id \notin seen => {item.id} \cap Ids(cyc[c].batch) \subseteq double
  BY <1>1, <1>4, <1>5 DEF ClaimInv, OnceInv
<1>7. ASSUME item.id \notin seen, seen' = seen \cup {item.id}, NEW p \in {"claim", "unclaim"}, NEW d \in CycleData,
             Goto(c, p), cyc' = [cyc EXCEPT ![c] = d],
             ClaimsOf(p, d) = Claims(c) \cup {item.id}, OneClaimEach(p, d, double)
      PROVE  ClaimInv'
  <2> DEFINE gained == {item.id}
             posted == {}
  <2>1. /\ posted \subseteq Claims(c) /\ posted \cap ClaimsOf(p, d) \subseteq excused'["double"]
        /\ ClaimsOf(p, d) \subseteq Claims(c) \cup gained /\ gained \subseteq seen' \ seen
        /\ seen \ seen' \subseteq Claims(c) /\ (seen \ seen') \cap ClaimsOf(p, d) \subseteq excused'["double"]
        /\ posted \cap (seen \ seen') = {} /\ baseline \subseteq baseline' /\ seen' \subseteq Update
        /\ excused["double"] \subseteq excused'["double"] /\ excused["leak"] \subseteq excused'["leak"]
        /\ OneClaimEach(p, d, excused'["double"])
    BY <1>2, <1>4, <1>7
  <2>2. \A i \in Update : announced'[i] = announced[i] + (IF i \in posted THEN 1 ELSE 0)
    BY <1>2
  <2>3. \A i \in seen' : i \notin seen \/ i \in Claims(c) =>
            i \in ClaimsOf(p, d) \/ i \in posted \/ i \in baseline' \/ i \in excused'["leak"]
    BY <1>2, <1>7
  <2>4. pc' = [pc EXCEPT ![c] = p] /\ cyc' = [cyc EXCEPT ![c] = d]
    BY <1>7 DEF Goto
  <2> HIDE DEF item, gained, posted, double, taken
  <2> QED BY <2>1, <2>2, <2>3, <2>4, ClaimsMove
<1>8. CASE item.id \notin seen /\ seen' = seen \cup {item.id} /\ cyc' = [cyc EXCEPT ![c] = taken] /\ Goto(c, "claim")
  <2>1. taken.batch = Append(cyc[c].batch, item)
    BY <1>1 DEF CycleData
  <2>2. Ids(taken.batch) = Ids(cyc[c].batch) \cup {item.id} /\ Append(cyc[c].batch, item) \in Seq(Item)
    BY <1>1, <2>1, AppendedIds
  <2>3. Distinct(taken.batch, double)
    BY <1>1, <1>4, <1>6, <1>8, <2>1, DistinctAppend
  <2>4. taken \in CycleData
    BY <1>1, <2>2, NoDataTyped DEF CycleData
  <2> HIDE DEF taken, item
  <2>5. ClaimsOf("claim", taken) = Claims(c) \cup {item.id} /\ OneClaimEach("claim", taken, double)
    BY <1>5, <2>2, <2>3 DEF ClaimsOf, OneClaimEach
  <2> QED BY <1>7, <1>8, <2>4, <2>5
<1>9. CASE item.id \notin seen /\ seen' = seen \cup {item.id} /\ UNCHANGED cyc /\ Goto(c, "unclaim")
  <2>1. cyc' = [cyc EXCEPT ![c] = cyc[c]]
    BY <1>9 DEF TypeInv, TypeOK
  <2>2. ClaimsOf("unclaim", cyc[c]) = Claims(c) \cup {item.id} /\ OneClaimEach("unclaim", cyc[c], double)
    BY <1>1, <1>4, <1>5, <1>6, <1>9 DEF ClaimsOf, OneClaimEach
  <2> QED BY <1>1, <1>7, <1>9, <2>1, <2>2
<1>10. CASE Goto(c, "claim") /\ seen' \ seen \subseteq excused'["leak"]
              /\ (cyc' = [cyc EXCEPT ![c].hand = <<>>] \/ GiveBack(c, cyc[c], <<item>>))
  <2>1. cyc'[c] \in CycleData /\ cyc' = [cyc EXCEPT ![c] = cyc'[c]]
    BY <1>10 DEF GiveBack, TypeInv, TypeOK
  <2>2. cyc'[c].batch = cyc[c].batch
    <3>1. cyc'[c] \in {[cyc[c] EXCEPT !.hand = <<>>], GivenBack(cyc[c], <<item>>)}
      BY <1>10 DEF GiveBack, TypeInv, TypeOK
    <3>2. [cyc[c] EXCEPT !.hand = <<>>].batch = cyc[c].batch /\ GivenBack(cyc[c], <<item>>).batch = cyc[c].batch
      BY <1>1 DEF CycleData, GivenBack
    <3> QED BY <3>1, <3>2
  <2>3. pc' = [pc EXCEPT ![c] = "claim"] /\ "claim" \in Places \ {"unclaim", "undo"}
    BY <1>10 DEF Goto, Places
  <2> HIDE DEF item
  <2> QED BY <1>1, <1>2, <1>3, <1>10, <2>1, <2>2, <2>3, BatchStays
<1>11. ASSUME NEW items \in SUBSET Update, Excuse("leak", items) PROVE items \subseteq excused'["leak"]
  BY <1>11, Excused DEF Excuses, TypeInv
<1>12. ASSUME seen' \in {seen, seen \cup {item.id}}, Excuse("leak", {item.id} \cap (seen' \ seen))
       PROVE  seen' \ seen \subseteq excused'["leak"]
  <2>1. {item.id} \cap (seen' \ seen) \in SUBSET Update
    BY <1>1
  <2> QED BY <1>11, <1>12, <2>1
<1>13. ASSUME seen' = seen \cup {item.id}, Excuse("leak", {item.id}) PROVE seen' \ seen \subseteq excused'["leak"]
  BY <1>1, <1>11, <1>13
<1>14. \/ item.id \notin seen /\ seen' = seen \cup {item.id} /\ cyc' = [cyc EXCEPT ![c] = taken] /\ Goto(c, "claim")
       \/ item.id \notin seen /\ seen' = seen \cup {item.id} /\ UNCHANGED cyc /\ Goto(c, "unclaim")
       \/ Goto(c, "claim") /\ UNCHANGED seen /\ cyc' = [cyc EXCEPT ![c].hand = <<>>]
       \/ /\ Goto(c, "claim") /\ seen' = seen \cup {item.id} /\ Excuse("leak", {item.id})
          /\ cyc' = [cyc EXCEPT ![c].hand = <<>>]
       \/ /\ Goto(c, "claim") /\ seen' \in {seen, seen \cup {item.id}} /\ GiveBack(c, cyc[c], <<item>>)
          /\ Excuse("leak", {item.id} \cap (seen' \ seen))
  BY DEF Upsert
<1> HIDE DEF item, taken, double
<1> QED BY <1>8, <1>9, <1>10, <1>12, <1>13, <1>14

LEMMA RolledBack ==
  ASSUME TypeInv, NEW id \in Update, RollBack(id)
  PROVE  /\ Excusing /\ seen' \subseteq Update /\ seen \ seen' \subseteq {id} /\ seen' \subseteq seen
         /\ {id} \cap seen' \subseteq excused'["leak"]
<1>1. {id} \cap seen' \in SUBSET Update /\ "leak" \in Excuses
  BY DEF Excuses
<1>2. Excusing
  BY <1>1 DEF RollBack, Excusing
<1>3. {id} \cap seen' \subseteq excused'["leak"]
  BY <1>1, Excused DEF RollBack, TypeInv
<1> QED BY <1>2, <1>3 DEF RollBack, TypeInv, TypeOK

(* A step that gives up the claim of one update. *)
LEMMA ClaimReleased ==
  ASSUME TypeInv, ClaimInv, NEW c \in Cycle, NEW id \in Claims(c), NEW p \in Places, NEW d \in CycleData,
         pc' = [pc EXCEPT ![c] = p], cyc' = [cyc EXCEPT ![c] = d], Excusing, UNCHANGED <<announced, baseline>>,
         seen \ seen' \subseteq {id}, seen' \subseteq seen,
         {id} \cap ClaimsOf(p, d) \subseteq excused'["double"],
         ClaimsOf(p, d) \subseteq Claims(c),
         Claims(c) \subseteq ClaimsOf(p, d) \cup {id}, {id} \cap seen' \subseteq excused'["leak"] \cup ClaimsOf(p, d),
         OneClaimEach(p, d, excused'["double"])
  PROVE  ClaimInv'
<1> DEFINE gained == {}
           posted == {}
<1>1. /\ posted \subseteq Claims(c) /\ posted \cap ClaimsOf(p, d) \subseteq excused'["double"]
      /\ ClaimsOf(p, d) \subseteq Claims(c) \cup gained /\ gained \subseteq seen' \ seen
      /\ seen \ seen' \subseteq Claims(c) /\ (seen \ seen') \cap ClaimsOf(p, d) \subseteq excused'["double"]
      /\ posted \cap (seen \ seen') = {} /\ baseline \subseteq baseline' /\ seen' \subseteq Update
      /\ excused["double"] \subseteq excused'["double"] /\ excused["leak"] \subseteq excused'["leak"]
  BY EachClaim DEF TypeInv, TypeOK
<1>2. \A i \in Update : announced'[i] = announced[i] + (IF i \in posted THEN 1 ELSE 0)
  BY DEF TypeInv, TypeOK
<1>3. \A i \in seen' : i \notin seen \/ i \in Claims(c) =>
          i \in ClaimsOf(p, d) \/ i \in posted \/ i \in baseline' \/ i \in excused'["leak"]
  OBVIOUS
<1> HIDE DEF gained, posted
<1> QED BY <1>1, <1>2, <1>3, ClaimsMove

LEMMA UnclaimClaims ==
  ASSUME CycleAssumption, TypeInv, ClaimInv, NEW c \in Cycle, Unclaim(c), TypeInv'
  PROVE  ClaimInv'
<1> DEFINE item == cyc[c].hand[1]
           back == GivenBack(cyc[c], <<item>>)
<1>1. /\ pc[c] = "unclaim" /\ cyc[c] \in CycleData /\ item.id \in Update /\ <<item>> \in Seq(Item)
      /\ Ids(cyc[c].hand) = {item.id}
  BY InTheHand, HandsTyped DEF Unclaim, TypeInv
<1>2. UNCHANGED <<announced, baseline>>
  BY DEF Unclaim, out
<1>3. Claims(c) = Ids(cyc[c].batch) \cup {item.id} /\ item.id \in Claims(c)
  BY <1>1 DEF Claims, ClaimsOf
<1>4. CASE RollBack(item.id) /\ GiveBack(c, cyc[c], <<item>>) /\ Goto(c, "claim")
  <2>1. back \in CycleData /\ back.batch = cyc[c].batch
    BY <1>1, GivenBackKeeps
  <2>2. pc' = [pc EXCEPT ![c] = "claim"] /\ cyc' = [cyc EXCEPT ![c] = back] /\ "claim" \in Places
    BY <1>4 DEF Goto, GiveBack, Places
  <2> HIDE DEF back, item
  <2>3. /\ Excusing /\ seen' \subseteq Update /\ seen \ seen' \subseteq {item.id} /\ seen' \subseteq seen
        /\ {item.id} \cap seen' \subseteq excused'["leak"]
    BY <1>1, <1>4, RolledBack
  <2>4. ClaimsOf("claim", back) = Ids(cyc[c].batch)
    BY <2>1 DEF ClaimsOf
  <2>5. /\ {item.id} \cap Ids(cyc[c].batch) \subseteq excused'["double"]
        /\ OneClaimEach("claim", back, excused'["double"])
    BY <1>1, <2>1, <2>3, EachClaim DEF OneClaimEach
  <2> QED BY <1>2, <1>3, <2>1, <2>2, <2>3, <2>4, <2>5, ClaimReleased
<1>5. CASE seen' = seen \ {item.id} /\ Excuse("double", {item.id}) /\ UNCHANGED <<cyc, pc, returned>>
  <2> HIDE DEF item
  <2>1. {item.id} \in SUBSET Update /\ "double" \in Excuses
    BY <1>1 DEF Excuses
  <2>2. Excusing /\ item.id \in excused'["double"]
    BY <1>5, <2>1, Excused DEF Excusing, TypeInv
  <2>3. pc' = [pc EXCEPT ![c] = "unclaim"] /\ cyc' = [cyc EXCEPT ![c] = cyc[c]] /\ "unclaim" \in Places
    BY <1>1, <1>5 DEF TypeInv, TypeOK, Places
  <2>4. ClaimsOf("unclaim", cyc[c]) = Claims(c)
    BY <1>1 DEF Claims
  <2>5. OneClaimEach("unclaim", cyc[c], excused'["double"])
    BY <1>1, <2>2, EachClaim DEF OneClaimEach
  <2>6. /\ seen \ seen' \subseteq {item.id} /\ seen' \subseteq seen
        /\ {item.id} \cap ClaimsOf("unclaim", cyc[c]) \subseteq excused'["double"]
        /\ ClaimsOf("unclaim", cyc[c]) \subseteq Claims(c)
        /\ Claims(c) \subseteq ClaimsOf("unclaim", cyc[c]) \cup {item.id}
        /\ {item.id} \cap seen' \subseteq excused'["leak"] \cup ClaimsOf("unclaim", cyc[c])
    BY <1>3, <1>5, <2>2, <2>4
  <2> QED BY <1>1, <1>2, <1>3, <2>2, <2>3, <2>5, <2>6, ClaimReleased
<1> QED BY <1>4, <1>5 DEF Unclaim

LEMMA UndoClaims ==
  ASSUME CycleAssumption, TypeInv, ClaimInv, NEW c \in Cycle, Undo(c), TypeInv'
  PROVE  ClaimInv'
<1> DEFINE id == cyc[c].hand[1].id
           rest == Tail(cyc[c].hand)
<1>1. /\ pc[c] = "undo" /\ cyc[c] \in CycleData /\ id \in Update /\ rest \in Seq(Item) /\ cyc[c].hand \in Seq(Item)
      /\ cyc[c].hand # <<>> /\ Ids(cyc[c].hand) = {id} \cup Ids(rest) /\ cyc[c].batch = <<>>
      /\ cyc[c].failed \in Seq(Item)
  <2>1. ShapeOf(pc[c], cyc[c], excused["drop"]) /\ pc[c] = "undo"
    BY DEF Undo, TypeInv, ShapeInv
  <2> QED BY <2>1, InTheHand, HandsTyped DEF TypeInv, ShapeOf
<1>2. UNCHANGED <<announced, baseline>>
  BY DEF Undo, out
<1>3. Claims(c) = {id} \cup Ids(rest) /\ id \in Claims(c)
  BY <1>1, EmptyIds DEF Claims, ClaimsOf
<1>4. ASSUME RollBack(id)
      PROVE  /\ Excusing /\ seen' \subseteq Update /\ seen \ seen' \subseteq {id} /\ seen' \subseteq seen
             /\ {id} \cap seen' \subseteq excused'["leak"]
             /\ Distinct(rest, excused'["double"]) /\ {id} \cap Ids(rest) \subseteq excused'["double"]
  <2>1. Excusing
    BY <1>1, <1>4, RolledBack
  <2>2. Distinct(cyc[c].hand, excused'["double"])
    BY <1>1, <2>1, EachClaim
  <2> QED BY <1>1, <1>4, <2>2, RolledBack, DistinctTail
<1>5. CASE RollBack(id) /\ rest # <<>> /\ cyc' = [cyc EXCEPT ![c].hand = rest] /\ UNCHANGED <<pc, returned>>
  <2> DEFINE d == [cyc[c] EXCEPT !.hand = rest]
  <2>1. d \in CycleData /\ d.hand = rest /\ d.batch = <<>>
    BY <1>1 DEF CycleData
  <2>2. pc' = [pc EXCEPT ![c] = "undo"] /\ cyc' = [cyc EXCEPT ![c] = d] /\ "undo" \in Places
    BY <1>1, <1>5 DEF Places, TypeInv, TypeOK
  <2> HIDE DEF d, id, rest
  <2>3. ClaimsOf("undo", d) = Ids(rest)
    BY <2>1, EmptyIds DEF ClaimsOf
  <2>4. OneClaimEach("undo", d, excused'["double"])
    BY <1>4, <1>5, <2>1 DEF OneClaimEach, Distinct
  <2>6. /\ seen \ seen' \subseteq {id} /\ seen' \subseteq seen
        /\ {id} \cap ClaimsOf("undo", d) \subseteq excused'["double"]
        /\ ClaimsOf("undo", d) \subseteq Claims(c) /\ Claims(c) \subseteq ClaimsOf("undo", d) \cup {id}
        /\ {id} \cap seen' \subseteq excused'["leak"] \cup ClaimsOf("undo", d)
    BY <1>3, <1>4, <1>5, <2>3
  <2> QED BY <1>2, <1>3, <1>4, <1>5, <2>1, <2>2, <2>4, <2>6, ClaimReleased
<1>6. ASSUME RollBack(id), rest = <<>>, NEW p \in Places \ {"unclaim", "undo"}, NEW d \in CycleData, d.batch = <<>>,
             pc' = [pc EXCEPT ![c] = p], cyc' = [cyc EXCEPT ![c] = d]
      PROVE  ClaimInv'
  <2> HIDE DEF id, rest
  <2>1. ClaimsOf(p, d) = {} /\ OneClaimEach(p, d, excused'["double"])
    BY <1>6, NoBatch
  <2>2. Ids(rest) = {}
    BY <1>6, EmptyIds
  <2>3. /\ {id} \cap ClaimsOf(p, d) \subseteq excused'["double"] /\ ClaimsOf(p, d) \subseteq Claims(c)
        /\ Claims(c) \subseteq ClaimsOf(p, d) \cup {id}
        /\ {id} \cap seen' \subseteq excused'["leak"] \cup ClaimsOf(p, d)
    BY <1>3, <1>4, <1>6, <2>1, <2>2
  <2> QED BY <1>2, <1>3, <1>4, <1>6, <2>1, <2>3, ClaimReleased
<1>7. CASE RollBack(id) /\ rest = <<>> /\ GiveBack(c, cyc[c], cyc[c].failed) /\ Goto(c, "persist")
  <2> DEFINE back == GivenBack(cyc[c], cyc[c].failed)
  <2>1. back \in CycleData /\ back.batch = <<>>
    BY <1>1, GivenBackKeeps
  <2>2. /\ pc' = [pc EXCEPT ![c] = "persist"] /\ cyc' = [cyc EXCEPT ![c] = back]
        /\ "persist" \in Places \ {"unclaim", "undo"}
    BY <1>7 DEF Goto, GiveBack, Places
  <2> HIDE DEF back, id, rest
  <2> QED BY <1>6, <1>7, <2>1, <2>2
<1>8. CASE RollBack(id) /\ rest = <<>> /\ cyc' = [cyc EXCEPT ![c].hand = <<>>] /\ Goto(c, "disable")
  <2> DEFINE d == [cyc[c] EXCEPT !.hand = <<>>]
  <2>1. d \in CycleData /\ d.batch = <<>>
    BY <1>1, NoDataTyped DEF CycleData
  <2>2. /\ pc' = [pc EXCEPT ![c] = "disable"] /\ cyc' = [cyc EXCEPT ![c] = d]
        /\ "disable" \in Places \ {"unclaim", "undo"}
    BY <1>8 DEF Goto, Places
  <2> HIDE DEF d, id, rest
  <2> QED BY <1>6, <1>8, <2>1, <2>2
<1>9. CASE seen' = seen \ {id} /\ Excuse("double", {id}) /\ UNCHANGED <<cyc, pc, returned>>
  <2> HIDE DEF id, rest
  <2>1. {id} \in SUBSET Update /\ "double" \in Excuses
    BY <1>1 DEF Excuses
  <2>2. Excusing /\ id \in excused'["double"]
    BY <1>9, <2>1, Excused DEF Excusing, TypeInv
  <2>3. pc' = [pc EXCEPT ![c] = "undo"] /\ cyc' = [cyc EXCEPT ![c] = cyc[c]] /\ "undo" \in Places
    BY <1>1, <1>9 DEF TypeInv, TypeOK, Places
  <2>4. ClaimsOf("undo", cyc[c]) = Claims(c)
    BY <1>1 DEF Claims
  <2>5. OneClaimEach("undo", cyc[c], excused'["double"])
    BY <1>1, <2>2, EachClaim DEF OneClaimEach
  <2>6. /\ seen \ seen' \subseteq {id} /\ seen' \subseteq seen
        /\ {id} \cap ClaimsOf("undo", cyc[c]) \subseteq excused'["double"]
        /\ ClaimsOf("undo", cyc[c]) \subseteq Claims(c) /\ Claims(c) \subseteq ClaimsOf("undo", cyc[c]) \cup {id}
        /\ {id} \cap seen' \subseteq excused'["leak"] \cup ClaimsOf("undo", cyc[c])
    BY <1>3, <1>9, <2>2, <2>4
  <2>7. UNCHANGED <<announced, baseline>> /\ id \in Claims(c)
    BY <1>1, <1>2, <1>3, <1>9
  <2> QED BY <1>1, <2>2, <2>3, <2>5, <2>6, <2>7, ClaimReleased
<1> QED BY <1>5, <1>7, <1>8, <1>9 DEF Undo

LEMMA SendClaims ==
  ASSUME CycleAssumption, TypeInv, ClaimInv, NEW c \in Cycle, Send(c), TypeInv'
  PROVE  ClaimInv'
<1> DEFINE chunk == Ids(ChunkOf(c))
           after == AfterChunk(c)
<1>1. /\ pc[c] = "send" /\ cyc[c] \in CycleData /\ chunk \subseteq Update /\ after \in Seq(Item)
      /\ Ids(cyc[c].batch) = chunk \cup Ids(after) /\ Claims(c) = Ids(cyc[c].batch) /\ cyc[c].batch \in Seq(Item)
  <2>1. pc[c] = "send" /\ cyc[c] \in CycleData /\ cyc[c].batch \in Seq(Item)
    BY HandsTyped DEF Send, TypeInv
  <2>2. ChunkOf(c) \in Seq(Item) /\ after \in Seq(Item) /\ Ids(cyc[c].batch) = chunk \cup Ids(after)
    BY Chunks DEF TypeInv
  <2> QED BY <2>1, <2>2, ItemsAre DEF Claims, ClaimsOf
<1>2. UNCHANGED <<seen, baseline>> /\ seen \subseteq Update
  BY DEF Send, TypeInv, TypeOK
<1>3. Excusing
  <2>1. chunk \in SUBSET Update /\ "double" \in Excuses
    BY <1>1 DEF Excuses
  <2> QED BY <2>1 DEF Send, Excusing
<1>4. /\ excused["double"] \subseteq excused'["double"] /\ excused["leak"] \subseteq excused'["leak"]
      /\ Distinct(cyc[c].batch, excused'["double"])
      /\ Distinct(after, excused'["double"]) /\ chunk \cap Ids(after) \subseteq excused'["double"]
  BY <1>3, EachClaim, Chunks DEF TypeInv
<1>5. ASSUME NEW posted \in {{}, chunk},
             \A i \in Update : announced'[i] = announced[i] + (IF i \in posted THEN 1 ELSE 0),
             NEW p \in Places, NEW d \in CycleData, pc' = [pc EXCEPT ![c] = p], cyc' = [cyc EXCEPT ![c] = d],
             ClaimsOf(p, d) \cup posted = Claims(c), posted \cap ClaimsOf(p, d) \subseteq excused'["double"],
             OneClaimEach(p, d, excused'["double"])
      PROVE  ClaimInv'
  <2> DEFINE gained == {}
  <2>1. /\ posted \subseteq Claims(c)
        /\ ClaimsOf(p, d) \subseteq Claims(c) \cup gained /\ gained \subseteq seen' \ seen
        /\ seen \ seen' \subseteq Claims(c) /\ (seen \ seen') \cap ClaimsOf(p, d) \subseteq excused'["double"]
        /\ posted \cap (seen \ seen') = {} /\ baseline \subseteq baseline' /\ seen' \subseteq Update
    BY <1>1, <1>2, <1>5
  <2>2. \A i \in seen' : i \notin seen \/ i \in Claims(c) =>
            i \in ClaimsOf(p, d) \/ i \in posted \/ i \in baseline' \/ i \in excused'["leak"]
    BY <1>2, <1>5
  <2> HIDE DEF gained, chunk, after
  <2> QED BY <1>4, <1>5, <2>1, <2>2, ClaimsMove
<1>6. /\ Post(chunk) => \A i \in Update : announced'[i] = announced[i] + (IF i \in chunk THEN 1 ELSE 0)
      /\ UNCHANGED announced => \A i \in Update : announced'[i] = announced[i] + (IF i \in {} THEN 1 ELSE 0)
  BY DEF Post, TypeInv, TypeOK
<1>7. CASE /\ Post(chunk) /\ cyc' = [cyc EXCEPT ![c].batch = after]
           /\ Goto(c, IF after = <<>> THEN "persist" ELSE "send")
  <2> DEFINE d == [cyc[c] EXCEPT !.batch = after]
             p == IF after = <<>> THEN "persist" ELSE "send"
  <2>1. d \in CycleData /\ d.batch = after /\ p \in Places /\ p \notin {"unclaim", "undo"}
    BY <1>1 DEF CycleData, Places
  <2>2. cyc' = [cyc EXCEPT ![c] = d] /\ pc' = [pc EXCEPT ![c] = p]
    BY <1>7 DEF Goto
  <2> HIDE DEF d, p, chunk, after
  <2>3. ClaimsOf(p, d) = Ids(after) /\ OneClaimEach(p, d, excused'["double"])
    BY <1>4, <2>1 DEF ClaimsOf, OneClaimEach
  <2>4. ClaimsOf(p, d) \cup chunk = Claims(c) /\ chunk \cap ClaimsOf(p, d) \subseteq excused'["double"]
    BY <1>1, <1>4, <2>3
  <2> QED BY <1>5, <1>6, <1>7, <2>1, <2>2, <2>3, <2>4
<1>8. ASSUME NEW permanent \in BOOLEAN, SendFails(c, permanent), NEW posted \in {{}, chunk},
             posted \subseteq excused'["double"],
             \A i \in Update : announced'[i] = announced[i] + (IF i \in posted THEN 1 ELSE 0)
      PROVE  ClaimInv'
  <2> DEFINE d == [cyc[c] EXCEPT !.hand = cyc[c].batch, !.failed = cyc[c].batch, !.batch = <<>>,
                              !.permanent = permanent]
  <2>1. d \in CycleData /\ d.batch = <<>> /\ d.hand = cyc[c].batch /\ "undo" \in Places
    BY <1>1, NoDataTyped DEF CycleData, Places
  <2>2. cyc' = [cyc EXCEPT ![c] = d] /\ pc' = [pc EXCEPT ![c] = "undo"]
    BY <1>8 DEF SendFails, Goto
  <2> HIDE DEF d
  <2>3. ClaimsOf("undo", d) = Claims(c)
    BY <1>1, <2>1, EmptyIds DEF ClaimsOf
  <2>4. OneClaimEach("undo", d, excused'["double"])
    BY <1>4, <2>1 DEF OneClaimEach, Distinct
  <2>5. ClaimsOf("undo", d) \cup posted = Claims(c)
    BY <1>1, <1>8, <2>3
  <2> QED BY <1>5, <1>8, <2>1, <2>2, <2>3, <2>4, <2>5
<1>9. ASSUME Excuse("double", chunk) PROVE chunk \subseteq excused'["double"]
  BY <1>1, <1>9, Excused DEF Excuses, TypeInv
<1>10. \/ /\ Post(chunk) /\ cyc' = [cyc EXCEPT ![c].batch = after]
          /\ Goto(c, IF after = <<>> THEN "persist" ELSE "send")
       \/ \E permanent \in BOOLEAN : SendFails(c, permanent) /\ UNCHANGED announced
       \/ Post(chunk) /\ Excuse("double", chunk) /\ SendFails(c, FALSE)
  BY DEF Send
<1> HIDE DEF chunk, after
<1>11. CASE \E permanent \in BOOLEAN : SendFails(c, permanent) /\ UNCHANGED announced
  BY <1>6, <1>8, <1>11
<1>12. CASE Post(chunk) /\ Excuse("double", chunk) /\ SendFails(c, FALSE)
  BY <1>6, <1>8, <1>9, <1>12
<1> QED BY <1>7, <1>10, <1>11, <1>12

LEMMA CommandClaims ==
  ASSUME TypeInv, ClaimInv, (\E k \in Command : CommandStep(k)) \/ Stop \/ Publish
  PROVE  ClaimInv'
<1>1. Excusing
  BY DropAll DEF CommandStep, Start, FetchBaseline, SeedBaseline, FinalizeActivation, RollbackActivation, Stop,
      Publish,
                 Excusing, ghost, TypeInv
<1>2. UNCHANGED <<pc, cyc, announced>>
  BY DEF CommandStep, Start, FetchBaseline, SeedBaseline, FinalizeActivation, RollbackActivation, Stop, Publish, out
<1>3. baseline \subseteq baseline' /\ seen \subseteq seen' /\ seen' \ seen \subseteq baseline'
  BY DEF CommandStep, Start, FetchBaseline, SeedBaseline, FinalizeActivation, RollbackActivation, Stop, Publish, ghost
<1> QED BY <1>1, <1>2, <1>3, ClaimsStay

LEMMA CrashClaims ==
  ASSUME CycleAssumption, TypeInv, ClaimInv, Crash, TypeInv'
  PROVE  ClaimInv'
<1>1. UNCHANGED <<announced, baseline, seen>> /\ seen' \subseteq Update
  BY DEF Crash, out, TypeInv, TypeOK
<1>2. ASSUME NEW c \in Cycle, End(c), Excuse("leak", InHand(c)) PROVE ClaimInv'
  <2>1. InHand(c) \in SUBSET Update /\ "leak" \in Excuses
    BY DropAll DEF TypeInv
  <2>2. Excusing /\ InHand(c) \subseteq excused'["leak"]
    BY <1>2, <2>1, Excused DEF Excusing, TypeInv
  <2>3. Claims(c) \subseteq InHand(c)
    BY InHandIs DEF TypeInv, Claims, ClaimsOf
  <2>4. pc' = [pc EXCEPT ![c] = "idle"] /\ cyc' = [cyc EXCEPT ![c] = NoData] /\ NoData.batch = <<>>
    BY <1>2 DEF End, Goto, NoData
  <2>5. ClaimsOf("idle", NoData) = {} /\ OneClaimEach("idle", NoData, excused'["double"])
    BY <2>4, NoBatch
  <2>6. /\ ClaimsOf("idle", NoData) \subseteq Claims(c)
        /\ Claims(c) \subseteq ClaimsOf("idle", NoData) \cup excused'["leak"]
        /\ baseline \subseteq baseline' /\ UNCHANGED announced /\ seen \subseteq seen'
        /\ seen' \ seen \subseteq baseline' \cup excused'["leak"]
    BY <1>1, <2>2, <2>3, <2>5
  <2> QED BY <1>1, <2>2, <2>4, <2>5, <2>6, ClaimsCarry
<1>3. ASSUME UNCHANGED <<pc, cyc, excused>> PROVE ClaimInv'
  BY <1>1, <1>3, ClaimsStay DEF Excusing
<1> QED BY <1>2, <1>3 DEF Crash

LEMMA ClaimInit == ASSUME CycleAssumption, Init PROVE ClaimInv
<1>1. \A c \in Cycle : Claims(c) = {} /\ OneClaimEach(pc[c], cyc[c], excused["double"])
  <2> SUFFICES ASSUME NEW c \in Cycle PROVE Claims(c) = {} /\ OneClaimEach(pc[c], cyc[c], excused["double"])
    OBVIOUS
  <2>1. pc[c] = "idle" /\ cyc[c] = NoData /\ NoData.batch = <<>>
    BY DEF Init, NoData
  <2> QED BY <2>1, NoBatch DEF Claims
<1>2. (\A i \in Update : announced[i] = 0) /\ seen = {}
  BY DEF Init
<1>4. OnceInv
  BY <1>1, <1>2 DEF OnceInv
<1>3. AccountInv
  BY <1>2 DEF AccountInv
<1> QED BY <1>3, <1>4 DEF ClaimInv

LEMMA ClaimNext == ASSUME CycleAssumption, TypeInv, ClaimInv, [Next]_vars PROVE ClaimInv'
<1>1. TypeInv'
  BY TypeNext
<1>2. ASSUME NEW c \in Cycle, CycleStep(c) PROVE ClaimInv'
  BY <1>1, <1>2, QuietClaims, ClaimGuardClaims, UpsertClaims, UnclaimClaims, UndoClaims, SendClaims DEF CycleStep
<1>3. ASSUME UNCHANGED vars PROVE ClaimInv'
  BY <1>3, ClaimsStay DEF vars, out, ghost, Excusing
<1> QED BY <1>1, <1>2, <1>3, CommandClaims, CrashClaims DEF Next

LEMMA ClaimsHeld == ASSUME TypeInv, ClaimInv PROVE AnnouncedExactlyOnce
<1>1. \A i \in Update : announced[i] \in Nat
  BY DEF TypeInv, TypeOK
<1>2. AnnouncedOnce
  BY <1>1 DEF AnnouncedOnce, ClaimInv, OnceInv
<1>3. ASSUME NEW c \in Cycle PROVE Claims(c) \subseteq Held(c)
  <2>1. cyc[c].batch \in Seq(Item) /\ cyc[c].hand \in Seq(Item) /\ cyc[c].failed \in Seq(Item)
    BY HandsTyped DEF TypeInv
  <2>2. /\ cyc[c].batch \o cyc[c].hand \in Seq(Item)
        /\ Ids(cyc[c].batch \o cyc[c].hand) = Ids(cyc[c].batch) \cup Ids(cyc[c].hand)
    BY <2>1, JoinedIds
  <2>3. Held(c) = Ids(cyc[c].batch) \cup Ids(cyc[c].hand) \cup Ids(cyc[c].failed)
    BY <2>1, <2>2, JoinedIds DEF Held
  <2> QED BY <2>3 DEF Claims, ClaimsOf
<1>4. ClaimsAccounted
  BY <1>3 DEF ClaimsAccounted, ClaimInv, AccountInv
<1> QED BY <1>2, <1>4 DEF AnnouncedExactlyOnce

(* What is marked as seen is announced, and once, whatever cycles overlap   *)
(* and however the subscription is stopped and started meanwhile, unless a *)
(* lost answer or a lost claim excuses it.                                 *)
THEOREM ClaimsAreExact == ASSUME CycleAssumption PROVE Spec => []AnnouncedExactlyOnce
<1> DEFINE I == TypeInv /\ ClaimInv
<1>1. Init => I
  BY TypeInit, ClaimInit
<1>2. I /\ [Next]_vars => I'
  BY TypeNext, ClaimNext
<1>3. I => AnnouncedExactlyOnce
  BY ClaimsHeld
<1> QED BY <1>1, <1>2, <1>3, PTL DEF Spec

(* The end of a start, or its failure, changes the subscription only while *)
(* the subscription's activation is that of the start.                     *)
THEOREM OwnStart == ASSUME CycleAssumption PROVE Spec => StartsKeepToThemselves
<1>1. ASSUME TypeInv, [Next]_vars PROVE OwnActivation
  <2> SUFFICES ASSUME NEW k \in Command, cpc[k] \in {"finalize", "rollback"}, cpc'[k] # cpc[k], sub' # sub
               PROVE  sub.activation = cmd[k].activation
    BY DEF OwnActivation
  <2>1. cpc \in [Command -> CommandPlaces]
    BY <1>1 DEF TypeInv, TypeOK
  <2>2. ASSUME NEW c \in Cycle, CycleStep(c) PROVE FALSE
    BY <2>2 DEF CycleStep, Find, LoadFeed, ResolveChannel, GiveUp, Rebaseline, SetHashVersion, EndClaims,
        ClaimGuard, Upsert,
                Unclaim, Send, Undo, Disable, Persist, DeadLetter, admin
  <2>3. ASSUME NEW l \in Command, CommandStep(l) PROVE sub.activation = cmd[k].activation
    <3>1. CASE l # k
      BY <2>1, <2>3, <3>1 DEF CommandStep, Start, FetchBaseline, SeedBaseline, FinalizeActivation,
          RollbackActivation, GotoCommand
    <3>2. CASE l = k
      BY <2>3, <3>2 DEF CommandStep, Start, FetchBaseline, SeedBaseline, FinalizeActivation, RollbackActivation,
          IsActivation, guild
    <3> QED BY <3>1, <3>2
  <2>4. ~Stop /\ ~Publish /\ ~Crash /\ ~UNCHANGED vars
    BY DEF Stop, Publish, Crash, vars, guild, admin
  <2> QED BY <1>1, <2>2, <2>3, <2>4 DEF Next
<1>2. Spec => []TypeInv
  BY Typing
<1> QED BY <1>1, <1>2, PTL DEF Spec, StartsKeepToThemselves

-----------------------------------------------------------------------------
(* What was given back.  While no two cycles overlap, an update that was    *)
(* given back is stored (announced, recorded, or excused), or where the    *)
(* cycle under way finds it: from the claims to the write of the queue     *)
(* only the cycle has it, before and after them the queue that is stored.  *)

Working == {"claim", "upsert", "unclaim", "send", "undo", "disable", "persist"}
Stored(i) == announced[i] > 0 \/ i \in recorded \cup baseline \cup excused["leak"] \cup excused["drop"]
KeptAt(c, i) ==
    /\ pc[c] \in {"feed", "channel"} => Stored(i) \/ (i \in Ids(pending) /\ i \in Ids(cyc[c].queue))
    /\ pc[c] \in {"idle", "giveUp", "seed", "version"} => Stored(i) \/ i \in Ids(pending)
    /\ pc[c] \in Working => Stored(i) \/ i \in InHand(c)
    /\ pc[c] = "deadLetter" => Stored(i) \/ i \in Ids(pending) \/ i \in cyc[c].dead
AllIdle == \A c \in Cycle : pc[c] = "idle"
Only(c) == \A e \in Cycle \ {c} : pc[e] = "idle"
KeptInv ==
    ~overlapped =>
        /\ \A c, d \in Cycle : pc[c] # "idle" /\ pc[d] # "idle" => c = d
        /\ AllIdle => \A i \in returned : Stored(i) \/ i \in Ids(pending)
        /\ \A c \in Cycle : Only(c) => \A i \in returned : KeptAt(c, i)

Hands(d) == Ids(d.queue) \cup Ids(d.batch) \cup Ids(d.hand) \cup Ids(d.failed) \cup d.dead
(* What is announced, recorded or excused stays so. *)
Grows ==
    /\ Excusing /\ recorded \subseteq recorded' /\ baseline \subseteq baseline'
    /\ \A i \in Update : announced[i] <= announced'[i]

LEMMA HandsAre ==
  ASSUME NEW d \in CycleData
  PROVE  Ids(d.queue \o d.batch \o d.hand \o d.failed) \cup d.dead = Hands(d)
<1>1. d.queue \in Seq(Item) /\ d.batch \in Seq(Item) /\ d.hand \in Seq(Item) /\ d.failed \in Seq(Item)
  BY DEF CycleData
<1>2. /\ d.queue \o d.batch \in Seq(Item) /\ Ids(d.queue \o d.batch) = Ids(d.queue) \cup Ids(d.batch)
  BY <1>1, JoinedIds
<1>3. /\ d.queue \o d.batch \o d.hand \in Seq(Item)
      /\ Ids(d.queue \o d.batch \o d.hand) = Ids(d.queue) \cup Ids(d.batch) \cup Ids(d.hand)
  BY <1>1, <1>2, JoinedIds
<1>4. Ids(d.queue \o d.batch \o d.hand \o d.failed) =
      Ids(d.queue) \cup Ids(d.batch) \cup Ids(d.hand) \cup Ids(d.failed)
  BY <1>1, <1>3, JoinedIds
<1> QED BY <1>4 DEF Hands

LEMMA HandsNext ==
  ASSUME TypeInv, TypeInv', NEW c \in Cycle
  PROVE  InHand(c) = Hands(cyc[c]) /\ InHand(c)' = Hands(cyc'[c]) /\ cyc[c] \in CycleData /\ cyc'[c] \in CycleData
<1>1. cyc[c] \in CycleData /\ cyc'[c] \in CycleData
  BY DEF TypeInv, TypeOK
<1> QED BY <1>1, HandsAre DEF InHand

LEMMA StoredGrows ==
  ASSUME TypeInv, TypeInv', Grows, NEW i \in Update, Stored(i)
  PROVE  Stored(i)'
<1>1. \A w \in Excuses : excused[w] \subseteq excused'[w]
  BY ExcusesGrow DEF Grows, TypeInv
<1>2. announced[i] \in Nat /\ announced'[i] \in Nat /\ announced[i] <= announced'[i]
  BY DEF TypeInv, TypeOK, Grows
<1> QED BY <1>1, <1>2 DEF Stored, Grows, Excuses

LEMMA StepsGrow == ASSUME CycleAssumption, TypeInv, TypeInv', [Next]_vars PROVE Grows
<1>0. /\ \A i \in Update : announced[i] \in Nat
      /\ \A items : Post(items) => \A i \in Update : announced[i] <= announced'[i]
      /\ UNCHANGED announced => \A i \in Update : announced[i] <= announced'[i]
  <2>1. \A i \in Update : announced[i] \in Nat /\ announced[i] <= announced[i]
    BY DEF TypeInv, TypeOK
  <2>2. ASSUME NEW items, Post(items), NEW i \in Update PROVE announced[i] <= announced'[i]
    <3>1. announced'[i] = announced[i] + (IF i \in items THEN 1 ELSE 0)
      BY <2>2 DEF Post
    <3> QED BY <2>1, <3>1
  <2> QED BY <2>1, <2>2
<1>1. ASSUME NEW c \in Cycle, CycleStep(c) PROVE Grows
  <2>1. /\ Ids(cyc[c].queue) \in SUBSET Update /\ cyc[c].dead \in SUBSET Update /\ InHand(c) \in SUBSET Update
        /\ "drop" \in Excuses /\ "leak" \in Excuses /\ "double" \in Excuses
        /\ \A q : Ids(cyc[c].queue) \ Ids(q) \in SUBSET Update
    BY HandsTyped DEF TypeInv, Excuses
  <2>2. DisableForChannelError(c) => Excusing
    BY DisableTyped
  <2>3. pc[c] \in {"upsert", "unclaim", "undo"} =>
            /\ {cyc[c].hand[1].id} \in SUBSET Update /\ {cyc[c].hand[1].id} \cap (seen' \ seen) \in SUBSET Update
            /\ (RollBack(cyc[c].hand[1].id) => Excusing)
    BY InTheHand, RolledBack
  <2>4. Ids(ChunkOf(c)) \in SUBSET Update
    BY Chunks, ItemsAre DEF TypeInv
  <2>5. ClaimGuard(c) => {Head(cyc[c].queue).id} \in SUBSET Update
    BY HandsTyped, HeadAndTail DEF ClaimGuard, TypeInv, Item
  <2>6. Excusing
    BY <1>1, <2>1, <2>2, <2>3, <2>4, <2>5 DEF CycleStep, Find, LoadFeed, ResolveChannel, GiveUp, Rebaseline,
        SetHashVersion,
       EndClaims, ClaimGuard, Upsert, Unclaim, Send, Undo, Disable, Persist, DeadLetter, Excusing, ghost
  <2>7. \A i \in Update : announced[i] <= announced'[i]
    BY <1>0, <1>1 DEF CycleStep, Find, LoadFeed, ResolveChannel, GiveUp, Rebaseline, SetHashVersion,
       EndClaims, ClaimGuard, Upsert, Unclaim, Send, Undo, Disable, Persist, DeadLetter, out
  <2>8. recorded \subseteq recorded' /\ baseline \subseteq baseline'
    BY <1>1 DEF CycleStep, Find, LoadFeed, ResolveChannel, GiveUp, Rebaseline, SetHashVersion,
       EndClaims, ClaimGuard, Upsert, Unclaim, Send, Undo, Disable, Persist, DeadLetter, out, ghost
  <2> QED BY <2>6, <2>7, <2>8 DEF Grows
<1>2. ASSUME (\E k \in Command : CommandStep(k)) \/ Stop \/ Publish PROVE Grows
  <2>1. Excusing
    BY <1>2, DropAll DEF CommandStep, Start, FetchBaseline, SeedBaseline, FinalizeActivation, RollbackActivation,
        Stop, Publish,
                   Excusing, ghost, TypeInv
  <2>2. UNCHANGED <<announced, recorded>> /\ baseline \subseteq baseline'
    BY <1>2 DEF CommandStep, Start, FetchBaseline, SeedBaseline, FinalizeActivation, RollbackActivation, Stop,
        Publish, out, ghost
  <2> QED BY <1>0, <2>1, <2>2 DEF Grows
<1>3. ASSUME Crash PROVE Grows
  BY <1>0, <1>3, DropAll DEF Crash, Grows, Excusing, out, TypeInv
<1>4. ASSUME UNCHANGED vars PROVE Grows
  BY <1>0, <1>4 DEF vars, out, ghost, Grows, Excusing
<1> QED BY <1>1, <1>2, <1>3, <1>4 DEF Next

(* What a step of the cycle under way must show. *)
LEMMA KeptMove ==
  ASSUME TypeInv, KeptInv, NEW c \in Cycle, UNCHANGED overlapped,
         \A e \in Cycle \ {c} : pc'[e] = pc[e],
         pc[c] # "idle" \/ AllIdle,
         ~overlapped => \A i \in returned' : KeptAt(c, i)'
  PROVE  KeptInv'
<1> SUFFICES ASSUME ~overlapped
             PROVE  /\ \A e, f \in Cycle : pc'[e] # "idle" /\ pc'[f] # "idle" => e = f
                    /\ AllIdle' => \A i \in returned' : Stored(i)' \/ i \in Ids(pending')
                    /\ \A e \in Cycle : Only(e)' => \A i \in returned' : KeptAt(e, i)'
  BY DEF KeptInv
<1>1. \A e \in Cycle \ {c} : pc'[e] = "idle"
  BY DEF KeptInv, AllIdle
<1>2. \A e, f \in Cycle : pc'[e] # "idle" /\ pc'[f] # "idle" => e = f
  BY <1>1
<1>3. AllIdle' => \A i \in returned' : Stored(i)' \/ i \in Ids(pending')
  BY DEF AllIdle, KeptAt
<1>4. ASSUME NEW e \in Cycle, Only(e)', NEW i \in returned' PROVE KeptAt(e, i)'
  <2>1. CASE e = c
    BY <2>1
  <2>2. CASE e # c
    <3>1. AllIdle' /\ pc'[e] = "idle"
      BY <1>1, <1>4, <2>2 DEF Only, AllIdle
    <3>2. Stored(i)' \/ i \in Ids(pending')
      BY <1>3, <3>1
    <3> QED BY <3>1, <3>2 DEF KeptAt, Working
  <2> QED BY <2>1, <2>2
<1> QED BY <1>2, <1>3, <1>4

(* A step of nobody that drops what is in flight, or leaves the queue alone. *)
LEMMA KeptStay ==
  ASSUME TypeInv, TypeInv', KeptInv, UNCHANGED <<pc, cyc, returned, overlapped>>, Grows,
         UNCHANGED pending \/ InFlight \subseteq excused'["drop"]
  PROVE  KeptInv'
<1> SUFFICES ASSUME ~overlapped
             PROVE  /\ \A e, f \in Cycle : pc'[e] # "idle" /\ pc'[f] # "idle" => e = f
                    /\ AllIdle' => \A i \in returned' : Stored(i)' \/ i \in Ids(pending')
                    /\ \A e \in Cycle : Only(e)' => \A i \in returned' : KeptAt(e, i)'
  BY DEF KeptInv
<1>1. \A i \in returned : i \in Update /\ (Stored(i) => Stored(i)')
  BY StoredGrows DEF TypeInv, TypeOK
<1>2. ASSUME NEW e \in Cycle
      PROVE  InHand(e)' = InHand(e) /\ cyc[e].dead \subseteq InHand(e) /\ Ids(cyc[e].queue) \subseteq InHand(e)
  <2>1. InHand(e) = Hands(cyc[e])
    BY HandsNext
  <2> QED BY <2>1 DEF Hands, InHand
<1>3. InFlight \subseteq excused'["drop"] =>
          \A i \in returned : i \in Ids(pending) \/ (\E e \in Cycle : i \in InHand(e)) => Stored(i)'
  BY DEF InFlight, Stored
<1>4. AllIdle' => \A i \in returned' : Stored(i)' \/ i \in Ids(pending')
  BY <1>1, <1>3 DEF KeptInv, AllIdle
<1>5. ASSUME NEW e \in Cycle, Only(e)', NEW i \in returned' PROVE KeptAt(e, i)'
  <2>1. KeptAt(e, i) /\ i \in returned
    BY <1>5 DEF KeptInv, Only
  <2>2. CASE UNCHANGED pending
    BY <1>1, <1>2, <2>1, <2>2 DEF KeptAt
  <2>3. CASE InFlight \subseteq excused'["drop"]
    BY <1>1, <1>2, <1>3, <2>1, <2>3 DEF KeptAt
  <2> QED BY <2>2, <2>3
<1> QED BY <1>4, <1>5 DEF KeptInv

LEMMA FindKept ==
  ASSUME CycleAssumption, TypeInv, TypeInv', KeptInv, Grows, NEW c \in Cycle, Find(c)
  PROVE  KeptInv'
<1>1. CASE overlapped'
  BY <1>1 DEF KeptInv
<1>2. CASE ~overlapped'
  <2>1. AllIdle /\ UNCHANGED overlapped /\ ~overlapped /\ UNCHANGED <<pending, returned>>
    BY <1>2 DEF Find, AllIdle, guild, TypeInv, TypeOK
  <2>2. pc'[c] = "feed" /\ cyc'[c].queue = pending /\ \A e \in Cycle \ {c} : pc'[e] = pc[e]
    BY DEF Find, Goto, TypeInv, TypeOK, NoData
  <2>3. ASSUME NEW i \in returned' PROVE KeptAt(c, i)'
    <3>1. i \in returned /\ i \in Update /\ (Stored(i) \/ i \in Ids(pending))
      BY <2>1, <2>3 DEF KeptInv, TypeInv, TypeOK
    <3>2. Stored(i)' \/ (i \in Ids(pending') /\ i \in Ids(cyc'[c].queue))
      BY <2>1, <2>2, <3>1, StoredGrows
    <3> QED BY <2>2, <3>2 DEF KeptAt, Working
  <2> QED BY <2>1, <2>2, <2>3, KeptMove
<1> QED BY <1>1, <1>2

(* What holds of the returned updates of a cycle that runs alone. *)
LEMMA OnlyOne ==
  ASSUME TypeInv, KeptInv, ~overlapped, NEW c \in Cycle, pc[c] # "idle"
  PROVE  /\ Only(c) /\ \A i \in returned : KeptAt(c, i) /\ i \in Update
BY DEF KeptInv, Only, TypeInv, TypeOK

LEMMA EarlyKept ==
  ASSUME CycleAssumption, TypeInv, TypeInv', KeptInv, Grows, NEW c \in Cycle,
         LoadFeed(c) \/ ResolveChannel(c) \/ GiveUp(c) \/ Rebaseline(c) \/ SetHashVersion(c)
  PROVE  KeptInv'
<1>1. /\ UNCHANGED <<pending, returned, overlapped>> /\ \A e \in Cycle \ {c} : pc'[e] = pc[e]
      /\ pc[c] \in {"feed", "channel", "giveUp", "seed", "version"}
  BY DEF LoadFeed, ResolveChannel, GiveUp, Rebaseline, SetHashVersion, Goto, End, guild, ghost, TypeInv, TypeOK
<1>2. ASSUME ~overlapped, NEW i \in returned' PROVE KeptAt(c, i)'
  <2>1. KeptAt(c, i) /\ i \in Update /\ (Stored(i) => Stored(i)')
    BY <1>1, <1>2, OnlyOne, StoredGrows
  <2>2. CASE pc'[c] \in {"idle", "giveUp", "seed", "version"}
    BY <1>1, <2>1, <2>2 DEF KeptAt, Working
  <2>3. CASE LoadFeed(c) /\ pc'[c] = "channel"
    <3>1. pc'[c] = "idle" \/ UNCHANGED cyc \/ \E f : cyc' = [cyc EXCEPT ![c].feed = f]
      BY <2>3 DEF LoadFeed, End, Goto, TypeInv, TypeOK
    <3>2. cyc[c] \in CycleData /\ cyc \in [Cycle -> CycleData] /\ pc[c] = "feed"
      BY <2>3 DEF LoadFeed, TypeInv, TypeOK
    <3>3. \A f : [cyc[c] EXCEPT !.feed = f].queue = cyc[c].queue
      BY <3>2 DEF CycleData
    <3>4. cyc'[c].queue = cyc[c].queue
      BY <2>3, <3>1, <3>2, <3>3
    <3> QED BY <1>1, <2>1, <2>3, <3>2, <3>4 DEF KeptAt, Working
  <2>4. CASE ResolveChannel(c) /\ pc'[c] = "claim"
    <3>1. PICK old \in 0 .. Len(cyc[c].queue) :
             LET q == WithFeed(Fresh(cyc[c].queue, old), cyc[c].feed) IN
             /\ cyc' = [cyc EXCEPT ![c].queue = q] /\ Excuse("drop", Ids(cyc[c].queue) \ Ids(q))
      BY <2>4 DEF ResolveChannel, End, Goto, TypeInv, TypeOK
    <3> DEFINE q == WithFeed(Fresh(cyc[c].queue, old), cyc[c].feed)
    <3>2. cyc'[c].queue = q /\ Excuse("drop", Ids(cyc[c].queue) \ Ids(q)) /\ pc[c] = "channel"
      BY <2>4, <3>1 DEF ResolveChannel, TypeInv, TypeOK, CycleData
    <3> HIDE DEF q
    <3>3. Ids(cyc[c].queue) \ Ids(q) \in SUBSET Update /\ "drop" \in Excuses
      BY HandsTyped DEF TypeInv, Excuses
    <3>4. Ids(cyc[c].queue) \subseteq Ids(q) \cup excused'["drop"]
      BY <3>2, <3>3, Excused DEF TypeInv
    <3>5. InHand(c)' = Hands(cyc'[c])
      BY HandsNext
    <3>6. Stored(i)' \/ i \in InHand(c)'
      BY <2>1, <3>2, <3>4, <3>5 DEF KeptAt, Stored, Hands
    <3> QED BY <2>4, <3>6 DEF KeptAt, Working
  <2>5. \/ pc'[c] \in {"idle", "giveUp", "seed", "version"} \/ (LoadFeed(c) /\ pc'[c] = "channel")
        \/ (ResolveChannel(c) /\ pc'[c] = "claim")
    BY DEF LoadFeed, ResolveChannel, GiveUp, Rebaseline, SetHashVersion, Goto, End, TypeInv, TypeOK
  <2> QED BY <2>2, <2>3, <2>4, <2>5
<1> QED BY <1>1, <1>2, KeptMove

(* A step of a cycle that has updates in its hands keeps what was returned. *)
LEMMA WorkKept ==
  ASSUME TypeInv, TypeInv', KeptInv, Grows, NEW c \in Cycle, pc[c] \in Working, pc'[c] \in Working,
         UNCHANGED overlapped,
         \A e \in Cycle \ {c} : pc'[e] = pc[e],
         ~overlapped => \A i \in returned' :
                            i \notin returned \/ i \in Hands(cyc[c]) => i \in Hands(cyc'[c]) \/ Stored(i)'
  PROVE  KeptInv'
<1>1. ASSUME ~overlapped, NEW i \in returned' PROVE KeptAt(c, i)'
  <2>1. pc[c] # "idle" /\ pc'[c] \notin {"feed", "channel", "idle", "giveUp", "seed", "version", "deadLetter"}
    BY DEF Working
  <2>2. InHand(c) = Hands(cyc[c]) /\ InHand(c)' = Hands(cyc'[c])
    BY HandsNext
  <2>3. i \in returned => i \in Update /\ (Stored(i) \/ i \in Hands(cyc[c])) /\ (Stored(i) => Stored(i)')
    BY <1>1, <2>1, <2>2, OnlyOne, StoredGrows DEF KeptAt
  <2>4. Stored(i)' \/ i \in Hands(cyc'[c])
    BY <1>1, <2>3
  <2> QED BY <2>1, <2>2, <2>4 DEF KeptAt
<1>2. pc[c] # "idle"
  BY DEF Working
<1> QED BY <1>1, <1>2, KeptMove

LEMMA LostIsStored ==
  ASSUME TypeInv, NEW why \in {"leak", "drop"}, NEW items \in SUBSET Update, Excuse(why, items)
  PROVE  \A i \in items : Stored(i)'
BY Excused DEF TypeInv, Stored, Excuses

LEMMA ClaimGuardKept ==
  ASSUME CycleAssumption, TypeInv, TypeInv', KeptInv, Grows, NEW c \in Cycle, EndClaims(c) \/ ClaimGuard(c)
  PROVE  KeptInv'
<1>1. /\ pc[c] \in Working /\ pc'[c] \in Working /\ UNCHANGED overlapped /\ \A e \in Cycle \ {c} : pc'[e] = pc[e]
  BY DEF EndClaims, ClaimGuard, Goto, ghost, Working, TypeInv, TypeOK
<1>2. CASE EndClaims(c)
  <2>1. UNCHANGED <<cyc, returned>>
    BY <1>2 DEF EndClaims, ghost
  <2> QED BY <1>1, <2>1, WorkKept
<1>3. CASE ClaimGuard(c)
  <2> DEFINE item == Head(cyc[c].queue)
             rest == [cyc[c] EXCEPT !.queue = Tail(@)]
             held == [rest EXCEPT !.hand = <<item>>]
             back == GivenBack(rest, <<item>>)
  <2>1. /\ cyc[c] \in CycleData /\ ShapeOf("claim", cyc[c], excused["drop"]) /\ cyc[c].queue \in Seq(Item)
        /\ cyc[c].queue # <<>>
    BY <1>3, HandsTyped DEF ClaimGuard, TypeInv, ShapeInv
  <2>2. /\ item \in Item /\ item.id \in Update /\ Tail(cyc[c].queue) \in Seq(Item)
        /\ Ids(cyc[c].queue) = {item.id} \cup Ids(Tail(cyc[c].queue))
        /\ <<item>> \in Seq(Item) /\ Ids(<<item>>) = {item.id}
    BY <2>1, HeadAndTail, OneId DEF Item
  <2>3. cyc[c].hand = <<>> /\ cyc[c].failed = <<>>
    BY <2>1 DEF ShapeOf
  <2>4. /\ rest \in CycleData /\ rest.queue = Tail(cyc[c].queue) /\ rest.batch = cyc[c].batch /\ rest.hand = <<>>
        /\ rest.failed = <<>> /\ rest.dead = cyc[c].dead
    BY <2>1, <2>2, <2>3 DEF CycleData
  <2>5. /\ Hands(cyc[c]) = Hands(rest) \cup {item.id}
        /\ Hands(rest) = Ids(rest.queue) \cup Ids(rest.batch) \cup rest.dead
    BY <2>2, <2>3, <2>4, EmptyIds DEF Hands
  <2>6. Hands(held) = Hands(rest) \cup {item.id}
    <3>1. /\ held.queue = rest.queue /\ held.batch = rest.batch /\ held.hand = <<item>>
          /\ held.failed = rest.failed /\ held.dead = rest.dead
      BY <2>4 DEF CycleData
    <3> QED BY <2>2, <2>4, <3>1, EmptyIds DEF Hands
  <2>7. Hands(rest) \cup {item.id} \subseteq Hands(back)
    <3> HIDE DEF item, rest
    <3>1. /\ back.batch = rest.batch
          /\ Ids(back.queue) \cup back.dead = Ids(rest.queue) \cup rest.dead \cup Ids(<<item>>)
      BY <2>2, <2>4, GivenBackKeeps
    <3> QED BY <2>2, <2>5, <3>1 DEF Hands
  <2>8. \/ cyc'[c] = held /\ UNCHANGED <<returned, excused>>
        \/ cyc'[c] = rest /\ Excuse("drop", {item.id}) /\ UNCHANGED returned
        \/ cyc'[c] = back /\ returned' = returned \cup Ids(<<item>>)
    BY <1>3 DEF ClaimGuard, GiveBack, TypeInv, TypeOK
  <2>9. cyc'[c] = rest /\ Excuse("drop", {item.id}) => \A i \in {item.id} : Stored(i)'
    BY <2>2, LostIsStored
  <2> HIDE DEF item, rest, held, back
  <2>10. ASSUME NEW i \in returned', i \notin returned \/ i \in Hands(cyc[c]) PROVE i \in Hands(cyc'[c]) \/ Stored(i)'
    <3>1. CASE cyc'[c] = held /\ UNCHANGED returned
      BY <2>5, <2>6, <2>10, <3>1
    <3>2. CASE cyc'[c] = rest /\ Excuse("drop", {item.id}) /\ UNCHANGED returned
      BY <2>5, <2>9, <2>10, <3>2
    <3>3. CASE cyc'[c] = back /\ returned' = returned \cup Ids(<<item>>)
      BY <2>2, <2>5, <2>7, <2>10, <3>3
    <3> QED BY <2>8, <3>1, <3>2, <3>3
  <2> QED BY <1>1, <2>10, WorkKept
<1> QED BY <1>2, <1>3

LEMMA UpsertKept ==
  ASSUME CycleAssumption, TypeInv, TypeInv', ClaimInv, KeptInv, Grows, NEW c \in Cycle, Upsert(c)
  PROVE  KeptInv'
<1> DEFINE item == cyc[c].hand[1]
           taken == [cyc[c] EXCEPT !.batch = Append(@, item), !.hand = <<>>]
           left == [cyc[c] EXCEPT !.hand = <<>>]
           back == GivenBack(cyc[c], <<item>>)
<1>1. /\ pc[c] = "upsert" /\ pc[c] \in Working /\ pc'[c] \in Working /\ UNCHANGED overlapped
      /\ \A e \in Cycle \ {c} : pc'[e] = pc[e]
  BY DEF Upsert, Goto, Working, TypeInv, TypeOK
<1>2. /\ cyc[c] \in CycleData /\ cyc[c].batch \in Seq(Item) /\ item \in Item /\ item.id \in Update
      /\ <<item>> \in Seq(Item) /\ Ids(<<item>>) = {item.id} /\ Ids(cyc[c].hand) = {item.id} /\ cyc[c].failed = <<>>
  BY <1>1, InTheHand, HandsTyped DEF TypeInv
<1>3. Hands(cyc[c]) \subseteq Hands(taken)
  <2>1. /\ taken.queue = cyc[c].queue /\ taken.batch = Append(cyc[c].batch, item) /\ taken.failed = cyc[c].failed
        /\ taken.dead = cyc[c].dead
    BY <1>2 DEF CycleData
  <2>2. Ids(Append(cyc[c].batch, item)) = Ids(cyc[c].batch) \cup {item.id}
    BY <1>2, AppendedIds
  <2> QED BY <1>2, <2>1, <2>2 DEF Hands
<1>4. Hands(cyc[c]) \subseteq Hands(left) \cup {item.id} /\ Ids(cyc[c].batch) \subseteq Hands(left)
  <2>1. /\ left.queue = cyc[c].queue /\ left.batch = cyc[c].batch /\ left.failed = cyc[c].failed
        /\ left.dead = cyc[c].dead
    BY <1>2 DEF CycleData
  <2> QED BY <1>2, <2>1 DEF Hands
<1>5. Hands(cyc[c]) \subseteq Hands(back) /\ item.id \in Hands(back)
  <2> HIDE DEF item
  <2>1. /\ back.batch = cyc[c].batch
        /\ Ids(back.queue) \cup back.dead = Ids(cyc[c].queue) \cup cyc[c].dead \cup Ids(<<item>>)
    BY <1>2, GivenBackKeeps
  <2> QED BY <1>2, <2>1, EmptyIds DEF Hands
<1>6. \/ cyc'[c] = taken /\ UNCHANGED returned
      \/ cyc'[c] = cyc[c] /\ UNCHANGED returned
      \/ item.id \in seen /\ cyc'[c] = left /\ UNCHANGED returned
      \/ Excuse("leak", {item.id}) /\ cyc'[c] = left /\ UNCHANGED returned
      \/ cyc'[c] = back /\ returned' = returned \cup Ids(<<item>>)
  BY DEF Upsert, GiveBack, TypeInv, TypeOK
<1>7. Excuse("leak", {item.id}) => \A i \in {item.id} : Stored(i)'
  BY <1>2, LostIsStored
<1>8. ASSUME ~overlapped, item.id \in seen PROVE \A i \in {item.id} : Stored(i)' \/ i \in Ids(cyc[c].batch)
  <2>1. Only(c)
    BY <1>1, <1>8, OnlyOne
  <2>2. \A e \in Cycle \ {c} : Claims(e) = {}
    BY <2>1, NoClaims DEF Only
  <2>3. Claims(c) = Ids(cyc[c].batch)
    BY <1>1 DEF Claims, ClaimsOf
  <2>4. Stored(item.id) \/ item.id \in Ids(cyc[c].batch)
    BY <1>8, <2>2, <2>3 DEF ClaimInv, AccountInv, Stored
  <2> QED BY <1>2, <2>4, StoredGrows
<1> HIDE DEF item, taken, left, back
<1>9. ASSUME ~overlapped, NEW i \in returned', i \notin returned \/ i \in Hands(cyc[c])
      PROVE  i \in Hands(cyc'[c]) \/ Stored(i)'
  <2>1. CASE cyc'[c] = taken /\ UNCHANGED returned
    BY <1>3, <1>9, <2>1
  <2>2. CASE cyc'[c] = cyc[c] /\ UNCHANGED returned
    BY <1>9, <2>2
  <2>3. CASE item.id \in seen /\ cyc'[c] = left /\ UNCHANGED returned
    BY <1>4, <1>8, <1>9, <2>3
  <2>4. CASE Excuse("leak", {item.id}) /\ cyc'[c] = left /\ UNCHANGED returned
    BY <1>4, <1>7, <1>9, <2>4
  <2>5. CASE cyc'[c] = back /\ returned' = returned \cup Ids(<<item>>)
    BY <1>2, <1>5, <1>9, <2>5
  <2> QED BY <1>6, <2>1, <2>2, <2>3, <2>4, <2>5
<1> QED BY <1>1, <1>9, WorkKept

LEMMA GivenBackHolds ==
  ASSUME CycleAssumption, TypeInv, NEW c \in Cycle, NEW items \in Seq(Item),
         Ids(cyc[c].hand) \cup Ids(cyc[c].failed) \subseteq Ids(items)
  PROVE  Hands(cyc[c]) \cup Ids(items) \subseteq Hands(GivenBack(cyc[c], items))
<1> DEFINE back == GivenBack(cyc[c], items)
<1>1. cyc[c] \in CycleData
  BY DEF TypeInv, TypeOK
<1>2. back.batch = cyc[c].batch /\ Ids(back.queue) \cup back.dead = Ids(cyc[c].queue) \cup cyc[c].dead \cup Ids(items)
  BY <1>1, GivenBackKeeps
<1> QED BY <1>2 DEF Hands

LEMMA UnclaimKept ==
  ASSUME CycleAssumption, TypeInv, TypeInv', KeptInv, Grows, NEW c \in Cycle, Unclaim(c)
  PROVE  KeptInv'
<1> DEFINE item == cyc[c].hand[1]
           back == GivenBack(cyc[c], <<item>>)
<1>1. /\ pc[c] = "unclaim" /\ pc[c] \in Working /\ pc'[c] \in Working /\ UNCHANGED overlapped
      /\ \A e \in Cycle \ {c} : pc'[e] = pc[e]
  BY DEF Unclaim, Goto, Working, TypeInv, TypeOK
<1>2. Hands(cyc[c]) \cup Ids(<<item>>) \subseteq Hands(back)
  <2>1. <<item>> \in Seq(Item) /\ Ids(cyc[c].hand) = Ids(<<item>>) /\ cyc[c].failed = <<>>
    BY <1>1, InTheHand
  <2> QED BY <2>1, EmptyIds, GivenBackHolds
<1>3. \/ cyc'[c] = back /\ returned' = returned \cup Ids(<<item>>)
      \/ cyc'[c] = cyc[c] /\ UNCHANGED returned
  BY DEF Unclaim, GiveBack, TypeInv, TypeOK
<1> HIDE DEF item, back
<1>4. ASSUME NEW i \in returned', i \notin returned \/ i \in Hands(cyc[c]) PROVE i \in Hands(cyc'[c]) \/ Stored(i)'
  BY <1>2, <1>3, <1>4
<1> QED BY <1>1, <1>4, WorkKept

LEMMA SendKept ==
  ASSUME CycleAssumption, TypeInv, TypeInv', KeptInv, Grows, NEW c \in Cycle, Send(c)
  PROVE  KeptInv'
<1>1. /\ pc[c] = "send" /\ pc[c] \in Working /\ pc'[c] \in Working /\ UNCHANGED <<overlapped, returned>>
      /\ \A e \in Cycle \ {c} : pc'[e] = pc[e]
  BY DEF Send, SendFails, Goto, Working, TypeInv, TypeOK
<1>2. /\ cyc[c] \in CycleData /\ cyc[c].hand = <<>> /\ cyc[c].failed = <<>>
      /\ Ids(cyc[c].batch) = Ids(ChunkOf(c)) \cup Ids(AfterChunk(c)) /\ Ids(ChunkOf(c)) \subseteq Update
  BY <1>1, Chunks, ItemsAre DEF TypeInv, TypeOK, ShapeInv, ShapeOf
<1>3. ASSUME Post(Ids(ChunkOf(c))), cyc' = [cyc EXCEPT ![c].batch = AfterChunk(c)], NEW i \in Hands(cyc[c])
      PROVE  i \in Hands(cyc'[c]) \/ Stored(i)'
  <2>1. /\ cyc'[c].queue = cyc[c].queue /\ cyc'[c].batch = AfterChunk(c) /\ cyc'[c].hand = cyc[c].hand
        /\ cyc'[c].failed = cyc[c].failed /\ cyc'[c].dead = cyc[c].dead
    BY <1>2, <1>3 DEF TypeInv, TypeOK, CycleData
  <2>2. i \in Ids(ChunkOf(c)) => announced'[i] > 0
    BY <1>2, <1>3 DEF Post, TypeInv, TypeOK
  <2> QED BY <1>2, <1>3, <2>1, <2>2 DEF Hands, Stored
<1>4. ASSUME NEW permanent \in BOOLEAN, SendFails(c, permanent), NEW i \in Hands(cyc[c]) PROVE i \in Hands(cyc'[c])
  <2>1. /\ cyc'[c].queue = cyc[c].queue /\ cyc'[c].hand = cyc[c].batch /\ cyc'[c].dead = cyc[c].dead
    BY <1>2, <1>4 DEF SendFails, TypeInv, TypeOK, CycleData
  <2> QED BY <1>2, <1>4, <2>1, EmptyIds DEF Hands
<1>5. ASSUME NEW i \in Hands(cyc[c]) PROVE i \in Hands(cyc'[c]) \/ Stored(i)'
  BY <1>3, <1>4, <1>5 DEF Send
<1> QED BY <1>1, <1>5, WorkKept

LEMMA UndoKept ==
  ASSUME CycleAssumption, TypeInv, TypeInv', KeptInv, Grows, NEW c \in Cycle, Undo(c)
  PROVE  KeptInv'
<1> DEFINE back == GivenBack(cyc[c], cyc[c].failed)
<1>1. /\ pc[c] = "undo" /\ pc[c] \in Working /\ pc'[c] \in Working /\ UNCHANGED overlapped
      /\ \A e \in Cycle \ {c} : pc'[e] = pc[e]
  BY DEF Undo, Goto, Working, TypeInv, TypeOK
<1>2. cyc[c] \in CycleData /\ Ids(cyc[c].hand) \subseteq Ids(cyc[c].failed) /\ cyc[c].failed \in Seq(Item)
  BY <1>1, HandsTyped DEF TypeInv, ShapeInv, ShapeOf
<1>3. Hands(cyc[c]) \cup Ids(cyc[c].failed) \subseteq Hands(back)
  BY <1>2, GivenBackHolds
<1>4. ASSUME NEW h, cyc' = [cyc EXCEPT ![c].hand = h] PROVE Hands(cyc[c]) \subseteq Hands(cyc'[c])
  <2>1. /\ cyc'[c].queue = cyc[c].queue /\ cyc'[c].batch = cyc[c].batch /\ cyc'[c].failed = cyc[c].failed
        /\ cyc'[c].dead = cyc[c].dead
    BY <1>2, <1>4 DEF TypeInv, TypeOK, CycleData
  <2> QED BY <1>2, <2>1 DEF Hands
<1>5. \/ cyc'[c] = back /\ returned' = returned \cup Ids(cyc[c].failed)
      \/ Hands(cyc[c]) \subseteq Hands(cyc'[c]) /\ UNCHANGED returned
  <2>1. cyc' = [cyc EXCEPT ![c] = back] => cyc'[c] = back
    BY DEF TypeInv, TypeOK
  <2> HIDE DEF back
  <2>2. back = GivenBack(cyc[c], cyc[c].failed)
    BY DEF back
  <2> QED BY <1>4, <2>1, <2>2 DEF Undo, GiveBack
<1> HIDE DEF back
<1>6. ASSUME NEW i \in returned', i \notin returned \/ i \in Hands(cyc[c]) PROVE i \in Hands(cyc'[c]) \/ Stored(i)'
  BY <1>3, <1>5, <1>6
<1> QED BY <1>1, <1>6, WorkKept

LEMMA DisableKept ==
  ASSUME CycleAssumption, TypeInv, TypeInv', KeptInv, Grows, NEW c \in Cycle, Disable(c)
  PROVE  KeptInv'
<1>1. /\ pc[c] \in Working /\ pc'[c] \in Working /\ UNCHANGED <<overlapped, returned, cyc>>
      /\ \A e \in Cycle \ {c} : pc'[e] = pc[e]
  BY DEF Disable, Goto, Working, TypeInv, TypeOK
<1> QED BY <1>1, WorkKept

LEMMA PersistKept ==
  ASSUME CycleAssumption, TypeInv, TypeInv', KeptInv, Grows, NEW c \in Cycle, Persist(c)
  PROVE  KeptInv'
<1>1. /\ pc[c] = "persist" /\ pc[c] \in Working /\ pc'[c] \in {"idle", "deadLetter"}
      /\ UNCHANGED <<overlapped, returned>>
      /\ \A e \in Cycle \ {c} : pc'[e] = pc[e]
  BY DEF Persist, End, Goto, Working, TypeInv, TypeOK
<1>2. /\ cyc[c].hand = <<>> /\ cyc[c].batch = <<>> /\ Ids(cyc[c].failed) \subseteq excused["drop"]
      /\ InHand(c) = Hands(cyc[c]) /\ InHand(c) \in SUBSET Update
  BY <1>1, HandsNext, HandsTyped DEF TypeInv, ShapeInv, ShapeOf
<1>3. ASSUME ~overlapped, NEW i \in returned' PROVE KeptAt(c, i)'
  <2>1. /\ i \in Update /\ (Stored(i) => Stored(i)')
        /\ Stored(i) \/ i \in Ids(cyc[c].queue) \cup cyc[c].dead
    <3>1. KeptAt(c, i) /\ i \in Update
      BY <1>1, <1>3, OnlyOne
    <3> QED BY <1>1, <1>2, <3>1, EmptyIds, StoredGrows DEF KeptAt, Hands, Stored
  <2>2. CASE pending' = cyc[c].queue /\ cyc[c].dead = {}
    BY <1>1, <2>1, <2>2 DEF KeptAt, Working
  <2>3. CASE pending' = cyc[c].queue /\ UNCHANGED cyc /\ pc'[c] = "deadLetter"
    BY <2>1, <2>3 DEF KeptAt, Working
  <2>4. CASE Excuse("drop", InHand(c)) /\ End(c)
    <3>1. \A j \in InHand(c) : Stored(j)'
      BY <1>2, <2>4, LostIsStored
    <3>2. Stored(i)'
      BY <1>2, <2>1, <3>1 DEF Hands
    <3> QED BY <1>1, <3>2 DEF KeptAt, Working
  <2> QED BY <2>2, <2>3, <2>4 DEF Persist, Goto, TypeInv, TypeOK
<1>4. pc[c] # "idle"
  BY <1>1
<1> QED BY <1>1, <1>3, <1>4, KeptMove

LEMMA DeadLetterKept ==
  ASSUME CycleAssumption, TypeInv, TypeInv', KeptInv, Grows, NEW c \in Cycle, DeadLetter(c)
  PROVE  KeptInv'
<1>1. /\ pc[c] = "deadLetter" /\ pc'[c] = "idle" /\ UNCHANGED <<overlapped, returned, pending>>
      /\ \A e \in Cycle \ {c} : pc'[e] = pc[e]
  BY DEF DeadLetter, End, Goto, guild, TypeInv, TypeOK
<1>2. \A j \in cyc[c].dead : Stored(j)'
  <2>1. cyc[c].dead \in SUBSET Update
    BY HandsTyped DEF TypeInv
  <2>2. Excuse("drop", cyc[c].dead) => \A j \in cyc[c].dead : Stored(j)'
    BY <2>1, LostIsStored
  <2> QED BY <2>2 DEF DeadLetter, Stored
<1>3. ASSUME ~overlapped, NEW i \in returned' PROVE KeptAt(c, i)'
  <2>1. KeptAt(c, i) /\ i \in Update /\ (Stored(i) => Stored(i)')
    BY <1>1, <1>3, OnlyOne, StoredGrows
  <2> QED BY <1>1, <1>2, <2>1 DEF KeptAt, Working
<1> QED BY <1>1, <1>3, KeptMove

LEMMA CrashKept ==
  ASSUME CycleAssumption, TypeInv, TypeInv', KeptInv, Grows, Crash
  PROVE  KeptInv'
<1>1. ASSUME NEW c \in Cycle, pc[c] # "idle", End(c), Excuse("leak", InHand(c)) PROVE KeptInv'
  <2>1. /\ pc'[c] = "idle" /\ UNCHANGED <<overlapped, returned, pending>> /\ \A e \in Cycle \ {c} : pc'[e] = pc[e]
        /\ pc[c] \in Places
    BY <1>1 DEF Crash, End, Goto, guild, TypeInv, TypeOK
  <2>2. InHand(c) \in SUBSET Update /\ InHand(c) = Hands(cyc[c])
    BY HandsTyped, HandsNext DEF TypeInv
  <2>3. \A j \in InHand(c) : Stored(j)'
    BY <1>1, <2>2, LostIsStored
  <2>4. ASSUME ~overlapped, NEW i \in returned' PROVE KeptAt(c, i)'
    <3>1. KeptAt(c, i) /\ i \in Update /\ (Stored(i) => Stored(i)')
      BY <1>1, <2>1, <2>4, OnlyOne, StoredGrows
    <3>2. Stored(i) \/ i \in Ids(pending) \/ i \in InHand(c)
      BY <2>1, <2>2, <3>1 DEF KeptAt, Working, Places, Hands
    <3> QED BY <2>1, <2>3, <3>1, <3>2 DEF KeptAt, Working
  <2> QED BY <1>1, <2>1, <2>4, KeptMove
<1>2. CASE UNCHANGED <<pc, cyc, excused>>
  BY <1>2, KeptStay DEF Crash, guild
<1> QED BY <1>1, <1>2 DEF Crash

LEMMA OthersKept ==
  ASSUME CycleAssumption, TypeInv, TypeInv', KeptInv, Grows, (\E k \in Command : CommandStep(k)) \/ Stop \/ Publish
  PROVE  KeptInv'
<1>1. Excuse("drop", InFlight) => InFlight \subseteq excused'["drop"]
  BY DropAll, Excused DEF TypeInv
<1>2. /\ UNCHANGED <<pc, cyc, returned, overlapped>>
      /\ UNCHANGED pending \/ Excuse("drop", InFlight)
  BY DEF CommandStep, Start, FetchBaseline, SeedBaseline, FinalizeActivation, RollbackActivation, Stop, Publish,
      guild, ghost
<1> QED BY <1>1, <1>2, KeptStay

LEMMA KeptInit == ASSUME Init PROVE KeptInv
BY DEF Init, KeptInv, KeptAt

LEMMA KeptNext ==
  ASSUME CycleAssumption, TypeInv, TypeInv', ClaimInv, KeptInv, [Next]_vars
  PROVE  KeptInv'
<1>1. Grows
  BY StepsGrow
<1>2. ASSUME NEW c \in Cycle, CycleStep(c) PROVE KeptInv'
  BY <1>1, <1>2, FindKept, EarlyKept, ClaimGuardKept, UpsertKept, UnclaimKept, SendKept, UndoKept, DisableKept,
     PersistKept, DeadLetterKept DEF CycleStep
<1>3. CASE UNCHANGED vars
  BY <1>1, <1>3, KeptStay DEF vars, guild, ghost
<1> QED BY <1>1, <1>2, <1>3, CrashKept, OthersKept DEF Next

(* An update whose claim or send failed is announced, queued, recorded as a *)
(* dead letter, in the hands of a cycle or excused, whatever fails next,   *)
(* as long as no two cycles overlapped.                                    *)
THEOREM NoFailureIsForgotten == ASSUME CycleAssumption PROVE Spec => []FailuresKept
<1> DEFINE I == TypeInv /\ ClaimInv /\ KeptInv
<1>1. Init => I
  BY TypeInit, ClaimInit, KeptInit
<1>2. I /\ [Next]_vars => I'
  BY TypeNext, ClaimNext, KeptNext
<1>3. I => FailuresKept
  <2> SUFFICES ASSUME TypeInv, KeptInv, ~overlapped, NEW i \in returned
               PROVE  Stored(i) \/ i \in Ids(pending) \/ \E c \in Cycle : i \in InHand(c)
    BY DEF FailuresKept, Stored
  <2>1. CASE AllIdle
    BY <2>1 DEF KeptInv
  <2>2. ASSUME NEW c \in Cycle, pc[c] # "idle" PROVE Stored(i) \/ i \in Ids(pending) \/ i \in InHand(c)
    <3>1. KeptAt(c, i) /\ pc[c] \in Places
      BY <2>2, OnlyOne DEF TypeInv, TypeOK
    <3>2. cyc[c].dead \subseteq InHand(c)
      BY DEF InHand
    <3> QED BY <3>1, <3>2 DEF KeptAt, Working, Places
  <2> QED BY <2>1, <2>2 DEF AllIdle
<1> QED BY <1>1, <1>2, <1>3, PTL DEF Spec
===============================================================================
