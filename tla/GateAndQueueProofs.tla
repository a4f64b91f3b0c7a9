------------------------- MODULE GateAndQueueProofs -------------------------
(***************************************************************************)
(* Proofs about the two components that decide when work may run.          *)
(*                                                                         *)
(* About ApiGate, for any clients, limits, costs and configurations: the   *)
(* buckets keep their type and their number, and, when a bucket fills up   *)
(* within the idle timeout, none grants more than the rate in any stretch  *)
(* of time.                                                                *)
(*                                                                         *)
(* About TaskQueue, for any tasks, priorities, retries, number of slots    *)
(* and calls of stop, clear and cleanup: a task is in one place, its       *)
(* caller hears of its end once, and the slots are the unsettled races.    *)
(***************************************************************************)
EXTENDS ApiGate, TaskQueue, FiniteSetTheorems, SequenceTheorems, WellFoundedInduction, TLAPS

-----------------------------------------------------------------------------
(* The refill as a function of its arguments                               *)

RefillAt(x, t, p, cap) ==
  LET n == (t - x.last) \div p
  IN [tokens |-> IF n > 0 THEN Lesser(x.tokens + n, cap) ELSE x.tokens,
      last |-> x.last + n * p,
      seen |-> t]

\* A bucket as it may be at t.
GoodAt(x, t, cap) ==
  /\ x \in Bucket
  /\ x.tokens \in 0..cap /\ x.last <= x.seen /\ x.seen <= t

\* What an up-to-date bucket still grants and what it granted since w.
Owes(x, s, w, p, cap) == p * s + p * x.tokens <= p * cap + (p - 1) + (x.last - w)

(* What was granted, s, leaves room for what the bucket holds once it is   *)
(* refilled; a forgotten bucket, which starts again in full, must have     *)
(* granted no more than the passing time has brought.                      *)
Grants(x, s, t, w, p, cap) ==
  IF x = None THEN p * s <= (p - 1) + (t - w) ELSE Owes(RefillAt(x, t, p, cap), s, w, p, cap)

(* Division, the only fact about \div that is needed.                      *)
LEMMA Division ==
  ASSUME NEW a \in Nat, NEW p \in Nat \ {0}
  PROVE  /\ a \div p \in Nat
         /\ (a \div p) * p <= a
         /\ a < (a \div p) * p + p
OBVIOUS

(* Monotony of a product, for Z3 does not see it in larger formulas.       *)
LEMMA Product ==
  ASSUME NEW a \in Int, NEW b \in Int, NEW p \in Nat \ {0}, a <= b
  PROVE  a * p <= b * p
OBVIOUS

(* A quotient is at least k when the dividend is at least k times p.       *)
LEMMA QuotientAtLeast ==
  ASSUME NEW a \in Nat, NEW p \in Nat \ {0}, NEW k \in Int, k * p <= a
  PROVE  a \div p >= k
<1> DEFINE q == a \div p
<1>1. q \in Nat /\ a < q * p + p
  BY Division
<1> HIDE DEF q
<1>2. SUFFICES ASSUME q + 1 <= k PROVE FALSE
  BY <1>1 DEF q
<1>3. (q + 1) * p <= k * p
  BY <1>1, <1>2, Product
<1>4. (q + 1) * p = q * p + p
  BY <1>1
<1> QED
  BY <1>1, <1>3, <1>4

(* A refilled bucket is a good one whose last refill is less than a period *)
(* ago.                                                                    *)
LEMMA RefillGood ==
  ASSUME NEW t \in Nat, NEW p \in Nat \ {0}, NEW cap \in Nat, NEW x, GoodAt(x, t, cap)
  PROVE  LET e == RefillAt(x, t, p, cap)
         IN /\ GoodAt(e, t, cap)
            /\ e.seen = t /\ t - e.last \in Nat /\ t - e.last < p
<1> DEFINE n == (t - x.last) \div p
<1>1. x.tokens \in 0..cap /\ x.last \in Int /\ t - x.last \in Nat
  BY DEF GoodAt, Bucket
<1>2. n \in Nat /\ n * p <= t - x.last /\ t - x.last < n * p + p
  BY <1>1, Division
<1> HIDE DEF n
<1>3. RefillAt(x, t, p, cap) =
        [tokens |-> IF n > 0 THEN Lesser(x.tokens + n, cap) ELSE x.tokens,
         last |-> x.last + n * p, seen |-> t]
  BY DEF RefillAt, n
<1>4. n * p \in Nat
  BY <1>2
<1>5. (IF n > 0 THEN Lesser(x.tokens + n, cap) ELSE x.tokens) \in 0..cap
  BY <1>1, <1>2 DEF Lesser
<1> QED
  BY <1>1, <1>2, <1>3, <1>4, <1>5 DEF GoodAt, Bucket

(* Within a period another refill adds nothing.                            *)
LEMMA RefillTwice ==
  ASSUME NEW t \in Nat, NEW p \in Nat \ {0}, NEW cap \in Nat, NEW x \in Bucket,
         t - x.last \in Nat, t - x.last < p
  PROVE  /\ RefillAt(x, t, p, cap).tokens = x.tokens
         /\ RefillAt(x, t, p, cap).last = x.last
<1> DEFINE n == (t - x.last) \div p
<1>1. n \in Nat /\ n * p <= t - x.last
  BY Division
<1> HIDE DEF n
<1>2. n = 0
  <2>1. SUFFICES ASSUME 1 <= n PROVE FALSE
    BY <1>1
  <2>2. 1 * p <= n * p
    BY <1>1, <2>1, Product
  <2> QED
    BY <1>1, <2>2
<1>3. RefillAt(x, t, p, cap) =
        [tokens |-> IF n > 0 THEN Lesser(x.tokens + n, cap) ELSE x.tokens,
         last |-> x.last + n * p, seen |-> t]
  BY DEF RefillAt, n
<1> QED
  BY <1>2, <1>3 DEF Bucket

(* Time that passes brings at most the token of a period.                  *)
LEMMA RefillLater ==
  ASSUME NEW t \in Nat, NEW p \in Nat \ {0}, NEW cap \in Nat, NEW x, GoodAt(x, t, cap)
  PROVE  LET e == RefillAt(x, t, p, cap)
             f == RefillAt(x, t + 1, p, cap)
         IN \/ f.tokens = e.tokens /\ f.last = e.last
            \/ f.tokens <= e.tokens + 1 /\ f.last = e.last + p
<1> DEFINE n == (t - x.last) \div p
           m == ((t + 1) - x.last) \div p
<1>1. x.tokens \in 0..cap /\ x.last \in Int /\ t - x.last \in Nat /\ (t + 1) - x.last \in Nat
  BY DEF GoodAt, Bucket
<1>2. n \in Nat /\ n * p <= t - x.last /\ t - x.last < n * p + p
  BY <1>1, Division
<1>3. m \in Nat /\ m * p <= (t + 1) - x.last /\ (t + 1) - x.last < m * p + p
  BY <1>1, Division
<1> HIDE DEF n, m
<1>4. n * p \in Nat /\ m * p \in Nat
  BY <1>2, <1>3
<1>5. m = n \/ m = n + 1
  <2>1. ~(m + 1 <= n)
    <3>1. SUFFICES ASSUME m + 1 <= n PROVE FALSE
      OBVIOUS
    <3>2. (m + 1) * p <= n * p
      BY <1>2, <1>3, <3>1, Product
    <3>3. (m + 1) * p = m * p + p
      BY <1>3
    <3> QED
      BY <1>1, <1>2, <1>3, <1>4, <3>2, <3>3
  <2>2. ~(n + 2 <= m)
    <3>1. SUFFICES ASSUME n + 2 <= m PROVE FALSE
      OBVIOUS
    <3>2. (n + 2) * p <= m * p
      BY <1>2, <1>3, <3>1, Product
    <3>3. (n + 2) * p = n * p + p + p
      BY <1>2
    <3> QED
      BY <1>1, <1>2, <1>3, <1>4, <3>2, <3>3
  <2> QED
    BY <1>2, <1>3, <2>1, <2>2
<1>6. RefillAt(x, t, p, cap) =
        [tokens |-> IF n > 0 THEN Lesser(x.tokens + n, cap) ELSE x.tokens,
         last |-> x.last + n * p, seen |-> t]
  BY DEF RefillAt, n
<1>7. RefillAt(x, t + 1, p, cap) =
        [tokens |-> IF m > 0 THEN Lesser(x.tokens + m, cap) ELSE x.tokens,
         last |-> x.last + m * p, seen |-> t + 1]
  BY DEF RefillAt, m
<1>8. CASE m = n
  BY <1>6, <1>7, <1>8
<1>9. CASE m = n + 1
  <2>1. m * p = n * p + p
    BY <1>2, <1>9
  <2> QED
    BY <1>1, <1>2, <1>4, <1>6, <1>7, <1>9, <2>1 DEF Lesser
<1> QED
  BY <1>5, <1>8, <1>9

(* A bucket that was left alone long enough is full.                       *)
LEMMA RefillFull ==
  ASSUME NEW t \in Nat, NEW p \in Nat \ {0}, NEW cap \in Nat \ {0}, NEW x, GoodAt(x, t, cap),
         cap * p <= t - x.last
  PROVE  RefillAt(x, t, p, cap).tokens = cap
<1> DEFINE n == (t - x.last) \div p
<1>1. x.tokens \in 0..cap /\ x.last \in Int /\ t - x.last \in Nat
  BY DEF GoodAt, Bucket
<1>2. n \in Nat
  BY <1>1, Division
<1>3. n >= cap
  BY <1>1, QuotientAtLeast
<1> HIDE DEF n
<1>4. RefillAt(x, t, p, cap).tokens = IF n > 0 THEN Lesser(x.tokens + n, cap) ELSE x.tokens
  BY DEF RefillAt, n
<1> QED
  BY <1>1, <1>2, <1>3, <1>4 DEF Lesser

-----------------------------------------------------------------------------
(* What is granted, as time passes and buckets are used                    *)

(* Time only adds room.                                                    *)
LEMMA GrantsLater ==
  ASSUME NEW t \in Nat, NEW w \in Nat, NEW s \in Nat, NEW p \in Nat \ {0}, NEW cap \in Nat,
         NEW x, x = None \/ GoodAt(x, t, cap), Grants(x, s, t, w, p, cap)
  PROVE  Grants(x, s, t + 1, w, p, cap)
<1>1. p * s \in Nat
  OBVIOUS
<1>2. CASE x = None
  BY <1>1, <1>2 DEF Grants
<1>3. CASE x # None
  <2> DEFINE e == RefillAt(x, t, p, cap)
             f == RefillAt(x, t + 1, p, cap)
  <2>1. GoodAt(x, t, cap) /\ GoodAt(x, t + 1, cap)
    BY <1>3 DEF GoodAt, Bucket
  <2>2. GoodAt(e, t, cap) /\ GoodAt(f, t + 1, cap)
    BY <2>1, RefillGood
  <2>3. \/ f.tokens = e.tokens /\ f.last = e.last
        \/ f.tokens <= e.tokens + 1 /\ f.last = e.last + p
    BY <2>1, RefillLater
  <2>4. Owes(e, s, w, p, cap)
    BY <1>3 DEF Grants
  <2>5. SUFFICES Owes(f, s, w, p, cap)
    BY <1>3 DEF Grants
  <2> HIDE DEF e, f
  <2>6. e.tokens \in Nat /\ f.tokens \in Nat /\ e.last \in Int /\ f.last \in Int
    BY <2>2 DEF GoodAt, Bucket
  <2>7. CASE f.tokens = e.tokens /\ f.last = e.last
    BY <2>4, <2>7 DEF Owes
  <2>8. CASE f.tokens <= e.tokens + 1 /\ f.last = e.last + p
    <3>1. f.tokens * p <= (e.tokens + 1) * p
      BY <2>6, <2>8, Product
    <3>2. /\ (e.tokens + 1) * p = p * e.tokens + p
          /\ f.tokens * p = p * f.tokens
      BY <2>6
    <3>3. p * f.tokens \in Int /\ p * e.tokens \in Int /\ p * cap \in Int
      BY <2>6
    <3> QED
      BY <1>1, <2>4, <2>6, <2>8, <3>1, <3>2, <3>3 DEF Owes
  <2> QED
    BY <2>3, <2>7, <2>8
<1> QED
  BY <1>2, <1>3

(* A bucket that was idle for as long as it takes to fill is full, and may *)
(* be forgotten.                                                           *)
LEMMA GrantsForgotten ==
  ASSUME NEW t \in Nat, NEW w \in Nat, NEW s \in Nat, NEW p \in Nat \ {0},
         NEW cap \in Nat \ {0}, NEW x, x # None, GoodAt(x, t, cap),
         Grants(x, s, t, w, p, cap), cap * p <= t - x.seen
  PROVE  Grants(None, s, t, w, p, cap)
<1> DEFINE e == RefillAt(x, t, p, cap)
<1>1. Owes(e, s, w, p, cap)
  BY DEF Grants
<1>2. GoodAt(e, t, cap)
  BY RefillGood
<1>3. cap * p <= t - x.last
  BY DEF GoodAt, Bucket
<1>4. e.tokens = cap
  BY <1>3, RefillFull
<1> HIDE DEF e
<1>5. e.last \in Int /\ e.last <= t /\ p * cap \in Int /\ p * s \in Int
  BY <1>2 DEF GoodAt, Bucket
<1> QED
  BY <1>1, <1>4, <1>5 DEF Owes, Grants

(* A watch that begins now has seen no grant.                              *)
LEMMA GrantsNothing ==
  ASSUME NEW t \in Nat, NEW p \in Nat \ {0}, NEW cap \in Nat,
         NEW x, x = None \/ GoodAt(x, t, cap)
  PROVE  Grants(x, 0, t, t, p, cap)
<1>1. p * 0 = 0
  OBVIOUS
<1>2. CASE x = None
  BY <1>1, <1>2 DEF Grants
<1>3. CASE x # None
  <2> DEFINE e == RefillAt(x, t, p, cap)
  <2>1. GoodAt(e, t, cap) /\ t - e.last \in Nat /\ t - e.last < p
    BY <1>3, RefillGood
  <2> HIDE DEF e
  <2>2. e.tokens \in Nat /\ e.tokens <= cap /\ e.last \in Int
    BY <2>1 DEF GoodAt, Bucket
  <2>3. e.tokens * p <= cap * p
    BY <2>2, Product
  <2>4. e.tokens * p = p * e.tokens /\ cap * p = p * cap
    BY <2>2
  <2>5. p * e.tokens \in Int /\ p * cap \in Int
    BY <2>2
  <2>6. Owes(e, 0, t, p, cap)
    BY <1>1, <2>1, <2>2, <2>3, <2>4, <2>5 DEF Owes
  <2> QED
    BY <1>3, <2>6 DEF Grants, e
<1> QED
  BY <1>2, <1>3

\* The bucket a request finds: a new one or the refilled one.
FoundAt(x, t, p, cap) ==
  IF x = None THEN [tokens |-> cap, last |-> t, seen |-> t] ELSE RefillAt(x, t, p, cap)

(* What a request finds is a good bucket that is up to date, and what was  *)
(* granted leaves room for it.                                             *)
LEMMA FoundGood ==
  ASSUME NEW t \in Nat, NEW p \in Nat \ {0}, NEW cap \in Nat,
         NEW x, x = None \/ GoodAt(x, t, cap)
  PROVE  LET e == FoundAt(x, t, p, cap)
         IN GoodAt(e, t, cap) /\ t - e.last \in Nat /\ t - e.last < p
<1>1. CASE x = None
  BY <1>1 DEF FoundAt, GoodAt, Bucket
<1>2. CASE x # None
  BY <1>2, RefillGood DEF FoundAt
<1> QED
  BY <1>1, <1>2

LEMMA FoundOwes ==
  ASSUME NEW t \in Nat, NEW w \in Nat, NEW s \in Nat, NEW p \in Nat \ {0}, NEW cap \in Nat,
         NEW x, Grants(x, s, t, w, p, cap)
  PROVE  Owes(FoundAt(x, t, p, cap), s, w, p, cap)
<1>1. CASE x = None
  <2>1. p * s \in Nat /\ p * cap \in Nat
    OBVIOUS
  <2>2. p * s <= (p - 1) + (t - w)
    BY <1>1 DEF Grants
  <2>3. FoundAt(x, t, p, cap) = [tokens |-> cap, last |-> t, seen |-> t]
    BY <1>1 DEF FoundAt
  <2> QED
    BY <2>1, <2>2, <2>3 DEF Owes
<1>2. CASE x # None
  BY <1>2 DEF FoundAt, Grants
<1> QED
  BY <1>1, <1>2

(* Tokens that are taken from it are granted.                              *)
LEMMA GrantsPaid ==
  ASSUME NEW t \in Nat, NEW w \in Nat, NEW s \in Nat, NEW p \in Nat \ {0}, NEW cap \in Nat,
         NEW e \in Bucket, t - e.last \in Nat, t - e.last < p, Owes(e, s, w, p, cap),
         NEW n \in Nat, NEW y \in Bucket, y.tokens = e.tokens - n, y.last = e.last
  PROVE  Grants(y, s + n, t, w, p, cap)
<1>1. y # None
  BY GateAssumption
<1>2. /\ RefillAt(y, t, p, cap).tokens = y.tokens
      /\ RefillAt(y, t, p, cap).last = y.last
  BY RefillTwice
<1>3. e.tokens \in Int /\ e.last \in Int
  BY DEF Bucket
<1>4. p * (s + n) + p * (e.tokens - n) = p * s + p * e.tokens
  BY <1>3
<1> QED
  BY <1>1, <1>2, <1>3, <1>4 DEF Grants, Owes

-----------------------------------------------------------------------------
(* The inductive invariant                                                 *)

\* RateIsKept for a bucket that is refilled now.
RateInv ==
  FillsWhileIdle =>
    \A b \in Buckets : Grants(bucket[b], spent[b], now, since, Period, Capacity)

\* There is always room for the shared bucket.
RoomInv ==
  /\ IsFiniteSet(Tracked(bucket) \ {Overflow})
  /\ Cardinality(Tracked(bucket) \ {Overflow}) <= MaxTracked - 1

GateInv == GateTypeOK /\ RateInv /\ RoomInv

(* The part of the type that the lemmas above are about.                   *)
LEMMA Numbers ==
  ASSUME GateTypeOK
  PROVE  /\ now \in Nat /\ since \in Nat /\ Period \in Nat \ {0} /\ Capacity \in Nat \ {0}
         /\ \A b \in Buckets : /\ spent[b] \in Nat
                               /\ bucket[b] = None \/ GoodAt(bucket[b], now, Capacity)
<1>1. now \in Nat /\ since \in Nat /\ Period \in Nat \ {0} /\ Capacity \in Nat \ {0}
  BY GateAssumption DEF GateTypeOK, Period, Capacity
<1>2. ASSUME NEW b \in Buckets
      PROVE  spent[b] \in Nat /\ (bucket[b] = None \/ GoodAt(bucket[b], now, Capacity))
  BY DEF GateTypeOK, GoodAt
<1> QED
  BY <1>1, <1>2

(* Pruning changes only what is idle, and keeps everything.                *)
LEMMA AfterOK ==
  ASSUME GateInv, NEW c \in Buckets
  PROVE  /\ After(c) \in [Buckets -> Bucket \cup {None}]
         /\ \A b \in Buckets : \/ After(c)[b] = bucket[b]
                               \/ After(c)[b] = None
         /\ \A b \in Buckets : After(c)[b] = None \/ GoodAt(After(c)[b], now, Capacity)
         /\ FillsWhileIdle => \A b \in Buckets :
              Grants(After(c)[b], spent[b], now, since, Period, Capacity)
<1> USE DEF GateInv
<1>1. bucket \in [Buckets -> Bucket \cup {None}]
  BY DEF GateTypeOK
<1>2. CASE Known(c)
  BY <1>1, <1>2, Numbers DEF After, RateInv
<1>3. CASE ~Known(c)
  <2>1. After(c) = Pruned
    BY <1>3 DEF After
  <2>2. \A b \in Buckets :
          Pruned[b] = IF bucket[b] # None /\ now - bucket[b].seen >= Idle THEN None ELSE bucket[b]
    BY DEF Pruned
  <2>3. Pruned \in [Buckets -> Bucket \cup {None}]
    BY <1>1, <2>2 DEF Pruned
  <2>4. ASSUME FillsWhileIdle, NEW b \in Buckets
        PROVE  Grants(Pruned[b], spent[b], now, since, Period, Capacity)
    <3>1. Grants(bucket[b], spent[b], now, since, Period, Capacity)
      BY <2>4 DEF RateInv
    <3>2. CASE bucket[b] # None /\ now - bucket[b].seen >= Idle
      <4>1. GoodAt(bucket[b], now, Capacity) /\ bucket[b].seen \in Int
        BY <3>2, Numbers DEF GoodAt, Bucket
      <4>2. Capacity * Period <= now - bucket[b].seen
        <5>1. Capacity * Period <= Idle /\ Capacity * Period \in Int /\ Idle \in Nat /\ now \in Nat
          BY <2>4, Numbers, GateAssumption DEF FillsWhileIdle
        <5> QED
          BY <3>2, <4>1, <5>1
      <4>3. Grants(None, spent[b], now, since, Period, Capacity)
        BY <3>1, <3>2, <4>1, <4>2, Numbers, GrantsForgotten
      <4> QED
        BY <2>2, <3>2, <4>3
    <3> QED
      BY <2>2, <3>1, <3>2
  <2>5. \A b \in Buckets : Pruned[b] = None \/ GoodAt(Pruned[b], now, Capacity)
    BY <2>2, Numbers
  <2> QED
    BY <2>1, <2>2, <2>3, <2>4, <2>5
<1> QED
  BY <1>2, <1>3

(* What a request does to the buckets: the one it pays from holds what is  *)
(* left of what the request found, or is unchanged.                        *)
LEMMA ConsumeEffect ==
  ASSUME GateInv, NEW c \in Buckets, NEW n \in Nat, Consume(c, n), config.enabled
  PROVE  LET r == Resolved(c)
             e == FoundAt(After(c)[r], now, Period, Capacity)
         IN /\ r \in Buckets
            /\ \E taken \in {0, n} :
                 /\ spent' = [spent EXCEPT ![r] = @ + taken]
                 /\ \/ bucket' = After(c) /\ taken = 0
                    \/ /\ bucket' = [After(c) EXCEPT ![r] = [e EXCEPT !.tokens = @ - taken]]
                       /\ taken <= e.tokens
<1> DEFINE r == Resolved(c)
           e == FoundAt(After(c)[r], now, Period, Capacity)
<1>1. r \in Buckets
  BY DEF Resolved, Buckets
<1>2. Current(c) = e
  BY DEF Current, FoundAt, Fresh, Refilled, RefillAt
<1>3. GoodAt(e, now, Capacity)
  BY <1>1, AfterOK, Numbers, FoundGood DEF GateInv
<1>4. /\ bucket' = Paid(c, n)
      /\ spent' = [spent EXCEPT ![r] = IF Pays(c, n) THEN @ + n ELSE @]
  BY DEF Consume
<1>5. spent[r] \in Nat /\ spent \in [Buckets -> Nat]
  BY <1>1, Numbers DEF GateInv, GateTypeOK
<1>6. e.tokens \in Nat /\ e \in Bucket
  BY <1>3 DEF GoodAt, Bucket
<1> HIDE DEF e, r
<1>7. CASE Pays(c, n)
  <2>1. e.tokens >= n
    BY <1>2, <1>7 DEF Pays
  <2>2. bucket' = [After(c) EXCEPT ![r] = [e EXCEPT !.tokens = @ - n]]
    BY <1>2, <1>4, <1>7 DEF Paid, r
  <2>3. spent' = [spent EXCEPT ![r] = @ + n]
    BY <1>4, <1>7
  <2> QED
    BY <1>1, <1>6, <2>1, <2>2, <2>3 DEF e, r
<1>8. CASE ~Pays(c, n)
  <2>1. spent' = [spent EXCEPT ![r] = @ + 0]
    <3>1. spent' = [spent EXCEPT ![r] = spent[r]]
      BY <1>4, <1>8
    <3>2. spent[r] + 0 = spent[r]
      BY <1>5
    <3> QED
      BY <3>1, <3>2
  <2>2. CASE After(c)[r] = None
    <3>1. bucket' = After(c)
      BY <1>4, <1>8, <2>2 DEF Paid, r
    <3> QED
      BY <1>1, <2>1, <3>1 DEF e, r
  <2>3. CASE After(c)[r] # None
    <3>1. bucket' = [After(c) EXCEPT ![r] = e]
      BY <1>2, <1>4, <1>8, <2>3 DEF Paid, r
    <3>2. [e EXCEPT !.tokens = @ - 0] = e
      BY <1>6 DEF Bucket
    <3>3. bucket' = [After(c) EXCEPT ![r] = [e EXCEPT !.tokens = @ - 0]]
      BY <3>1, <3>2
    <3> QED
      BY <1>1, <1>6, <2>1, <3>3 DEF e, r
  <2> QED
    BY <2>2, <2>3
<1> QED
  BY <1>7, <1>8

(* Requests, the only steps that grant anything.                           *)
LEMMA ConsumeKeeps ==
  ASSUME GateInv, NEW c \in Buckets, NEW n \in Nat, Consume(c, n)
  PROVE  GateInv'
<1>1. UNCHANGED <<config, now, since>>
  BY DEF Consume
<1>2. CASE ~config.enabled
  <2>1. UNCHANGED gateVars
    BY <1>1, <1>2 DEF Consume, gateVars
  <2> QED
    BY <2>1 DEF GateInv, GateTypeOK, RateInv, RoomInv, FillsWhileIdle, Period, Capacity, Tracked, gateVars
<1>3. CASE config.enabled
  <2> DEFINE r == Resolved(c)
             e == FoundAt(After(c)[r], now, Period, Capacity)
  <2>1. /\ r \in Buckets
        /\ \E taken \in {0, n} :
             /\ spent' = [spent EXCEPT ![r] = @ + taken]
             /\ \/ bucket' = After(c) /\ taken = 0
                \/ /\ bucket' = [After(c) EXCEPT ![r] = [e EXCEPT !.tokens = @ - taken]]
                   /\ taken <= e.tokens
    BY <1>3, ConsumeEffect
  <2>2. PICK taken \in {0, n} :
             /\ spent' = [spent EXCEPT ![r] = @ + taken]
             /\ \/ bucket' = After(c) /\ taken = 0
                \/ /\ bucket' = [After(c) EXCEPT ![r] = [e EXCEPT !.tokens = @ - taken]]
                   /\ taken <= e.tokens
    BY <2>1
  <2>3. taken \in Nat
    OBVIOUS
  <2>4. /\ now \in Nat /\ since \in Nat /\ Period \in Nat \ {0} /\ Capacity \in Nat \ {0}
        /\ \A b \in Buckets : spent[b] \in Nat
    BY Numbers DEF GateInv
  <2>5. /\ After(c) \in [Buckets -> Bucket \cup {None}]
        /\ \A b \in Buckets : After(c)[b] = bucket[b] \/ After(c)[b] = None
        /\ \A b \in Buckets : After(c)[b] = None \/ GoodAt(After(c)[b], now, Capacity)
        /\ FillsWhileIdle => \A b \in Buckets :
              Grants(After(c)[b], spent[b], now, since, Period, Capacity)
    BY AfterOK
  <2>6. GoodAt(e, now, Capacity) /\ now - e.last \in Nat /\ now - e.last < Period
    BY <2>1, <2>4, <2>5, FoundGood
  <2>7. Period' = Period /\ Capacity' = Capacity /\ FillsWhileIdle' = FillsWhileIdle
    BY <1>1 DEF Period, Capacity, FillsWhileIdle
  <2> DEFINE y == [e EXCEPT !.tokens = @ - taken]
  <2>8. taken <= e.tokens =>
          /\ GoodAt(y, now, Capacity) /\ y.tokens = e.tokens - taken /\ y.last = e.last
    BY <2>3, <2>4, <2>6 DEF GoodAt, Bucket
  <2>9. spent \in [Buckets -> Nat]
    BY DEF GateInv, GateTypeOK
  <2> HIDE DEF r, e
  <2>10. GateTypeOK'
    <3>1. spent' \in [Buckets -> Nat]
      BY <2>1, <2>2, <2>3, <2>9
    <3>2. CASE bucket' = After(c)
      BY <1>1, <2>5, <2>7, <3>1, <3>2 DEF GateInv, GateTypeOK, GoodAt
    <3>3. CASE bucket' = [After(c) EXCEPT ![r] = y] /\ taken <= e.tokens
      <4> HIDE DEF y
      <4>1. GoodAt(y, now, Capacity) /\ y \in Bucket
        BY <2>8, <3>3 DEF GoodAt
      <4>2. bucket' \in [Buckets -> Bucket \cup {None}]
        BY <2>1, <2>5, <3>3, <4>1
      <4>3. \A b \in Buckets : bucket'[b] = None \/ GoodAt(bucket'[b], now, Capacity)
        BY <2>1, <2>5, <3>3, <4>1
      <4> QED
        BY <1>1, <2>7, <3>1, <4>2, <4>3 DEF GateInv, GateTypeOK, GoodAt
    <3> QED
      BY <2>2, <3>2, <3>3 DEF y
  <2>11. RateInv'
    <3>1. SUFFICES ASSUME FillsWhileIdle, NEW b \in Buckets
                   PROVE  Grants(bucket'[b], spent'[b], now, since, Period, Capacity)
      BY <1>1, <2>7 DEF RateInv
    <3>2. Grants(After(c)[b], spent[b], now, since, Period, Capacity)
      BY <2>5, <3>1
    <3>3. CASE bucket' = After(c) /\ taken = 0
      <4>1. spent'[b] = spent[b]
        BY <2>1, <2>2, <2>4, <2>9, <3>3
      <4> QED
        BY <3>2, <3>3, <4>1
    <3>4. CASE bucket' = [After(c) EXCEPT ![r] = y] /\ taken <= e.tokens
      <4>1. CASE b = r
        <5> HIDE DEF y
        <5>1. Owes(e, spent[b], since, Period, Capacity)
          BY <2>4, <3>2, <4>1, FoundOwes DEF e
        <5>2. bucket'[b] = y /\ spent'[b] = spent[b] + taken
          BY <2>1, <2>2, <2>5, <2>9, <3>4, <4>1
        <5>3. e \in Bucket /\ y \in Bucket /\ y.tokens = e.tokens - taken /\ y.last = e.last
          BY <2>6, <2>8, <3>4 DEF GoodAt
        <5>4. Grants(y, spent[b] + taken, now, since, Period, Capacity)
          BY <2>3, <2>4, <2>6, <5>1, <5>3, GrantsPaid
        <5> QED
          BY <5>2, <5>4
      <4>2. CASE b # r
        <5> HIDE DEF y
        <5>1. bucket'[b] = After(c)[b] /\ spent'[b] = spent[b]
          BY <2>1, <2>2, <2>5, <2>9, <3>4, <4>2
        <5> QED
          BY <3>2, <5>1
      <4> QED
        BY <4>1, <4>2
    <3> QED
      BY <2>2, <3>3, <3>4 DEF y
  <2>12. RoomInv'
    <3> DEFINE old == Tracked(bucket) \ {Overflow}
               mid == Tracked(After(c)) \ {Overflow}
               new == Tracked(bucket') \ {Overflow}
    <3>1. IsFiniteSet(old) /\ Cardinality(old) <= MaxTracked - 1 /\ MaxTracked \in Nat \ {0}
      BY GateAssumption DEF GateInv, RoomInv
    <3>2. mid \subseteq old
      BY <2>5 DEF Tracked
    <3>3. IsFiniteSet(mid) /\ Cardinality(mid) <= Cardinality(old)
          /\ Cardinality(mid) \in Nat /\ Cardinality(old) \in Nat
      BY <3>1, <3>2, FS_Subset, FS_CardinalityType
    <3>4. new \subseteq mid \cup ({r} \ {Overflow})
      <4> HIDE DEF y
      <4> QED
        BY <2>1, <2>2, <2>5 DEF Tracked, y
    <3>5. CASE r = Overflow \/ r \in mid
      <4>1. new \subseteq mid
        BY <3>4, <3>5
      <4>2. IsFiniteSet(new) /\ Cardinality(new) <= Cardinality(mid) /\ Cardinality(new) \in Nat
        BY <3>3, <4>1, FS_Subset, FS_CardinalityType
      <4> QED
        BY <3>1, <3>3, <4>2 DEF RoomInv
    <3>6. CASE r # Overflow /\ r \notin mid
      <4>1. After(c)[r] = None
        BY <2>1, <3>6 DEF Tracked
      <4>2. ~Known(c)
        BY <3>6, <4>1 DEF r, Resolved, Known, After
      <4>3. After(c) = Pruned /\ r = c /\ ~(Cardinality(Tracked(Pruned)) >= MaxTracked - 1)
        BY <3>6, <4>2 DEF r, Resolved, After
      <4>4. IsFiniteSet(Tracked(Pruned)) /\ Cardinality(Tracked(Pruned)) \in Nat
        <5>1. Tracked(Pruned) \subseteq mid \cup {Overflow}
          BY <4>3
        <5>2. IsFiniteSet(mid \cup {Overflow})
          BY <3>3, FS_AddElement
        <5> QED
          BY <5>1, <5>2, FS_Subset, FS_CardinalityType
      <4>5. Cardinality(mid) <= Cardinality(Tracked(Pruned))
        BY <4>3, <4>4, FS_Subset
      <4>6. IsFiniteSet(mid \cup {r}) /\ Cardinality(mid \cup {r}) = Cardinality(mid) + 1
        BY <3>3, <3>6, FS_AddElement
      <4>7. IsFiniteSet(new) /\ Cardinality(new) <= Cardinality(mid \cup {r})
            /\ Cardinality(new) \in Nat
        BY <3>4, <4>6, FS_Subset, FS_CardinalityType
      <4> QED
        BY <3>1, <3>3, <4>3, <4>4, <4>5, <4>6, <4>7 DEF RoomInv
    <3> QED
      BY <3>5, <3>6
  <2> QED
    BY <2>10, <2>11, <2>12 DEF GateInv
<1> QED
  BY <1>2, <1>3

(* Buckets that are given back, and a watch that starts for them.          *)
LEMMA ResetKeeps ==
  ASSUME GateInv, NEW c \in Buckets, Reset(c)
  PROVE  GateInv'
<1>1. UNCHANGED <<config, now, since>> /\ Period' = Period /\ Capacity' = Capacity
  BY DEF Reset, Period, Capacity
<1>2. /\ bucket \in [Buckets -> Bucket \cup {None}] /\ spent \in [Buckets -> Nat]
      /\ bucket' = [bucket EXCEPT ![c] = None] /\ spent' = [spent EXCEPT ![c] = 0]
  BY DEF GateInv, GateTypeOK, Reset
<1>3. GateTypeOK'
  BY <1>1, <1>2 DEF GateInv, GateTypeOK
<1>4. RateInv'
  <2>1. SUFFICES ASSUME FillsWhileIdle, NEW b \in Buckets
                 PROVE  Grants(bucket'[b], spent'[b], now, since, Period, Capacity)
    BY <1>1 DEF RateInv, FillsWhileIdle
  <2>2. CASE b = c
    <3>1. bucket'[b] = None /\ spent'[b] = 0
      BY <1>2, <2>2
    <3>2. Period * 0 = 0 /\ Period \in Nat \ {0} /\ since <= now /\ now \in Nat /\ since \in Nat
      BY Numbers DEF GateInv, GateTypeOK
    <3> QED
      BY <3>1, <3>2 DEF Grants
  <2>3. CASE b # c
    BY <1>2, <2>1, <2>3 DEF GateInv, RateInv
  <2> QED
    BY <2>2, <2>3
<1>5. RoomInv'
  <2>1. Tracked(bucket') \ {Overflow} \subseteq Tracked(bucket) \ {Overflow}
    BY <1>2 DEF Tracked
  <2>2. /\ IsFiniteSet(Tracked(bucket) \ {Overflow})
        /\ Cardinality(Tracked(bucket) \ {Overflow}) <= MaxTracked - 1
    BY DEF GateInv, RoomInv
  <2>3. /\ IsFiniteSet(Tracked(bucket') \ {Overflow})
        /\ Cardinality(Tracked(bucket') \ {Overflow}) <= Cardinality(Tracked(bucket) \ {Overflow})
    BY <2>1, <2>2, FS_Subset
  <2>4. /\ Cardinality(Tracked(bucket') \ {Overflow}) \in Nat
        /\ Cardinality(Tracked(bucket) \ {Overflow}) \in Nat
    BY <2>2, <2>3, FS_CardinalityType
  <2> QED
    BY <2>2, <2>3, <2>4, GateAssumption DEF RoomInv
<1> QED
  BY <1>3, <1>4, <1>5 DEF GateInv

LEMMA EmptyRoom ==
  ASSUME NEW bs, \A b \in Buckets : bs[b] = None
  PROVE  /\ IsFiniteSet(Tracked(bs) \ {Overflow})
         /\ Cardinality(Tracked(bs) \ {Overflow}) <= MaxTracked - 1
<1>1. Tracked(bs) \ {Overflow} = {}
  BY DEF Tracked
<1>2. IsFiniteSet({}) /\ Cardinality({}) = 0
  BY FS_EmptySet
<1>3. 0 <= MaxTracked - 1
  BY GateAssumption
<1> HIDE DEF Tracked
<1> QED
  BY <1>1, <1>2, <1>3, Zenon

LEMMA ClearKeeps ==
  ASSUME GateInv, ClearAll
  PROVE  GateInv'
<1>1. UNCHANGED <<config, now, since>> /\ Period' = Period /\ Capacity' = Capacity
  BY DEF ClearAll, Period, Capacity
<1>2. /\ bucket' = [b \in Buckets |-> None] /\ spent' = [b \in Buckets |-> 0]
  BY DEF ClearAll
<1>3. GateTypeOK'
  BY <1>1, <1>2 DEF GateInv, GateTypeOK
<1>4. RateInv'
  <2>1. SUFFICES ASSUME NEW b \in Buckets
                 PROVE  Grants(bucket'[b], spent'[b], now, since, Period, Capacity)
    BY <1>1 DEF RateInv
  <2>2. Period * 0 = 0 /\ Period \in Nat \ {0} /\ since <= now /\ now \in Nat /\ since \in Nat
    BY Numbers DEF GateInv, GateTypeOK
  <2> QED
    BY <1>2, <2>2 DEF Grants
<1>5. RoomInv'
  <2>1. \A b \in Buckets : bucket'[b] = None
    BY <1>2
  <2> QED
    BY <2>1, EmptyRoom DEF RoomInv
<1> QED
  BY <1>3, <1>4, <1>5 DEF GateInv

(* A new configuration restarts the watch and cuts the buckets.            *)
LEMMA UpdateKeeps ==
  ASSUME GateInv, NEW c \in Configs, UpdateConfig(c)
  PROVE  GateInv'
<1>1. /\ config' = c /\ since' = now /\ now' = now /\ spent' = [b \in Buckets |-> 0]
      /\ bucket' = [b \in Buckets |->
                      IF bucket[b] = None THEN None
                      ELSE [bucket[b] EXCEPT !.tokens = Lesser(@, c.capacity)]]
  BY DEF UpdateConfig
<1>2. Period' = c.period /\ Capacity' = c.capacity
  BY <1>1 DEF Period, Capacity
<1>3. c.period \in Nat \ {0} /\ c.capacity \in Nat \ {0}
  BY GateAssumption
<1>4. now \in Nat /\ \A b \in Buckets : bucket[b] = None \/ GoodAt(bucket[b], now, Capacity)
  BY Numbers DEF GateInv
<1>5. \A b \in Buckets : bucket'[b] = None \/ GoodAt(bucket'[b], now, c.capacity)
  <2>1. SUFFICES ASSUME NEW b \in Buckets, bucket[b] # None
                 PROVE  GoodAt(bucket'[b], now, c.capacity)
    BY <1>1
  <2>2. GoodAt(bucket[b], now, Capacity) /\ Capacity \in Nat
    BY <1>4, <2>1, Numbers DEF GateInv
  <2>3. bucket'[b] = [bucket[b] EXCEPT !.tokens = Lesser(@, c.capacity)]
    BY <1>1, <2>1
  <2> QED
    BY <1>3, <2>2, <2>3 DEF GoodAt, Bucket, Lesser
<1>6. GateTypeOK'
  <2>1. \A b \in Buckets : bucket'[b] \in Bucket \cup {None}
    BY <1>5 DEF GoodAt
  <2>2. bucket' \in [Buckets -> Bucket \cup {None}]
    BY <1>1, <2>1
  <2> QED
    BY <1>1, <1>2, <1>4, <1>5, <2>2 DEF GateTypeOK, GoodAt
<1>7. RateInv'
  <2>1. \A b \in Buckets : Grants(bucket'[b], 0, now, now, c.period, c.capacity)
    BY <1>3, <1>4, <1>5, GrantsNothing
  <2> QED
    BY <1>1, <1>2, <2>1 DEF RateInv
<1>8. RoomInv'
  <2>1. Tracked(bucket') = Tracked(bucket)
    <3>1. \A b \in Buckets : bucket[b] # None => bucket'[b] # None
      <4>1. SUFFICES ASSUME NEW b \in Buckets, bucket[b] # None PROVE bucket'[b] # None
        OBVIOUS
      <4>2. GoodAt(bucket[b], now, Capacity) /\ Capacity \in Nat
        BY <1>4, <4>1, Numbers DEF GateInv
      <4>3. bucket'[b] = [bucket[b] EXCEPT !.tokens = Lesser(@, c.capacity)]
        BY <1>1, <4>1
      <4>4. bucket'[b] \in Bucket
        BY <1>3, <4>2, <4>3 DEF GoodAt, Bucket, Lesser
      <4> QED
        BY <4>4, GateAssumption
    <3>2. \A b \in Buckets : bucket[b] = None => bucket'[b] = None
      BY <1>1
    <3> QED
      BY <3>1, <3>2 DEF Tracked
  <2> QED
    BY <2>1 DEF GateInv, RoomInv
<1> QED
  BY <1>6, <1>7, <1>8 DEF GateInv

LEMMA TickKeeps ==
  ASSUME GateInv, Tick
  PROVE  GateInv'
<1>1. now' = now + 1 /\ UNCHANGED <<config, bucket, since, spent>>
  BY DEF Tick
<1>2. Period' = Period /\ Capacity' = Capacity
  BY <1>1 DEF Period, Capacity
<1>3. /\ now \in Nat /\ since \in Nat /\ Period \in Nat \ {0} /\ Capacity \in Nat \ {0}
      /\ \A b \in Buckets : /\ spent[b] \in Nat
                            /\ bucket[b] = None \/ GoodAt(bucket[b], now, Capacity)
  BY Numbers DEF GateInv
<1>4. GateTypeOK'
  <2>1. \A b \in Buckets : bucket[b] # None => GoodAt(bucket[b], now + 1, Capacity)
    BY <1>3 DEF GoodAt, Bucket
  <2> QED
    BY <1>1, <1>2, <1>3, <2>1 DEF GateInv, GateTypeOK, GoodAt
<1>5. RateInv'
  <2>1. SUFFICES ASSUME FillsWhileIdle, NEW b \in Buckets
                 PROVE  Grants(bucket[b], spent[b], now + 1, since, Period, Capacity)
    BY <1>1, <1>2 DEF RateInv, FillsWhileIdle
  <2>2. Grants(bucket[b], spent[b], now, since, Period, Capacity)
    BY <2>1 DEF GateInv, RateInv
  <2> QED
    BY <1>3, <2>2, GrantsLater
<1>6. RoomInv'
  BY <1>1 DEF GateInv, RoomInv
<1> QED
  BY <1>4, <1>5, <1>6 DEF GateInv

LEMMA WatchKeeps ==
  ASSUME GateInv, Watch
  PROVE  GateInv'
<1>1. /\ since' = now /\ spent' = [b \in Buckets |-> 0]
      /\ config' = config /\ bucket' = bucket /\ now' = now
  BY DEF Watch
<1>2. Period' = Period /\ Capacity' = Capacity
  BY <1>1 DEF Period, Capacity
<1>3. GateTypeOK'
  BY <1>1, <1>2 DEF GateInv, GateTypeOK
<1>4. RateInv'
  <2>1. \A b \in Buckets : Grants(bucket[b], 0, now, now, Period, Capacity)
    BY Numbers, GrantsNothing DEF GateInv
  <2> QED
    BY <1>1, <1>2, <2>1 DEF RateInv
<1>5. RoomInv'
  BY <1>1 DEF GateInv, RoomInv
<1> QED
  BY <1>3, <1>4, <1>5 DEF GateInv

-----------------------------------------------------------------------------
(* The theorems                                                            *)

LEMMA GateInitEstablishes == GateInit => GateInv
<1>1. SUFFICES ASSUME GateInit PROVE GateInv
  OBVIOUS
<1> USE DEF GateInit
<1>2. GateTypeOK
  <2>1. /\ config \in Configs /\ now = 0 /\ since = 0
        /\ bucket = [b \in Buckets |-> None] /\ spent = [b \in Buckets |-> 0]
    BY <1>1
  <2>2. \A b \in Buckets : bucket[b] = None
    BY <2>1
  <2>3. bucket \in [Buckets -> Bucket \cup {None}] /\ spent \in [Buckets -> Nat]
    BY <2>1
  <2> QED
    BY <2>1, <2>2, <2>3 DEF GateTypeOK
<1>3. RateInv
  <2>1. SUFFICES ASSUME NEW b \in Buckets
                 PROVE  Grants(bucket[b], spent[b], now, since, Period, Capacity)
    BY DEF RateInv
  <2>2. Period * 0 = 0 /\ Period \in Nat \ {0}
    BY <1>2, Numbers
  <2> QED
    BY <1>1, <2>2 DEF Grants
<1>4. RoomInv
  <2>1. \A b \in Buckets : bucket[b] = None
    BY <1>1
  <2> QED
    BY <2>1, EmptyRoom DEF RoomInv
<1> QED
  BY <1>2, <1>3, <1>4 DEF GateInv

(* Every operation has a cost.                                             *)
LEMMA CostIsNumber ==
  ASSUME NEW op \in Operations, NEW n \in Records
  PROVE  Cost(op, n) \in Nat
<1>1. op \in OperationNames /\ n \in Nat
  BY GateAssumption
<1> QED
  BY <1>1 DEF Cost, OperationNames, Lesser

LEMMA GateStepKeeps == GateInv /\ [GateNext]_gateVars => GateInv'
<1>1. SUFFICES ASSUME GateInv, [GateNext]_gateVars PROVE GateInv'
  OBVIOUS
<1>2. CASE UNCHANGED gateVars
  BY <1>1, <1>2 DEF GateInv, GateTypeOK, RateInv, RoomInv, FillsWhileIdle, Period, Capacity, Tracked, gateVars
<1>3. ASSUME NEW c \in Buckets, NEW op \in Operations, NEW n \in Records, ValidRequest(c, op, n)
      PROVE  GateInv'
  BY <1>1, <1>3, CostIsNumber, ConsumeKeeps DEF ValidRequest
<1>4. ASSUME NEW c \in Buckets, NEW op \in Operations, NEW n \in Records, InvalidRequest(c, op, n)
      PROVE  GateInv'
  <2>1. CASE op \in ValidatesFirst \cup {"one"}
    BY <1>2, <1>4, <2>1 DEF InvalidRequest
  <2>2. CASE op \notin ValidatesFirst \cup {"one"}
    BY <1>1, <1>4, <2>2, CostIsNumber, ConsumeKeeps DEF InvalidRequest
  <2> QED
    BY <2>1, <2>2
<1>5. ASSUME NEW c \in Buckets, Check(c)
      PROVE  GateInv'
  BY <1>1, <1>5, ConsumeKeeps DEF Check
<1>6. ASSUME NEW c \in Buckets, Reset(c)
      PROVE  GateInv'
  BY <1>1, <1>6, ResetKeeps
<1>7. CASE ClearAll
  BY <1>1, <1>7, ClearKeeps
<1>8. ASSUME NEW c \in Configs, UpdateConfig(c)
      PROVE  GateInv'
  BY <1>1, <1>8, UpdateKeeps
<1>9. CASE Tick
  BY <1>1, <1>9, TickKeeps
<1>10. CASE Watch
  BY <1>1, <1>10, WatchKeeps
<1> QED
  BY <1>1, <1>2, <1>3, <1>4, <1>5, <1>6, <1>7, <1>8, <1>9, <1>10 DEF GateNext

(* The inductive invariant holds.                                          *)
THEOREM GateInvariant == GateSpec => []GateInv
BY GateInitEstablishes, GateStepKeeps, PTL DEF GateSpec

(* No bucket holds less than no token or more than its capacity, and none  *)
(* lies in the future.                                                     *)
THEOREM GateTypeCorrect == GateSpec => []GateTypeOK
<1>1. GateInv => GateTypeOK
  BY DEF GateInv
<1> QED
  BY <1>1, GateInvariant, PTL

(* In any stretch of time a bucket grants at most its capacity and what    *)
(* the rate adds, through refills, refusals, pruning and reuse.            *)
THEOREM RateIsKeptHolds == GateSpec => []RateIsKept
<1>1. GateInv => RateIsKept
  <2>1. SUFFICES ASSUME GateInv, FillsWhileIdle, NEW b \in Buckets
                 PROVE  Period * spent[b] <= Period * Capacity + (Period - 1) + (now - since)
    BY DEF RateIsKept
  <2>2. /\ now \in Nat /\ since \in Nat /\ Period \in Nat \ {0} /\ Capacity \in Nat \ {0}
        /\ spent[b] \in Nat /\ (bucket[b] = None \/ GoodAt(bucket[b], now, Capacity))
    BY <2>1, Numbers DEF GateInv
  <2> DEFINE x == bucket[b]
             e == RefillAt(x, now, Period, Capacity)
  <2>3. Grants(x, spent[b], now, since, Period, Capacity)
    BY <2>1 DEF GateInv, RateInv
  <2>4. Period * spent[b] \in Nat /\ Period * Capacity \in Nat
    BY <2>2
  <2>5. CASE x = None
    BY <2>2, <2>3, <2>4, <2>5 DEF Grants
  <2>6. CASE x # None
    <3>1. Owes(e, spent[b], since, Period, Capacity)
      BY <2>3, <2>6 DEF Grants
    <3>2. GoodAt(e, now, Capacity) /\ e.seen = now
      BY <2>2, <2>6, RefillGood
    <3> HIDE DEF e
    <3>3. e.tokens \in Nat /\ e.last \in Int /\ e.last <= now /\ Period * e.tokens \in Nat
      BY <2>2, <3>2 DEF GoodAt, Bucket
    <3> QED
      BY <2>2, <2>4, <3>1, <3>3 DEF Owes
  <2> QED
    BY <2>5, <2>6
<1> QED
  BY <1>1, GateInvariant, PTL

(* Buckets keep their type, there are at most MaxTracked of them, and a    *)
(* refused client that waits as long as it is told to is admitted.         *)
THEOREM GateConsistentHolds == GateSpec => []GateConsistent
<1>1. GateInv => BoundedState
  <2>1. SUFFICES ASSUME GateInv PROVE Cardinality(Tracked(bucket)) <= MaxTracked
    BY DEF BoundedState
  <2> DEFINE own == Tracked(bucket) \ {Overflow}
  <2>2. IsFiniteSet(own) /\ Cardinality(own) <= MaxTracked - 1 /\ MaxTracked \in Nat
    BY <2>1, GateAssumption DEF GateInv, RoomInv
  <2>3. /\ IsFiniteSet(own \cup {Overflow})
        /\ Cardinality(own \cup {Overflow}) = Cardinality(own) + 1
    BY <2>2, FS_AddElement
  <2>4. Tracked(bucket) \subseteq own \cup {Overflow}
    OBVIOUS
  <2>5. /\ IsFiniteSet(Tracked(bucket))
        /\ Cardinality(Tracked(bucket)) <= Cardinality(own \cup {Overflow})
    BY <2>3, <2>4, FS_Subset
  <2>6. Cardinality(own) \in Nat /\ Cardinality(Tracked(bucket)) \in Nat
    BY <2>2, <2>5, FS_CardinalityType
  <2> QED
    BY <2>2, <2>3, <2>5, <2>6
<1>2. GateInv => RetryAfterIsEnough
  <2>1. SUFFICES ASSUME GateInv, NEW b \in Tracked(bucket), NEW n \in 1..Capacity,
                        Refilled(bucket[b]).tokens < n
                 PROVE  Refilled(bucket[b]).tokens
                          + (now + RetryAfter(Refilled(bucket[b]), n) - Refilled(bucket[b]).last) \div Period
                        >= n
    BY DEF RetryAfterIsEnough
  <2> DEFINE r == RefillAt(bucket[b], now, Period, Capacity)
             wait == RetryAfter(r, n)
             later == now + wait - r.last
  <2>2. Refilled(bucket[b]) = r
    BY DEF Refilled, RefillAt
  <2>3. /\ now \in Nat /\ Period \in Nat \ {0} /\ Capacity \in Nat \ {0}
        /\ GoodAt(bucket[b], now, Capacity)
    BY <2>1, Numbers DEF GateInv, Tracked
  <2>4. GoodAt(r, now, Capacity) /\ now - r.last \in Nat
    BY <2>3, RefillGood
  <2> HIDE DEF r
  <2>5. r.tokens \in Nat /\ r.last \in Int /\ n \in Nat /\ n - r.tokens \in Nat
    BY <2>1, <2>2, <2>3, <2>4 DEF GoodAt, Bucket
  <2>6. (n - r.tokens) * Period \in Nat
    BY <2>3, <2>5
  <2>7. wait \in Nat /\ wait >= (n - r.tokens) * Period - (now - r.last)
    BY <2>3, <2>4, <2>5, <2>6 DEF RetryAfter, Greater
  <2> HIDE DEF wait
  <2>8. later \in Nat /\ (n - r.tokens) * Period <= later
    BY <2>3, <2>4, <2>5, <2>6, <2>7
  <2> HIDE DEF later
  <2>9. later \div Period >= n - r.tokens /\ later \div Period \in Nat
    BY <2>3, <2>5, <2>8, QuotientAtLeast, Division
  <2>10. r.tokens + later \div Period >= n
    BY <2>5, <2>9
  <2> QED
    BY <2>2, <2>10 DEF later, wait
<1> QED
  BY <1>1, <1>2, GateTypeCorrect, GateInvariant, PTL DEF GateConsistent

-----------------------------------------------------------------------------
(* The task queue                                                          *)

(* A task that the queue holds.                                            *)
Held(st, gone) == {t \in Tasks : st[t] \in {"pending", "running"} /\ t \notin gone}

(* InOnePlace, with sets: the places share no task, and hold these tasks.  *)
Placed(q, race, timers, st, gone) ==
  /\ ToSet(q) \cap race = {} /\ ToSet(q) \cap timers = {} /\ race \cap timers = {}
  /\ ToSet(q) \cup race \cup timers = Held(st, gone)

(* The callbacks that were called, but for those of ends, which are next.  *)
Notified(calls, st, ends) ==
  \A t \in Tasks : calls[t] = IF Ended(st[t]) /\ t \notin wiped \cup ends THEN 1 ELSE 0

(* The slots that are taken.                                               *)
Slots(run, race) ==
  /\ run \subseteq race /\ race \subseteq Tasks /\ IsFiniteSet(run)
  /\ Cardinality(run) <= MaxConcurrent
  /\ ~forced => run = race

Queued(q) == q \in Seq(Tasks) /\ IsInjective(q)

(* What waits in a timer that was stopped has been added.                  *)
LostKnown == \A t \in lost : status[t] # "none"

IInv ==
  /\ TypeOK /\ LostKnown
  /\ Placed(queue, racing, retryTimers, status, lost)
  /\ Slots(runningTasks, racing)
  /\ Notified(told, status, {})

-----------------------------------------------------------------------------
(* Sequences                                                               *)

(* A set of positions that is not empty has a first one.                   *)
LEMMA Least ==
  ASSUME NEW S \in SUBSET Nat, S # {}
  PROVE  \E i \in S : \A j \in S : i <= j
<1>1. \E x \in S : \A y \in S : ~ (<<y, x>> \in OpToRel(<, Nat))
  BY WFMin, NatLessThanWellFounded, Zenon
<1>2. PICK x \in S : \A y \in S : ~ (<<y, x>> \in OpToRel(<, Nat))
  BY <1>1
<1>3. \A y \in S : ~ (y < x)
  BY <1>2 DEF OpToRel
<1> QED
  BY <1>3

LEMMA Members ==
  ASSUME NEW q \in Seq(Tasks)
  PROVE  /\ \A t : t \in ToSet(q) <=> \E i \in 1..Len(q) : q[i] = t
         /\ ToSet(q) \subseteq Tasks
         /\ IsInjective(q) <=> \A i, j \in 1..Len(q) : q[i] = q[j] => i = j
  BY LenProperties DEF ToSet, IsInjective

(* enqueue puts the task somewhere in the queue.                           *)
LEMMA EnqueuedProperties ==
  ASSUME NEW q, Queued(q), NEW t \in Tasks, t \notin ToSet(q), NEW times
  PROVE  /\ Queued(Enqueued(q, t, times))
         /\ ToSet(Enqueued(q, t, times)) = ToSet(q) \cup {t}
<1> DEFINE later == {i \in 1..Len(q) : Before(t, q[i], times)}
           k == CHOOSE i \in later : \A j \in later : i <= j
           e == Enqueued(q, t, times)
<1>0. q \in Seq(Tasks) /\ Len(q) \in Nat
  BY LenProperties DEF Queued
<1>1. CASE later = {}
  <2>1. e = Append(q, t)
    BY <1>1 DEF Enqueued
  <2>2. e \in Seq(Tasks) /\ Len(e) = Len(q) + 1 /\ e[Len(q) + 1] = t
        /\ \A i \in 1..Len(q) : e[i] = q[i]
    BY <1>0, <2>1
  <2> HIDE DEF e
  <2> QED
    <3>1. \A i \in 1..Len(q) : q[i] # t
      BY <1>0, Members
    <3>2. \A i, j \in 1..Len(q) : q[i] = q[j] => i = j
      BY <1>0, Members DEF Queued
    <3>3. \A i, j \in 1..Len(e) : e[i] = e[j] => i = j
      BY <1>0, <2>2, <3>1, <3>2
    <3>4. \A x : (\E i \in 1..Len(e) : e[i] = x) <=> (x = t \/ \E i \in 1..Len(q) : q[i] = x)
      BY <1>0, <2>2
    <3>5. \A x : x \in ToSet(e) <=> x = t \/ x \in ToSet(q)
      BY <1>0, <2>2, <3>4, Members
    <3> QED
      BY <2>2, <3>3, <3>5, Members DEF Queued, e
<1>2. CASE later # {}
  <2>1. k \in 1..Len(q)
    <3>1. \E i \in later : \A j \in later : i <= j
      <4>1. later \in SUBSET Nat
        BY <1>0
      <4> QED
        BY <1>2, <4>1, Least
    <3> QED
      BY <3>1
  <2>2. e = SubSeq(q, 1, k - 1) \o <<t>> \o SubSeq(q, k, Len(q))
    BY <1>2 DEF Enqueued, InsertAt
  <2> HIDE DEF k, e
  <2> DEFINE a == SubSeq(q, 1, k - 1)
             b == SubSeq(q, k, Len(q))
  <2>3. a \in Seq(Tasks) /\ Len(a) = k - 1 /\ \A i \in 1..k - 1 : a[i] = q[i]
    BY <1>0, <2>1
  <2>4. b \in Seq(Tasks) /\ Len(b) = Len(q) - k + 1 /\ \A i \in 1..Len(b) : b[i] = q[k + i - 1]
    BY <1>0, <2>1
  <2>5. <<t>> \in Seq(Tasks) /\ Len(<<t>>) = 1 /\ <<t>>[1] = t
    OBVIOUS
  <2> HIDE DEF a, b
  <2>6. (a \o <<t>>) \in Seq(Tasks) /\ Len(a \o <<t>>) = k
        /\ (a \o <<t>>)[k] = t /\ \A i \in 1..k - 1 : (a \o <<t>>)[i] = q[i]
    BY SMTT(60), <2>1, <2>3, <2>5, ConcatProperties
  <2> DEFINE c == a \o <<t>>
  <2>7. e = c \o b
    BY <2>2 DEF a, b
  <2> HIDE DEF c
  <2>8. c \in Seq(Tasks) /\ Len(c) = k /\ c[k] = t /\ \A i \in 1..k - 1 : c[i] = q[i]
    BY <2>6 DEF c
  <2>9. e \in Seq(Tasks) /\ Len(e) = Len(q) + 1
        /\ \A i \in 1..Len(q) + 1 : e[i] = IF i <= k THEN c[i] ELSE b[i - k]
    <3>1. (c \o b) \in Seq(Tasks) /\ Len(c \o b) = k + Len(b)
          /\ \A i \in 1..k + Len(b) : (c \o b)[i] = IF i <= k THEN c[i] ELSE b[i - k]
      BY <2>8, <2>4, ConcatProperties
    <3>2. k + Len(b) = Len(q) + 1
      BY <2>4, <2>1, <1>0
    <3> QED
      BY <2>7, <3>1, <3>2
  <2>10. \A i \in 1..Len(q) + 1 : e[i] = IF i < k THEN q[i] ELSE IF i = k THEN t ELSE q[i - 1]
    <3> SUFFICES ASSUME NEW i \in 1..Len(q) + 1
                 PROVE  e[i] = IF i < k THEN q[i] ELSE IF i = k THEN t ELSE q[i - 1]
      OBVIOUS
    <3>1. CASE i <= k
      BY <1>0, <2>1, <2>8, <2>9, <3>1
    <3>2. CASE i > k
      <4>1. i - k \in 1..Len(b) /\ k + (i - k) - 1 = i - 1
        BY <1>0, <2>1, <2>4, <3>2
      <4>2. b[i - k] = q[i - 1]
        BY <2>4, <4>1
      <4> QED
        BY <1>0, <2>1, <2>9, <3>2, <4>2
    <3> QED
      BY <2>1, <3>1, <3>2
  <2>11. ToSet(e) = ToSet(q) \cup {t}
    <3>1. ASSUME NEW x \in ToSet(e) PROVE x \in ToSet(q) \cup {t}
      <4>1. PICK i \in 1..Len(e) : e[i] = x
        BY <2>9, Members
      <4> QED
        <5>1. x = t \/ \E j \in 1..Len(q) : q[j] = x
          BY <4>1, <1>0, <2>1, <2>9, <2>10
        <5> QED
          BY <5>1, <1>0, Members
    <3>2. ASSUME NEW x \in ToSet(q) PROVE x \in ToSet(e)
      <4>1. PICK i \in 1..Len(q) : q[i] = x
        BY <1>0, Members
      <4>2. i \in 1..Len(e) /\ i + 1 \in 1..Len(e)
        BY <1>0, <2>9
      <4>3. e[i] = x \/ e[i + 1] = x
        BY <4>1, <4>2, <1>0, <2>1, <2>9, <2>10
      <4> QED
        BY <4>2, <4>3, <2>9, Members
    <3>3. t \in ToSet(e)
      BY <1>0, <2>1, <2>9, <2>10, Members
    <3> QED
      BY <3>1, <3>2, <3>3
  <2>12. \A i \in 1..Len(q) : q[i] # t
    BY <1>0, Members
  <2>13. \A i, j \in 1..Len(q) : q[i] = q[j] => i = j
    BY <1>0, Members DEF Queued
  <2>14. ASSUME NEW i \in 1..Len(e), NEW j \in 1..Len(e), e[i] = e[j] PROVE i = j
    <3> DEFINE old(n) == IF n < k THEN n ELSE n - 1
    <3>1. \A n \in 1..Len(e) : n # k => old(n) \in 1..Len(q) /\ e[n] = q[old(n)]
      BY <1>0, <2>1, <2>9, <2>10
    <3>2. e[k] = t
      BY <1>0, <2>1, <2>9, <2>10
    <3>3. i = k <=> j = k
      BY <2>14, <2>12, <3>1, <3>2
    <3>4. i # k /\ j # k => old(i) = old(j)
      BY <2>14, <2>13, <3>1
    <3> QED
      BY <3>3, <3>4, <2>1, <2>9, <1>0
  <2> QED
    <3>1. \A i, j \in 1..Len(e) : e[i] = e[j] => i = j
      BY <2>14
    <3> QED
      BY <2>9, <2>11, <3>1, Members DEF Queued, e
<1> QED
  BY <1>1, <1>2

(* cancelTask takes the task out of the queue.                             *)
LEMMA RemovedProperties ==
  ASSUME NEW q, Queued(q), NEW k \in 1..Len(q)
  PROVE  /\ Queued(RemoveAt(q, k))
         /\ ToSet(RemoveAt(q, k)) = ToSet(q) \ {q[k]}
<1> DEFINE e == RemoveAt(q, k)
           a == SubSeq(q, 1, k - 1)
           b == SubSeq(q, k + 1, Len(q))
<1>1. q \in Seq(Tasks) /\ Len(q) \in Nat
  BY LenProperties DEF Queued
<1>2. a \in Seq(Tasks) /\ Len(a) = k - 1 /\ \A i \in 1..k - 1 : a[i] = q[i]
  BY <1>1
<1>3. b \in Seq(Tasks) /\ Len(b) = Len(q) - k /\ \A i \in 1..Len(b) : b[i] = q[k + i]
  BY <1>1
<1>4. e = a \o b
  BY DEF RemoveAt
<1> HIDE DEF a, b, e
<1>5. e \in Seq(Tasks) /\ Len(e) = Len(q) - 1
      /\ \A i \in 1..Len(q) - 1 : e[i] = IF i <= k - 1 THEN a[i] ELSE b[i - (k - 1)]
  <2>1. (a \o b) \in Seq(Tasks) /\ Len(a \o b) = Len(a) + Len(b)
        /\ \A i \in 1..Len(a) + Len(b) : (a \o b)[i] = IF i <= Len(a) THEN a[i] ELSE b[i - Len(a)]
    BY <1>2, <1>3, ConcatProperties
  <2>2. Len(a) = k - 1 /\ Len(a) + Len(b) = Len(q) - 1
    BY <1>1, <1>2, <1>3
  <2> QED
    BY <1>4, <2>1, <2>2
<1>6. \A i \in 1..Len(q) - 1 : e[i] = IF i < k THEN q[i] ELSE q[i + 1]
  <2> SUFFICES ASSUME NEW i \in 1..Len(q) - 1
               PROVE  e[i] = IF i < k THEN q[i] ELSE q[i + 1]
    OBVIOUS
  <2>1. CASE i < k
    BY <1>1, <1>2, <1>5, <2>1
  <2>2. CASE i >= k
    <3>1. i - (k - 1) \in 1..Len(b) /\ k + (i - (k - 1)) = i + 1
      BY <1>1, <1>3, <2>2
    <3>2. b[i - (k - 1)] = q[i + 1]
      BY <1>3, <3>1
    <3> QED
      BY <1>1, <1>5, <2>2, <3>2
  <2> QED
    BY <1>1, <2>1, <2>2
<1>7. \A i, j \in 1..Len(q) : q[i] = q[j] => i = j
  BY <1>1, Members DEF Queued
<1>8. \A i, j \in 1..Len(e) : e[i] = e[j] => i = j
  <2> SUFFICES ASSUME NEW i \in 1..Len(e), NEW j \in 1..Len(e), e[i] = e[j]
               PROVE  i = j
    OBVIOUS
  <2>1. /\ i \in 1..Len(q) - 1 /\ j \in 1..Len(q) - 1
        /\ k \in Nat
    BY <1>1, <1>5
  <2>2. PICK x \in 1..Len(q), y \in 1..Len(q) :
          /\ x = (IF i < k THEN i ELSE i + 1) /\ y = (IF j < k THEN j ELSE j + 1)
    BY <1>1, <2>1
  <2>3. q[x] = q[y]
    BY <1>6, <2>1, <2>2
  <2>4. x = y
    BY <1>7, <2>3
  <2> QED
    BY <2>1, <2>2, <2>4
<1>9. ASSUME NEW x \in ToSet(e) PROVE x \in ToSet(q) \ {q[k]}
  <2>1. PICK i \in 1..Len(e) : e[i] = x
    BY <1>5, Members
  <2>2. PICK j \in 1..Len(q) : j # k /\ q[j] = x
    BY <2>1, <1>1, <1>5, <1>6
  <2> QED
    BY <2>2, <1>1, <1>7, Members
<1>10. ASSUME NEW x \in ToSet(q) \ {q[k]} PROVE x \in ToSet(e)
  <2>1. PICK i \in 1..Len(q) : q[i] = x
    BY <1>1, Members
  <2>2. i # k
    BY <2>1
  <2>3. \E j \in 1..Len(e) : e[j] = x
    <3>1. CASE i < k
      BY <3>1, <2>1, <1>1, <1>5, <1>6
    <3>2. CASE i > k
      <4>1. i - 1 \in 1..Len(e) /\ e[i - 1] = x
        BY <3>2, <2>1, <1>1, <1>5, <1>6
      <4> QED
        BY <4>1
    <3> QED
      BY <3>1, <3>2, <2>2
  <2> QED
    BY <2>3, <1>5, Members
<1> QED
  BY <1>5, <1>8, <1>9, <1>10, Members DEF Queued, e
-----------------------------------------------------------------------------
(* processNext                                                             *)

(* It starts at most one task, and only with a slot left; the tasks before *)
(* it end for want of a processor.                                         *)
Effect(run, race, q, st, ends, starts, fails) ==
  /\ starts \subseteq ToSet(q) /\ fails \subseteq ToSet(q) /\ starts \cap fails = {}
  /\ starts = {} \/ (Cardinality(run) < MaxConcurrent /\ \E s : starts = {s})
  /\ Queued(queue') /\ ToSet(queue') = ToSet(q) \ (starts \cup fails)
  /\ runningTasks' = run \cup starts
  /\ racing' = race \cup starts
  /\ status' = [t \in Tasks |-> IF t \in starts THEN "running"
                                ELSE IF t \in fails THEN "failed" ELSE st[t]]
  /\ told' = Called(ends \cup fails)

LEMMA ProcessNextEffect ==
  ASSUME NEW run, NEW race, NEW q, NEW st, NEW ends, Queued(q),
         ProcessNext(run, race, q, st, ends)
  PROVE  \E starts, fails : Effect(run, race, q, st, ends, starts, fails)
<1> DEFINE n == Taken(run, q)
           has == {i \in 1..Len(q) : Supports(q[i])}
           taken == {q[i] : i \in 1..n}
           starts == {t \in taken : Supports(t)}
           fails == taken \ starts
<1>1. q \in Seq(Tasks) /\ Len(q) \in Nat
  BY LenProperties DEF Queued
<1>2. n \in 0..Len(q) /\ \A i \in 1..n - 1 : ~Supports(q[i])
  <2>1. CASE ~MayStart(run, q)
    BY <1>1, <2>1 DEF Taken
  <2>2. CASE MayStart(run, q) /\ has = {}
    BY <1>1, <2>2 DEF Taken
  <2>3. CASE MayStart(run, q) /\ has # {}
    <3>1. \E i \in has : \A j \in has : i <= j
      <4>1. has \in SUBSET Nat
        BY <1>1
      <4> QED
        BY <2>3, <4>1, Least
    <3>2. n = CHOOSE i \in has : \A j \in has : i <= j
      BY <2>3 DEF Taken
    <3>3. n \in has /\ \A j \in has : n <= j
      BY <3>1, <3>2
    <3> HIDE DEF n
    <3> QED
      BY <1>1, <3>3
  <2> QED
    BY <2>1, <2>2, <2>3
<1>3. n # 0 => Cardinality(run) < MaxConcurrent
  BY DEF Taken, MayStart
<1>4. /\ queue' = SubSeq(q, n + 1, Len(q))
      /\ runningTasks' = run \cup starts
      /\ racing' = race \cup starts
      /\ status' = [t \in Tasks |-> IF t \in starts THEN "running"
                                    ELSE IF t \in taken THEN "failed" ELSE st[t]]
      /\ told' = Called(ends \cup fails)
  BY DEF ProcessNext
<1> HIDE DEF n
<1>5. /\ queue' \in Seq(Tasks) /\ Len(queue') = Len(q) - n
      /\ \A i \in 1..Len(q) - n : queue'[i] = q[n + i]
  <2>1. \A i \in n + 1..Len(q) : q[i] \in Tasks
    BY <1>1, <1>2
  <2>2. /\ SubSeq(q, n + 1, Len(q)) \in Seq(Tasks)
        /\ Len(SubSeq(q, n + 1, Len(q))) = IF n + 1 <= Len(q) THEN Len(q) - (n + 1) + 1 ELSE 0
        /\ \A i \in 1..Len(q) - (n + 1) + 1 : SubSeq(q, n + 1, Len(q))[i] = q[n + 1 + i - 1]
    BY <1>1, <1>2, <2>1, SubSeqProperties
  <2> QED
    BY <1>1, <1>2, <1>4, <2>2
<1>6. \A i, j \in 1..Len(q) : q[i] = q[j] => i = j
  BY <1>1, Members DEF Queued
<1>7. Queued(queue')
  <2>1. \A i, j \in 1..Len(queue') : queue'[i] = queue'[j] => i = j
    BY <1>1, <1>2, <1>5, <1>6
  <2> QED
    BY <1>5, <2>1, Members DEF Queued
<1>8. ToSet(queue') = ToSet(q) \ taken
  <2>1. ASSUME NEW x \in ToSet(queue') PROVE x \in ToSet(q) \ taken
    <3>1. PICK i \in 1..Len(queue') : queue'[i] = x
      BY <1>5, Members
    <3>2. n + i \in 1..Len(q) /\ q[n + i] = x
      BY <3>1, <1>1, <1>2, <1>5
    <3>3. x \notin taken
      BY <3>1, <3>2, <1>1, <1>2, <1>5, <1>6
    <3> QED
      BY <3>2, <3>3, <1>1, Members
  <2>2. ASSUME NEW x \in ToSet(q), x \notin taken PROVE x \in ToSet(queue')
    <3>1. PICK i \in 1..Len(q) : q[i] = x
      BY <1>1, Members
    <3>2. i > n
      BY <1>1, <1>2, <2>2, <3>1
    <3>3. i - n \in 1..Len(queue') /\ queue'[i - n] = x
      BY <3>1, <3>2, <1>1, <1>2, <1>5
    <3> QED
      BY <3>3, <1>5, Members
  <2> QED
    BY <2>1, <2>2
<1>9. taken \subseteq ToSet(q)
  BY <1>1, <1>2, Members
<1>10. starts = {} \/ (Cardinality(run) < MaxConcurrent /\ \E s : starts = {s})
  <2>1. ASSUME NEW s \in starts PROVE n # 0 /\ s = q[n]
    BY <2>1, <1>1, <1>2
  <2> QED
    BY <2>1, <1>3
<1>11. status' = [t \in Tasks |-> IF t \in starts THEN "running"
                                 ELSE IF t \in fails THEN "failed" ELSE st[t]]
  BY <1>4
<1>12. /\ starts \subseteq ToSet(q) /\ fails \subseteq ToSet(q) /\ starts \cap fails = {}
       /\ starts \cup fails = taken
  BY <1>9
<1> HIDE DEF taken, starts, fails
<1>13. Effect(run, race, q, st, ends, starts, fails)
  BY <1>4, <1>7, <1>8, <1>10, <1>11, <1>12 DEF Effect
<1> QED
  BY <1>13

(* A callback is called once.                                              *)
LEMMA CalledEffect ==
  ASSUME NEW st, NEW st2, NEW ends \in SUBSET Tasks, told \in [Tasks -> Nat],
         Notified(told, st, {}),
         \A t \in ends : ~Ended(st[t]) /\ Ended(st2[t]),
         \A t \in Tasks \ ends : Ended(st2[t]) <=> Ended(st[t])
  PROVE  Called(ends) \in [Tasks -> Nat] /\ Notified(Called(ends), st2, {})
  BY DEF Notified, Called

(* What holds after a call of processNext, with these retry timers.        *)
AfterNext(timers) ==
  /\ Queued(queue')
  /\ runningTasks' \subseteq racing' /\ racing' \subseteq Tasks
  /\ IsFiniteSet(runningTasks') /\ Cardinality(runningTasks') <= MaxConcurrent
  /\ ~forced => runningTasks' = racing'
  /\ Placed(queue', racing', timers, status', lost)
  /\ status' \in [Tasks -> Statuses]
  /\ told' \in [Tasks -> Nat] /\ Notified(told', status', {})
  /\ \A t \in lost : status'[t] # "none"

(* The places it is given may be those of the state before, or differ by   *)
(* the task that is added, has ended or waits again.                       *)
LEMMA ProcessNextKeeps ==
  ASSUME NEW run, NEW race, NEW q, NEW st, NEW ends \in SUBSET Tasks, NEW timers,
         ProcessNext(run, race, q, st, ends),
         QueueAssumption, Queued(q), Slots(run, race), Placed(q, race, timers, st, lost),
         st \in [Tasks -> Statuses], told \in [Tasks -> Nat], Notified(told, status, {}),
         \A t \in Tasks : Ended(st[t]) <=> Ended(status[t]) \/ t \in ends,
         \A t \in ends : ~Ended(status[t]), 
         lost \subseteq Tasks, LostKnown, \A t \in Tasks : status[t] # "none" => st[t] # "none"
  PROVE  AfterNext(timers)
<1>1. PICK starts, fails : Effect(run, race, q, st, ends, starts, fails)
  BY ProcessNextEffect
<1>2. /\ starts \subseteq ToSet(q) /\ fails \subseteq ToSet(q) /\ starts \cap fails = {}
      /\ starts = {} \/ (Cardinality(run) < MaxConcurrent /\ \E s : starts = {s})
      /\ Queued(queue') /\ ToSet(queue') = ToSet(q) \ (starts \cup fails)
      /\ runningTasks' = run \cup starts
      /\ racing' = race \cup starts
      /\ status' = [t \in Tasks |-> IF t \in starts THEN "running"
                                    ELSE IF t \in fails THEN "failed" ELSE st[t]]
      /\ told' = Called(ends \cup fails)
  BY <1>1 DEF Effect
<1>3. q \in Seq(Tasks) /\ ToSet(q) \subseteq Tasks
  BY Members DEF Queued
<1>4. IsFiniteSet(runningTasks') /\ Cardinality(runningTasks') <= MaxConcurrent
  <2>1. CASE starts = {}
    BY <1>2, <2>1 DEF Slots
  <2>2. CASE starts # {}
    <3>1. PICK s : starts = {s}
      BY <1>2, <2>2
    <3>2. IsFiniteSet(run) /\ Cardinality(run) \in Nat
      BY FS_CardinalityType DEF Slots
    <3>3. IsFiniteSet(run \cup {s})
          /\ Cardinality(run \cup {s}) = IF s \in run THEN Cardinality(run) ELSE Cardinality(run) + 1
      BY <3>2, FS_AddElement
    <3>4. Cardinality(run) + 1 <= MaxConcurrent /\ Cardinality(run) <= MaxConcurrent
      BY <1>2, <2>2, <3>2 DEF QueueAssumption
    <3> QED
      BY <1>2, <3>1, <3>3, <3>4
  <2> QED
    BY <2>1, <2>2
<1>5. runningTasks' \subseteq racing' /\ racing' \subseteq Tasks
  BY <1>2, <1>3 DEF Slots
<1>6. ~forced => runningTasks' = racing'
  BY <1>2 DEF Slots
<1>7. status' \in [Tasks -> Statuses]
  BY <1>2 DEF Statuses
<1>8. \A t \in Tasks : status'[t] = IF t \in starts THEN "running"
                                    ELSE IF t \in fails THEN "failed" ELSE st[t]
  BY <1>2
<1>9. \A t \in ToSet(q) : st[t] \in {"pending", "running"} /\ t \notin lost
  BY DEF Placed, Held
<1>10. Placed(queue', racing', timers, status', lost)
  BY <1>2, <1>3, <1>8, <1>9 DEF Placed, Held
<1>11. told' \in [Tasks -> Nat] /\ Notified(told', status', {})
  <2>1. ends \cup fails \in SUBSET Tasks
    BY <1>2, <1>3
  <2>2. \A t \in fails : ~Ended(status[t]) /\ Ended(status'[t])
    BY <1>2, <1>3, <1>8, <1>9 DEF Ended
  <2>3. \A t \in ends : Ended(status'[t])
    BY <1>2, <1>3, <1>8, <1>9 DEF Ended
  <2>4. \A t \in Tasks \ (ends \cup fails) : Ended(status'[t]) <=> Ended(status[t])
    BY <1>2, <1>3, <1>8, <1>9 DEF Ended
  <2> QED
    BY <1>2, <2>1, <2>2, <2>3, <2>4, CalledEffect
<1>12. \A t \in lost : status'[t] # "none"
  BY <1>2, <1>3, <1>8, <1>9 DEF LostKnown
<1> QED
  BY <1>2, <1>4, <1>5, <1>6, <1>7, <1>10, <1>11, <1>12 DEF AfterNext
-----------------------------------------------------------------------------
(* Each action keeps the invariant                                         *)

(* The variables that have their own values.                               *)
Simple ==
  /\ isRunning \in BOOLEAN /\ processor \in BOOLEAN /\ forced \in BOOLEAN
  /\ stopper \in {"none", "polls"}
  /\ retryTimers \subseteq Tasks /\ wiped \subseteq Tasks /\ lost \subseteq Tasks
  /\ retries \in [Tasks -> Nat] /\ \A t \in Tasks : retries[t] <= Attributes[t].maxRetries
  /\ created \in [Tasks -> 0..MaxClock] /\ clock \in 0..MaxClock
  /\ left \subseteq Tasks \X Nat /\ stops \in 0..MaxStops

LEMMA Parts ==
  IInv <=> /\ Simple /\ Queued(queue) /\ status \in [Tasks -> Statuses] /\ told \in [Tasks -> Nat]
           /\ LostKnown /\ Placed(queue, racing, retryTimers, status, lost)
           /\ Slots(runningTasks, racing) /\ Notified(told, status, {})
  BY DEF IInv, TypeOK, Simple, Queued, Slots

LEMMA NextParts ==
  ASSUME Simple', UNCHANGED <<forced, lost, wiped>>, AfterNext(retryTimers')
  PROVE  IInv'
<1>1. /\ Queued(queue)' /\ (status \in [Tasks -> Statuses])' /\ (told \in [Tasks -> Nat])'
      /\ LostKnown' /\ Placed(queue, racing, retryTimers, status, lost)'
      /\ Slots(runningTasks, racing)' /\ Notified(told, status, {})'
  BY DEF AfterNext, Queued, LostKnown, Placed, Held, Slots, Notified
<1> QED
  BY <1>1, Parts, PTL

LEMMA AddTaskStep ==
  ASSUME IInv, QueueAssumption, NEW t \in Tasks, AddTask(t)
  PROVE  IInv'
<1> DEFINE q == Enqueued(queue, t, created')
           st == [status EXCEPT ![t] = "pending"]
<1>1. /\ Simple /\ Queued(queue) /\ status \in [Tasks -> Statuses] /\ told \in [Tasks -> Nat]
      /\ LostKnown /\ Placed(queue, racing, retryTimers, status, lost)
      /\ Slots(runningTasks, racing) /\ Notified(told, status, {})
  BY Parts
<1>2. t \notin ToSet(queue) /\ t \notin racing /\ t \notin retryTimers /\ t \notin lost
  BY <1>1 DEF AddTask, Placed, Held, LostKnown
<1>3. Queued(q) /\ ToSet(q) = ToSet(queue) \cup {t}
  BY <1>1, <1>2, EnqueuedProperties
<1>4. Placed(q, racing, retryTimers, st, lost)
  BY <1>1, <1>2, <1>3 DEF Placed, Held
<1>5. ProcessNext(runningTasks, racing, q, st, {})
  BY DEF AddTask
<1>6. /\ st \in [Tasks -> Statuses]
      /\ \A u \in Tasks : Ended(st[u]) <=> Ended(status[u]) \/ u \in {}
      /\ \A u \in Tasks : status[u] # "none" => st[u] # "none"
  BY <1>1 DEF AddTask, Statuses, Ended
<1> HIDE DEF q, st
<1>7. lost \subseteq Tasks
  BY <1>1 DEF Simple
<1>8. AfterNext(retryTimers)
  BY <1>1, <1>3, <1>4, <1>5, <1>6, <1>7, ProcessNextKeeps
<1>9. Simple'
  BY <1>1 DEF AddTask, Simple, ghosts
<1>10. UNCHANGED <<retryTimers, forced, lost, wiped>>
  BY DEF AddTask, ghosts
<1> QED
  BY <1>8, <1>9, <1>10, NextParts
(* The slot of a race that has settled is free.                            *)
LEMMA SlotFreed ==
  ASSUME QueueAssumption, NEW run, NEW race, Slots(run, race), NEW t
  PROVE  Slots(run \ {t}, race \ {t})
<1>1. IsFiniteSet(run \ {t}) /\ Cardinality(run \ {t}) <= Cardinality(run)
  BY FS_Subset DEF Slots
<1>2. Cardinality(run) \in Nat /\ Cardinality(run \ {t}) \in Nat
  BY <1>1, FS_CardinalityType DEF Slots
<1>3. Cardinality(run \ {t}) <= MaxConcurrent
  BY <1>1, <1>2 DEF Slots, QueueAssumption
<1> QED
  BY <1>1, <1>3 DEF Slots

(* The end of a race: the task has ended.                                  *)
LEMMA CompletesKeeps ==
  ASSUME IInv, QueueAssumption, NEW t \in racing, NEW s, s \in {"completed", "failed"},
         Completes(t, s)
  PROVE  AfterNext(retryTimers')
<1> DEFINE st == [status EXCEPT ![t] = s]
<1>1. /\ Simple /\ Queued(queue) /\ status \in [Tasks -> Statuses] /\ told \in [Tasks -> Nat]
      /\ LostKnown /\ Placed(queue, racing, retryTimers, status, lost)
      /\ Slots(runningTasks, racing) /\ Notified(told, status, {})
  BY Parts
<1>2. /\ t \in Tasks /\ t \notin ToSet(queue) /\ t \notin retryTimers
      /\ status[t] \in {"pending", "running"}
  BY <1>1 DEF Placed, Held
<1>3. Slots(runningTasks \ {t}, racing \ {t})
  BY <1>1, SlotFreed
<1>4. Placed(queue, racing \ {t}, retryTimers, st, lost)
  BY <1>1, <1>2 DEF Placed, Held
<1>5. /\ st \in [Tasks -> Statuses]
      /\ \A u \in Tasks : Ended(st[u]) <=> Ended(status[u]) \/ u \in {t}
      /\ \A u \in {t} : ~Ended(status[u])
      /\ \A u \in Tasks : status[u] # "none" => st[u] # "none"
  BY <1>1, <1>2 DEF Statuses, Ended
<1>6. ProcessNext(runningTasks \ {t}, racing \ {t}, queue, st, {t}) /\ UNCHANGED retryTimers
  BY DEF Completes
<1>7. lost \subseteq Tasks /\ {t} \in SUBSET Tasks
  BY <1>1, <1>2 DEF Simple
<1> HIDE DEF st
<1>8. AfterNext(retryTimers)
  BY <1>1, <1>3, <1>4, <1>5, <1>6, <1>7, ProcessNextKeeps
<1> QED
  BY <1>6, <1>8

(* Or it waits for its retry, without a slot.                              *)
LEMMA RejectedKeeps ==
  ASSUME IInv, QueueAssumption, NEW t \in racing, Rejected(t)
  PROVE  /\ AfterNext(retryTimers') /\ UNCHANGED isRunning /\ retryTimers' \subseteq Tasks
         /\ retries' \in [Tasks -> Nat] /\ \A u \in Tasks : retries'[u] <= Attributes[u].maxRetries
<1> DEFINE st == [status EXCEPT ![t] = "pending"]
<1>1. /\ Simple /\ Queued(queue) /\ status \in [Tasks -> Statuses] /\ told \in [Tasks -> Nat]
      /\ LostKnown /\ Placed(queue, racing, retryTimers, status, lost)
      /\ Slots(runningTasks, racing) /\ Notified(told, status, {})
  BY Parts
<1>2. /\ t \in Tasks /\ t \notin ToSet(queue) /\ t \notin retryTimers /\ t \notin lost
      /\ status[t] \in {"pending", "running"}
  BY <1>1 DEF Placed, Held
<1>3. CASE retries[t] < Attributes[t].maxRetries /\ isRunning
  <2>1. /\ retries' = [retries EXCEPT ![t] = @ + 1] /\ retryTimers' = retryTimers \cup {t}
        /\ UNCHANGED isRunning
        /\ ProcessNext(runningTasks \ {t}, racing \ {t}, queue, st, {})
    BY <1>3 DEF Rejected
  <2>2. Slots(runningTasks \ {t}, racing \ {t})
    BY <1>1, SlotFreed
  <2>3. Placed(queue, racing \ {t}, retryTimers \cup {t}, st, lost)
    BY <1>1, <1>2 DEF Placed, Held
  <2>4. /\ st \in [Tasks -> Statuses]
        /\ \A u \in Tasks : Ended(st[u]) <=> Ended(status[u]) \/ u \in {}
        /\ \A u \in Tasks : status[u] # "none" => st[u] # "none"
    BY <1>1, <1>2 DEF Statuses, Ended
  <2>5. retries' \in [Tasks -> Nat] /\ \A u \in Tasks : retries'[u] <= Attributes[u].maxRetries
    <3>1. \A u \in Tasks : Attributes[u].maxRetries \in Nat
      BY DEF QueueAssumption
    <3> QED
      BY <1>1, <1>2, <1>3, <2>1, <3>1 DEF Simple
  <2>6. lost \subseteq Tasks /\ retryTimers' \subseteq Tasks
    BY <1>1, <1>2, <2>1 DEF Simple
  <2> HIDE DEF st
  <2>7. AfterNext(retryTimers \cup {t})
    BY <1>1, <2>1, <2>2, <2>3, <2>4, <2>6, ProcessNextKeeps
  <2> QED
    BY <2>1, <2>5, <2>6, <2>7
<1>4. CASE ~(retries[t] < Attributes[t].maxRetries /\ isRunning)
  <2>1. Completes(t, "failed")
    BY <1>4 DEF Rejected
  <2> QED
    BY <2>1, <1>1, CompletesKeeps DEF Completes, Simple
<1> QED
  BY <1>3, <1>4

LEMMA SettlesStep ==
  ASSUME IInv, QueueAssumption, NEW t \in Tasks, Settles(t)
  PROVE  IInv'
<1>1. Simple
  BY Parts
<1>2. CASE Succeeds(t)
  <2>1. AfterNext(retryTimers')
    BY <1>2, CompletesKeeps DEF Succeeds
  <2>2. Simple' /\ UNCHANGED <<forced, lost, wiped>>
    BY <1>1, <1>2 DEF Succeeds, Completes, Simple, ghosts
  <2> QED
    BY <2>1, <2>2, NextParts
<1>3. CASE Fails(t)
  <2>1. /\ AfterNext(retryTimers') /\ UNCHANGED isRunning /\ retryTimers' \subseteq Tasks
        /\ retries' \in [Tasks -> Nat] /\ \A u \in Tasks : retries'[u] <= Attributes[u].maxRetries
    BY <1>3, RejectedKeeps DEF Fails
  <2>2. Simple' /\ UNCHANGED <<forced, lost, wiped>>
    BY <1>1, <1>3, <2>1 DEF Fails, Simple, ghosts
  <2> QED
    BY <2>1, <2>2, NextParts
<1>4. CASE TimesOut(t)
  <2>1. /\ AfterNext(retryTimers') /\ UNCHANGED isRunning /\ retryTimers' \subseteq Tasks
        /\ retries' \in [Tasks -> Nat] /\ \A u \in Tasks : retries'[u] <= Attributes[u].maxRetries
    BY <1>4, RejectedKeeps DEF TimesOut
  <2>2. Simple' /\ UNCHANGED <<forced, lost, wiped>>
    <3>1. left' \subseteq Tasks \X Nat
      BY <1>1, <1>4 DEF TimesOut, Simple
    <3> QED
      BY <1>1, <1>4, <2>1, <3>1 DEF TimesOut, Simple, ghosts
  <2> QED
    BY <2>1, <2>2, NextParts
<1> QED
  BY <1>2, <1>3, <1>4 DEF Settles

LEMMA RetriesStep ==
  ASSUME IInv, QueueAssumption, NEW t \in Tasks, Retries(t)
  PROVE  IInv'
<1> DEFINE q == Enqueued(queue, t, created)
<1>1. /\ Simple /\ Queued(queue) /\ status \in [Tasks -> Statuses] /\ told \in [Tasks -> Nat]
      /\ LostKnown /\ Placed(queue, racing, retryTimers, status, lost)
      /\ Slots(runningTasks, racing) /\ Notified(told, status, {})
  BY Parts
<1>2. t \notin ToSet(queue) /\ t \notin racing /\ t \in retryTimers
  BY <1>1 DEF Retries, Placed
<1>3. Queued(q) /\ ToSet(q) = ToSet(queue) \cup {t}
  BY <1>1, <1>2, EnqueuedProperties
<1>4. Placed(q, racing, retryTimers \ {t}, status, lost)
  BY <1>1, <1>2, <1>3 DEF Placed
<1>5. ProcessNext(runningTasks, racing, q, status, {}) /\ retryTimers' = retryTimers \ {t}
  BY DEF Retries
<1> HIDE DEF q
<1>6. lost \subseteq Tasks
  BY <1>1 DEF Simple
<1>7. AfterNext(retryTimers \ {t})
  BY <1>1, <1>3, <1>4, <1>5, <1>6, ProcessNextKeeps
<1>8. Simple' /\ UNCHANGED <<forced, lost, wiped>>
  BY <1>1 DEF Retries, Simple, ghosts
<1> QED
  BY <1>5, <1>7, <1>8, NextParts

LEMMA StartStep ==
  ASSUME IInv, QueueAssumption, Start
  PROVE  IInv'
<1>1. /\ Simple /\ Queued(queue) /\ status \in [Tasks -> Statuses] /\ told \in [Tasks -> Nat]
      /\ LostKnown /\ Placed(queue, racing, retryTimers, status, lost)
      /\ Slots(runningTasks, racing) /\ Notified(told, status, {})
  BY Parts
<1>2. ProcessNext(runningTasks, racing, queue, status, {}) /\ UNCHANGED retryTimers
  BY DEF Start
<1>3. lost \subseteq Tasks
  BY <1>1 DEF Simple
<1>4. AfterNext(retryTimers)
  BY <1>1, <1>2, <1>3, ProcessNextKeeps
<1>5. Simple' /\ UNCHANGED <<forced, lost, wiped>>
  BY <1>1 DEF Start, Simple, ghosts
<1> QED
  BY <1>2, <1>4, <1>5, NextParts
(* A poll of stop that ends well, a late answer and a new processor.       *)
LEMMA QuietStep ==
  ASSUME IInv, StopReturns \/ AddProcessor \/ \E l \in left : LeftEnds(l)
  PROVE  IInv'
<1>1. /\ Simple /\ Queued(queue) /\ status \in [Tasks -> Statuses] /\ told \in [Tasks -> Nat]
      /\ LostKnown /\ Placed(queue, racing, retryTimers, status, lost)
      /\ Slots(runningTasks, racing) /\ Notified(told, status, {})
  BY Parts
<1>2. UNCHANGED <<queue, runningTasks, racing, retryTimers, status, told, wiped, lost, forced>>
  BY DEF StopReturns, AddProcessor, LeftEnds, places, ghosts
<1>3. Simple'
  BY <1>1 DEF Simple, StopReturns, AddProcessor, LeftEnds, places, ghosts
<1>4. /\ Queued(queue)' /\ (status \in [Tasks -> Statuses])' /\ (told \in [Tasks -> Nat])'
      /\ LostKnown' /\ Placed(queue, racing, retryTimers, status, lost)'
      /\ Slots(runningTasks, racing)' /\ Notified(told, status, {})'
  BY <1>1, <1>2 DEF Queued, LostKnown, Placed, Held, Slots, Notified
<1> QED
  BY <1>3, <1>4, Parts, PTL

(* No slot is taken, after a stop that was forced.                         *)
LEMMA Forgotten ==
  ASSUME QueueAssumption, ForgetRunning, Slots(runningTasks, racing), UNCHANGED racing
  PROVE  Slots(runningTasks, racing)'
<1>1. IsFiniteSet({}) /\ Cardinality({}) = 0
  BY FS_EmptySet
<1>2. 0 <= MaxConcurrent
  BY DEF QueueAssumption
<1> QED
  BY <1>1, <1>2 DEF ForgetRunning, Slots

(* What stop, clear and cleanup drop is lost to the queue.                 *)
LEMMA StopsStep ==
  ASSUME IInv, QueueAssumption, Stop \/ StopTimesOut \/ StopForced
  PROVE  IInv'
<1>1. /\ Simple /\ Queued(queue) /\ status \in [Tasks -> Statuses] /\ told \in [Tasks -> Nat]
      /\ LostKnown /\ Placed(queue, racing, retryTimers, status, lost)
      /\ Slots(runningTasks, racing) /\ Notified(told, status, {})
  BY Parts
<1>2. UNCHANGED <<queue, racing, status, told, wiped>>
  BY DEF Stop, StopTimesOut, StopForced
<1>3. \/ UNCHANGED <<retryTimers, lost>>
      \/ retryTimers' = {} /\ lost' = lost \cup retryTimers
  BY DEF Stop, StopTimesOut, StopForced, Halt
<1>4. Simple'
  <2>1. forced' \in BOOLEAN
    BY <1>1 DEF Simple, Stop, StopTimesOut, StopForced, ForgetRunning
  <2>2. stops' \in 0..MaxStops
    BY <1>1 DEF Simple, Stop, StopTimesOut, StopForced, Halt, QueueAssumption
  <2> QED
    BY <1>1, <1>3, <2>1, <2>2 DEF Simple, Stop, StopTimesOut, StopForced, Halt
<1>5. Slots(runningTasks, racing)'
  <2>1. CASE Stop
    BY <1>1, <2>1 DEF Stop, Slots
  <2>2. CASE StopTimesOut \/ StopForced
    BY <1>1, <1>2, <2>2, Forgotten DEF StopTimesOut, StopForced
  <2> QED
    BY <2>1, <2>2
<1>6. LostKnown' /\ Placed(queue, racing, retryTimers, status, lost)'
  <2>1. \A t \in retryTimers : status[t] \in {"pending", "running"}
    BY <1>1 DEF Placed, Held
  <2> QED
    BY <1>1, <1>2, <1>3, <2>1 DEF LostKnown, Placed, Held
<1>7. Queued(queue)' /\ (status \in [Tasks -> Statuses])' /\ (told \in [Tasks -> Nat])'
      /\ Notified(told, status, {})'
  BY <1>1, <1>2 DEF Queued, Notified
<1> QED
  BY <1>4, <1>5, <1>6, <1>7, Parts, PTL

LEMMA EmptyQueue == Queued(<<>>) /\ ToSet(<<>>) = {}
<1>1. <<>> \in Seq(Tasks) /\ Len(<<>>) = 0
  BY EmptySeq
<1> SUFFICES ASSUME NEW q, q \in Seq(Tasks), Len(q) = 0
             PROVE  Queued(q) /\ ToSet(q) = {}
  BY <1>1
<1>2. IsInjective(q) /\ \A t : t \notin ToSet(q)
  <2>1. \A i \in 1..Len(q) : FALSE
    OBVIOUS
  <2> QED
    BY <2>1, Members, Zenon
<1> QED
  BY <1>2 DEF Queued

LEMMA CleanupStep ==
  ASSUME IInv, QueueAssumption, Cleanup
  PROVE  IInv'
<1>1. /\ Simple /\ Queued(queue) /\ status \in [Tasks -> Statuses] /\ told \in [Tasks -> Nat]
      /\ LostKnown /\ Placed(queue, racing, retryTimers, status, lost)
      /\ Slots(runningTasks, racing) /\ Notified(told, status, {})
  BY Parts
<1>2. /\ queue' = <<>> /\ retryTimers' = {} /\ UNCHANGED <<racing, status, told>>
      /\ lost' = lost \cup retryTimers \cup ToSet(queue)
      /\ wiped' = {t \in Tasks : status[t] # "none" /\ told[t] = 0} \cup wiped
  BY DEF Cleanup
<1>3. \A t \in ToSet(queue) \cup retryTimers : t \in Tasks /\ status[t] \in {"pending", "running"}
  BY <1>1 DEF Placed, Held
<1>4. Simple'
  <2>1. forced' \in BOOLEAN
    BY <1>1 DEF Simple, Cleanup, ForgetRunning
  <2>2. stops' \in 0..MaxStops
    BY <1>1 DEF Simple, Cleanup, QueueAssumption
  <2> QED
    BY <1>1, <1>2, <1>3, <2>1, <2>2 DEF Simple, Cleanup
<1>5. Slots(runningTasks, racing)'
  BY <1>1, <1>2, Forgotten DEF Cleanup
<1>6. LostKnown' /\ Placed(queue, racing, retryTimers, status, lost)'
  BY <1>1, <1>2, <1>3, EmptyQueue DEF LostKnown, Placed, Held
<1>7. Queued(queue)' /\ (status \in [Tasks -> Statuses])' /\ (told \in [Tasks -> Nat])'
  BY <1>1, <1>2, EmptyQueue
<1>8. Notified(told, status, {})'
  BY <1>1, <1>2 DEF Notified
<1> QED
  BY <1>4, <1>5, <1>6, <1>7, <1>8, Parts, PTL

LEMMA CancelTaskStep ==
  ASSUME IInv, NEW t \in Tasks, CancelTask(t)
  PROVE  IInv'
<1>1. /\ Simple /\ Queued(queue) /\ status \in [Tasks -> Statuses] /\ told \in [Tasks -> Nat]
      /\ LostKnown /\ Placed(queue, racing, retryTimers, status, lost)
      /\ Slots(runningTasks, racing) /\ Notified(told, status, {})
  BY Parts
<1>2. PICK i \in 1..Len(queue) : queue[i] = t /\ queue' = RemoveAt(queue, i)
  BY DEF CancelTask
<1>3. Queued(queue') /\ ToSet(queue') = ToSet(queue) \ {t} /\ t \in ToSet(queue)
  BY <1>1, <1>2, RemovedProperties, Members DEF Queued
<1>4. /\ status' = [status EXCEPT ![t] = "cancelled"] /\ told' = Called({t})
      /\ UNCHANGED <<runningTasks, racing, retryTimers, wiped, lost, forced>>
  BY DEF CancelTask, ghosts
<1>5. status[t] \in {"pending", "running"} /\ t \notin lost
  BY <1>1, <1>3 DEF Placed, Held
<1>6. Simple' /\ Slots(runningTasks, racing)'
  BY <1>1, <1>4 DEF CancelTask, Simple, Slots, ghosts
<1>7. LostKnown' /\ Placed(queue, racing, retryTimers, status, lost)'
  BY <1>1, <1>3, <1>4, <1>5 DEF LostKnown, Placed, Held, Simple
<1>8. status' \in [Tasks -> Statuses]
  BY <1>1, <1>4 DEF Statuses
<1>9. told' \in [Tasks -> Nat] /\ Notified(told', status', {})
  <2>1. \A u \in {t} : ~Ended(status[u]) /\ Ended(status'[u])
    BY <1>1, <1>4, <1>5 DEF Ended
  <2>2. \A u \in Tasks \ {t} : Ended(status'[u]) <=> Ended(status[u])
    BY <1>1, <1>4
  <2> QED
    BY <1>1, <1>4, <2>1, <2>2, CalledEffect
<1>10. Queued(queue)' /\ (status \in [Tasks -> Statuses])' /\ (told \in [Tasks -> Nat])'
       /\ Notified(told, status, {})'
  BY <1>3, <1>4, <1>8, <1>9 DEF Queued, Notified
<1> QED
  BY <1>6, <1>7, <1>10, Parts, PTL

LEMMA ClearStep ==
  ASSUME IInv, QueueAssumption, Clear
  PROVE  IInv'
<1>1. /\ Simple /\ Queued(queue) /\ status \in [Tasks -> Statuses] /\ told \in [Tasks -> Nat]
      /\ LostKnown /\ Placed(queue, racing, retryTimers, status, lost)
      /\ Slots(runningTasks, racing) /\ Notified(told, status, {})
  BY Parts
<1>2. /\ queue' = <<>> /\ retryTimers' = {} /\ lost' = lost \cup retryTimers
      /\ UNCHANGED <<runningTasks, racing, wiped, forced>>
      /\ status' = [t \in Tasks |-> IF t \in ToSet(queue) THEN "cancelled" ELSE status[t]]
      /\ told' = Called(ToSet(queue))
  BY DEF Clear
<1>3. \A t \in ToSet(queue) \cup retryTimers : t \in Tasks /\ status[t] \in {"pending", "running"}
  BY <1>1 DEF Placed, Held
<1>4. Simple'
  BY <1>1, <1>2, <1>3 DEF Simple, Clear, QueueAssumption
<1>5. Slots(runningTasks, racing)'
  BY <1>1, <1>2 DEF Slots
<1>6. LostKnown' /\ Placed(queue, racing, retryTimers, status, lost)'
  BY <1>1, <1>2, <1>3, EmptyQueue DEF LostKnown, Placed, Held, Simple
<1>7. status' \in [Tasks -> Statuses]
  BY <1>1, <1>2 DEF Statuses
<1>8. told' \in [Tasks -> Nat] /\ Notified(told', status', {})
  <2>1. \A t \in ToSet(queue) : ~Ended(status[t]) /\ Ended(status'[t])
    BY <1>2, <1>3 DEF Ended
  <2>2. \A t \in Tasks \ ToSet(queue) : Ended(status'[t]) <=> Ended(status[t])
    BY <1>2
  <2>3. ToSet(queue) \in SUBSET Tasks
    BY <1>3
  <2> QED
    BY <1>1, <1>2, <2>1, <2>2, <2>3, CalledEffect
<1>9. Queued(queue)' /\ (status \in [Tasks -> Statuses])' /\ (told \in [Tasks -> Nat])'
      /\ Notified(told, status, {})'
  BY <1>2, <1>7, <1>8, EmptyQueue DEF Notified
<1> QED
  BY <1>4, <1>5, <1>6, <1>9, Parts, PTL

-----------------------------------------------------------------------------
(* The invariant                                                           *)

LEMMA InitEstablishes == QueueAssumption /\ Init => IInv
<1> SUFFICES ASSUME QueueAssumption, Init PROVE IInv
  OBVIOUS
<1>1. Simple /\ status \in [Tasks -> Statuses] /\ told \in [Tasks -> Nat]
  <2>1. \A t \in Tasks : 0 <= Attributes[t].maxRetries
    BY DEF QueueAssumption
  <2> QED
    <3>1. 0 \in 0..MaxClock /\ 0 \in 0..MaxStops
      BY DEF QueueAssumption
    <3> QED
      BY <2>1, <3>1 DEF Init, Simple, Statuses
<1>2. Queued(queue) /\ ToSet(queue) = {}
  BY EmptyQueue DEF Init
<1>3. LostKnown /\ Placed(queue, racing, retryTimers, status, lost) /\ Notified(told, status, {})
  BY <1>2 DEF Init, LostKnown, Placed, Held, Notified, Ended
<1>4. Slots(runningTasks, racing)
  <2>1. IsFiniteSet({}) /\ Cardinality({}) = 0
    BY FS_EmptySet
  <2> QED
    BY <2>1 DEF Init, Slots, QueueAssumption
<1> QED
  BY <1>1, <1>2, <1>3, <1>4, Parts

LEMMA StepKeeps == QueueAssumption /\ IInv /\ [Next]_vars => IInv'
<1> SUFFICES ASSUME QueueAssumption, IInv, [Next]_vars PROVE IInv'
  OBVIOUS
<1>1. CASE \E t \in Tasks : AddTask(t) \/ Settles(t) \/ Retries(t) \/ CancelTask(t)
  BY <1>1, AddTaskStep, SettlesStep, RetriesStep, CancelTaskStep
<1>2. CASE StopReturns \/ AddProcessor \/ \E l \in left : LeftEnds(l)
  BY <1>2, QuietStep
<1>3. CASE Start
  BY <1>3, StartStep
<1>4. CASE Stop \/ StopTimesOut \/ StopForced
  BY <1>4, StopsStep
<1>5. CASE Cleanup
  BY <1>5, CleanupStep
<1>6. CASE Clear
  BY <1>6, ClearStep
<1>7. CASE UNCHANGED vars
  BY <1>7 DEF vars, places, ghosts, IInv, TypeOK, LostKnown, Placed, Held, Slots, Notified
<1> QED
  BY <1>1, <1>2, <1>3, <1>4, <1>5, <1>6, <1>7 DEF Next

(* The queue, the races and the timers hold the tasks that have not ended, *)
(* each in one of them, whatever the order in which races settle, timers   *)
(* fire and stop, clear, cleanup and cancelTask are called.                *)
THEOREM Invariant == Spec => []IInv
  BY InitEstablishes, StepKeeps, QueueAssumption, PTL DEF Spec

(* The shape of the state of the queue: no task waits in it twice.         *)
THEOREM TypeCorrect == Spec => []TypeOK
<1>1. IInv => TypeOK
  BY DEF IInv
<1> QED
  BY <1>1, Invariant, PTL

(* How many of the three places hold a task.                               *)
Where(t) ==
  {p \in {"queue", "race", "timer"} :
     \/ p = "queue" /\ t \in ToSet(queue)
     \/ p = "race" /\ t \in racing
     \/ p = "timer" /\ t \in retryTimers}

LEMMA Count ==
  ASSUME NEW t, Placed(queue, racing, retryTimers, status, lost)
  PROVE  Cardinality(Where(t)) = IF t \in Held(status, lost) THEN 1 ELSE 0
<1>1. Cardinality({}) = 0 /\ \A x : Cardinality({x}) = 1
  BY FS_EmptySet, FS_Singleton
<1>2. CASE t \in ToSet(queue)
  <2>1. Where(t) = {"queue"}
    BY <1>2 DEF Where, Placed
  <2> QED
    BY <1>1, <1>2, <2>1 DEF Placed
<1>3. CASE t \in racing
  <2>1. Where(t) = {"race"}
    BY <1>3 DEF Where, Placed
  <2> QED
    BY <1>1, <1>3, <2>1 DEF Placed
<1>4. CASE t \in retryTimers
  <2>1. Where(t) = {"timer"}
    BY <1>4 DEF Where, Placed
  <2> QED
    BY <1>1, <1>4, <2>1 DEF Placed
<1>5. CASE t \notin ToSet(queue) \cup racing \cup retryTimers
  <2>1. Where(t) = {}
    BY <1>5 DEF Where
  <2> QED
    BY <1>1, <1>5, <2>1 DEF Placed
<1> QED
  BY <1>2, <1>3, <1>4, <1>5

(* A task that has not ended is in one place, unless it was dropped; each  *)
(* end is told once; a task that waits for its retry holds no slot.        *)
THEOREM ConsistentHolds == Spec => []Consistent
<1>1. ASSUME IInv PROVE Consistent
  <2>1. InOnePlace
    <3>1. ASSUME NEW t \in Tasks
          PROVE  Cardinality(Where(t)) =
                 IF status[t] \in {"pending", "running"} /\ t \notin lost THEN 1 ELSE 0
      BY <1>1, Count DEF IInv, Held
    <3> QED
      BY <3>1 DEF InOnePlace, Where
  <2>2. ToldOnce
    BY <1>1 DEF IInv, Notified, ToldOnce
  <2>3. SlotsAreRaces
    BY <1>1 DEF IInv, Slots, SlotsAreRaces
  <2> QED
    BY <1>1, <2>1, <2>2, <2>3 DEF IInv, Consistent
<1> QED
  BY <1>1, Invariant, PTL
=============================================================================
