--------------------------- MODULE AutoSyncProofs ---------------------------
(***************************************************************************)
(* Proofs about AutoSync, for any number of tables, keys, calls, retries   *)
(* and transactions: its type invariant, that a cleanup which is the only  *)
(* one leaves no sync behind, that a dirty mark is taken away for stored   *)
(* records only, and that no table is written in a transaction.            *)
(*                                                                         *)
(* The invariant says of the sync what its awaits rely on: the batch it    *)
(* holds is of one table, the base it merges the batch into has the        *)
(* records of the full snapshots of the batch, and a sync that writes      *)
(* keeps transactions out; and of a cleanup that it has shut the service   *)
(* down and is among those that wait for the sync that still runs.         *)
(***************************************************************************)
EXTENDS AutoSync, WellFoundedInduction, TLAPS

-----------------------------------------------------------------------------
(* Sequences of entries                                                    *)

(* Induction up to N, for a set of numbers.                                *)
LEMMA UpTo ==
  ASSUME NEW N \in Nat, NEW G, 0 \in G, \A n \in 1..N : n - 1 \in G => n \in G
  PROVE  0..N \subseteq G
<1> DEFINE S == {n \in 0..N : n \notin G}
           R == OpToRel(<, Nat)
<1>1. SUFFICES ASSUME S # {} PROVE FALSE
  OBVIOUS
<1>2. PICK n \in S : \A m \in S : ~ (<<m, n>> \in R)
  <2>1. IsWellFoundedOn(R, Nat)
    BY NatLessThanWellFounded
  <2>2. S \subseteq Nat
    OBVIOUS
  <2> HIDE DEF S
  <2> QED
    BY <1>1, <2>1, <2>2, WFMin
<1>3. \A m \in S : ~ (m < n)
  <2>1. \A m \in S : m \in Nat /\ n \in Nat
    OBVIOUS
  <2> HIDE DEF S
  <2> QED
    BY <1>2, <2>1 DEF OpToRel
<1>4. n \in 1..N /\ n - 1 \in 0..N
  OBVIOUS
<1>5. n - 1 \in G
  BY <1>3, <1>4
<1> QED
  BY <1>4, <1>5

(* g is the function that Among goes through.                              *)
IsKept(g, s, S) ==
  g = [n \in 0..Len(s) |->
         IF n = 0 THEN <<>>
         ELSE IF s[n].key \in S THEN Append(g[n - 1], s[n]) ELSE g[n - 1]]

(* Among goes through the whole sequence, so that it is what it says.      *)
LEMMA AmongIsKept ==
  ASSUME NEW A, NEW s \in Seq(A), NEW S
  PROVE  \E g : IsKept(g, s, S) /\ Among(s, S) = g[Len(s)]
<1> DEFINE N == Len(s)
           Rule(g, n) == \A k \in 0..n : g[k] = IF k = 0 THEN <<>>
                           ELSE IF s[k].key \in S THEN Append(g[k - 1], s[k]) ELSE g[k - 1]
           G == {n \in 0..N : \E g : Rule(g, n)}
<1>1. N \in Nat
  OBVIOUS
<1>2. 0 \in G
  <2>1. Rule([k \in 0..0 |-> <<>>], 0)
    OBVIOUS
  <2>2. 0 \in 0..N
    BY <1>1
  <2> HIDE DEF Rule
  <2> QED
    BY <2>1, <2>2
<1>3. ASSUME NEW n \in 1..N, n - 1 \in G PROVE n \in G
  <2>1. PICK g : Rule(g, n - 1)
    BY <1>3
  <2> DEFINE h == [k \in 0..n |-> IF k < n THEN g[k]
                     ELSE IF s[n].key \in S THEN Append(g[n - 1], s[n]) ELSE g[n - 1]]
  <2>2. \A k \in 0..n - 1 : h[k] = g[k]
    BY <1>1
  <2>3. h[n] = IF s[n].key \in S THEN Append(g[n - 1], s[n]) ELSE g[n - 1]
    BY <1>1
  <2>4. \A k \in 0..n : k = n \/ (k \in 0..n - 1 /\ (k # 0 => k - 1 \in 0..n - 1))
    BY <1>1
  <2>5. n # 0 /\ n - 1 \in 0..n - 1
    BY <1>1
  <2>6. Rule(h, n)
    <3> HIDE DEF h
    <3> QED
      BY <2>1, <2>2, <2>3, <2>4, <2>5
  <2> HIDE DEF Rule
  <2> QED
    BY <2>6
<1>4. N \in G
  <2>1. N \in 0..N
    BY <1>1
  <2> HIDE DEF G, N
  <2> QED
    BY <1>1, <1>2, <1>3, <2>1, UpTo
<1>5. PICK g : Rule(g, N)
  BY <1>4
<1>6. IsKept([n \in 0..N |-> g[n]], s, S)
  <2> DEFINE h == [n \in 0..N |-> g[n]]
  <2>1. \A n \in 0..N : h[n] = g[n] /\ (n # 0 => h[n - 1] = g[n - 1])
    BY <1>1
  <2>2. \A n \in 0..N : h[n] = IF n = 0 THEN <<>>
                           ELSE IF s[n].key \in S THEN Append(h[n - 1], s[n]) ELSE h[n - 1]
    BY <1>5, <2>1
  <2>3. h = [n \in 0..N |-> h[n]]
    OBVIOUS
  <2> HIDE DEF h
  <2> QED
    BY <2>2, <2>3 DEF IsKept
<1>7. Among(s, S) = (CHOOSE h : IsKept(h, s, S))[Len(s)]
  BY DEF Among, IsKept
<1> QED
  BY <1>6, <1>7

(* The entries of s with keys in S, and some if there are any.             *)
LEMMA AmongIs ==
  ASSUME NEW A, NEW s \in Seq(A), NEW S
  PROVE  /\ Among(s, S) \in Seq(A)
         /\ \A n \in 1..Len(Among(s, S)) : Among(s, S)[n].key \in S
         /\ (\E n \in 1..Len(s) : s[n].key \in S) => Among(s, S) # <<>>
         /\ \A n \in 1..Len(Among(s, S)) : \E m \in 1..Len(s) : Among(s, S)[n] = s[m]
         /\ (\A n, m \in 1..Len(s) : s[n].key = s[m].key => n = m) =>
              \A n, m \in 1..Len(Among(s, S)) : Among(s, S)[n].key = Among(s, S)[m].key => n = m
<1> DEFINE N == Len(s)
<1>1. PICK g : IsKept(g, s, S) /\ Among(s, S) = g[N]
  BY AmongIsKept
<1>2. g[0] = <<>> /\ \A n \in 1..N : g[n] = IF s[n].key \in S THEN Append(g[n - 1], s[n]) ELSE g[n - 1]
  <2>1. g = [n \in 0..N |-> IF n = 0 THEN <<>>
                ELSE IF s[n].key \in S THEN Append(g[n - 1], s[n]) ELSE g[n - 1]]
    BY <1>1 DEF IsKept
  <2>2. \A n \in 0..N : g[n] = IF n = 0 THEN <<>>
                ELSE IF s[n].key \in S THEN Append(g[n - 1], s[n]) ELSE g[n - 1]
    BY <2>1
  <2>3. N \in Nat
    OBVIOUS
  <2> HIDE DEF N
  <2> QED
    BY <2>2, <2>3
<1>3. N \in Nat /\ N \in 0..N /\ \A n \in 1..N : s[n] \in A
  OBVIOUS
<1> DEFINE Fine(q, n) ==
      /\ q \in Seq(A) /\ \A i \in 1..Len(q) : q[i].key \in S
      /\ (\E i \in 1..n : s[i].key \in S) => q # <<>>
      /\ \A i \in 1..Len(q) : \E j \in 1..n : q[i] = s[j]
      /\ (\A i, j \in 1..N : s[i].key = s[j].key => i = j) =>
           \A i, j \in 1..Len(q) : q[i].key = q[j].key => i = j
           G == {n \in 0..N : Fine(g[n], n)}
<1>4. 0 \in G
  <2>1. Fine(<<>>, 0)
    OBVIOUS
  <2> HIDE DEF Fine
  <2> QED
    BY <1>2, <1>3, <2>1
<1>5. ASSUME NEW n \in 1..N, n - 1 \in G PROVE n \in G
  <2>1. Fine(g[n - 1], n - 1) /\ n \in 0..N
    BY <1>3, <1>5
  <2>2. Fine(g[n], n)
    <3>1. CASE s[n].key \in S
      <4> DEFINE q == g[n - 1]
      <4>1. g[n] = Append(q, s[n]) /\ q \in Seq(A) /\ s[n] \in A
        BY <1>2, <1>3, <2>1, <3>1
      <4>2. \A i \in 1..Len(q) : q[i].key \in S
        BY <2>1
      <4>5. \A i \in 1..Len(q) : \E j \in 1..n - 1 : q[i] = s[j]
        BY <2>1
      <4>6. (\A i, j \in 1..N : s[i].key = s[j].key => i = j) =>
              \A i, j \in 1..Len(q) : q[i].key = q[j].key => i = j
        BY <2>1
      <4> HIDE DEF q
      <4>3. Append(q, s[n]) \in Seq(A) /\ Append(q, s[n]) # <<>>
        BY <4>1
      <4>4. \A i \in 1..Len(Append(q, s[n])) : Append(q, s[n])[i].key \in S
        BY <3>1, <4>1, <4>2
      <4> DEFINE p == Append(q, s[n])
      <4>7. \A i \in 1..Len(p) : \/ i \in 1..Len(q) /\ p[i] = q[i]
                                 \/ i = Len(q) + 1 /\ p[i] = s[n]
        <5> DEFINE x == s[n]
        <5>1. q \in Seq(A) /\ x \in A
          BY <4>1
        <5> HIDE DEF x
        <5>2. Len(q) \in Nat /\ Len(Append(q, x)) = Len(q) + 1 /\ Append(q, x)[Len(q) + 1] = x
              /\ \A i \in 1..Len(q) : Append(q, x)[i] = q[i]
          BY <5>1
        <5>3. \A i \in 1..Len(q) + 1 : i \in 1..Len(q) \/ i = Len(q) + 1
          BY <5>2
        <5>4. p = Append(q, x)
          BY DEF x
        <5> HIDE DEF p
        <5>5. \A i \in 1..Len(p) : i \in 1..Len(q) \/ i = Len(q) + 1
          BY <5>2, <5>3, <5>4
        <5>6. p[Len(q) + 1] = s[n] /\ \A i \in 1..Len(q) : p[i] = q[i]
          BY <5>2, <5>4 DEF x
        <5> QED
          BY <5>5, <5>6
      <4>8. n \in 1..n /\ n \in 1..N /\ \A j \in 1..n - 1 : j \in 1..n /\ j \in 1..N /\ j # n
        BY <1>3
      <4> HIDE DEF p, N
      <4>9. \A i \in 1..Len(p) : \E j \in 1..n : p[i] = s[j]
        BY <4>5, <4>7, <4>8
      <4>10. ASSUME \A i, j \in 1..N : s[i].key = s[j].key => i = j,
                    NEW i \in 1..Len(p), NEW j \in 1..Len(p), p[i].key = p[j].key
             PROVE  i = j
        <5>1. \A l \in 1..Len(q) : q[l].key # s[n].key
          BY <4>5, <4>8, <4>10
        <5> QED
          BY <4>6, <4>7, <4>10, <5>1
      <4> QED
        BY <4>1, <4>3, <4>4, <4>9, <4>10 DEF p
    <3>2. CASE s[n].key \notin S
      <4>1. g[n] = g[n - 1]
        BY <1>2, <3>2
      <4>2. \A i \in 1..n : i = n \/ i \in 1..n - 1
        BY <1>3
      <4> QED
        BY <2>1, <3>2, <4>1, <4>2
    <3> QED
      BY <3>1, <3>2
  <2> HIDE DEF Fine
  <2> QED
    BY <2>1, <2>2
<1>6. N \in G
  <2> HIDE DEF G
  <2> QED
    BY <1>3, <1>4, <1>5, UpTo
<1> QED
  BY <1>1, <1>6

-----------------------------------------------------------------------------
(* What a sync holds, and how it takes up the next table                   *)

(* The service and the locals of its sync.                                 *)
Pcs == {"idle", "listing", "reading", "trying", "writing", "backoff"}

Service ==
  [pc: Pcs, queue: Seq(Entry), batch: Seq(Entry), base: Contents \cup {None},
   attempt: 0..MaxRetries, more: BOOLEAN, timer: BOOLEAN, enabled: BOOLEAN, shutting: BOOLEAN,
   deferred: BOOLEAN, txDeferred: BOOLEAN, waiters: SUBSET Calls, minItems: MinItems]

(* The records of full snapshots in the batch are in the base, unless      *)
(* those of another entry of the batch are.                                *)
BaseCovers(w) ==
  \A n \in DOMAIN w.batch : w.batch[n].key \in Full =>
    \A i \in Holds[w.batch[n].key] : \E m \in DOMAIN w.batch :
      i \in Holds[w.batch[m].key] /\ w.base[i] = w.batch[m].val

(* The batch is of one table, and the base is what it takes.               *)
Sound(w) ==
  /\ w \in Service
  /\ w.pc \in {"reading", "trying", "writing", "backoff"} =>
       /\ w.batch # <<>>
       /\ \A n \in DOMAIN w.batch : TableOf[w.batch[n].key] = TableOf[w.batch[1].key]
  /\ w.pc = "reading" => \A n \in DOMAIN w.batch : w.batch[n].key \notin Full
  /\ w.pc \in {"trying", "writing", "backoff"} => w.base \in Contents /\ BaseCovers(w)
  /\ w.pc = "backoff" => w.attempt < MaxRetries

(* u goes on where w is: no write begins, and nothing syncs that did not    *)
(* sync before, once the service shuts down.                               *)
Onward(w, u) ==
  /\ Sound(u) /\ u.shutting = w.shutting
  /\ u.pc = "writing" => w.pc = "writing"
  /\ w.shutting /\ Syncing(u) => Syncing(w) /\ w.waiters \subseteq u.waiters

(* What the constants are.                                                 *)
LEMMA Bounds ==
  /\ TableOf \in [Keys -> Tables] /\ Full \subseteq Keys /\ Holds \in [Keys -> SUBSET Ids]
  /\ \A k, l \in Full : TableOf[k] = TableOf[l] => k = l
  /\ MaxRetries \in Nat \ {0} /\ MaxEvents \in Nat
  BY SyncAssumption DEF SyncAssumption

(* The end of a sync.                                                      *)
LEMMA FinishSound ==
  ASSUME NEW w \in Service
  PROVE  Sound(Finish(w)) /\ Finish(w).pc = "idle" /\ Finish(w).shutting = w.shutting
         /\ Onward(w, Finish(w))
<1>1. <<>> \in Seq(Entry) /\ 0 \in 0..MaxRetries /\ {} \in SUBSET Calls
  BY Bounds
<1>2. Finish(w) \in Service
  BY <1>1 DEF Service, Finish, Pcs
<1>3. Finish(w).batch = <<>> /\ Finish(w).pc = "idle" /\ Finish(w).shutting = w.shutting
  BY DEF Service, Finish
<1> HIDE DEF Finish
<1> QED
  BY <1>1, <1>2, <1>3, Bounds DEF Sound, Onward, Syncing

(* The last entry of a batch with a key of S is one of them.               *)
LEMMA LastOfIs ==
  ASSUME NEW batch \in Seq(Entry), NEW S, Places(batch, S) # {}
  PROVE  \E n \in DOMAIN batch : batch[n].key \in S /\ LastOf(batch, S) = batch[n]
<1> DEFINE P == Places(batch, S)
           R == {Len(batch) - n : n \in P}
<1>1. P \subseteq 1..Len(batch) /\ Len(batch) \in Nat
  BY DEF Places
<1>2. \E n \in P : \A m \in P : m <= n
  <2> DEFINE G == {n \in 0..Len(batch) : (\E m \in P : m <= n)
                                           => \E k \in P : k <= n /\ \A m \in P : m <= n => m <= k}
  <2> HIDE DEF P
  <2>1. 0 \in G
    BY <1>1
  <2>2. ASSUME NEW n \in 1..Len(batch), n - 1 \in G PROVE n \in G
    <3>0. n \in 0..Len(batch) /\ \A m \in P : m \in Nat /\ (m <= n => m = n \/ m <= n - 1)
      BY <1>1
    <3>1. CASE n \in P
      BY <3>0, <3>1
    <3>2. CASE n \notin P
      <4>1. \A m \in P : m <= n <=> m <= n - 1
        BY <1>1, <3>0, <3>2
      <4> QED
        BY <2>2, <3>0, <4>1
    <3> QED
      BY <3>1, <3>2
  <2>3. Len(batch) \in G
    <3>1. Len(batch) \in 0..Len(batch)
      BY <1>1
    <3> HIDE DEF G
    <3> QED
      BY <1>1, <2>1, <2>2, <3>1, UpTo
  <2>4. \A m \in P : m <= Len(batch)
    BY <1>1
  <2>5. P # {}
    BY DEF P
  <2> QED
    BY <2>3, <2>4, <2>5
<1> QED
  BY <1>2 DEF LastOf, Places

(* Putting a table's batch together.                                       *)
LEMMA SnapshotIs ==
  ASSUME NEW batch \in Seq(Entry)
  PROVE  /\ HasSnapshot(batch) <=> \E n \in DOMAIN batch : batch[n].key \in Full
         /\ Snapshot(batch) \in Contents \cup {None}
         /\ HasSnapshot(batch) =>
              /\ Snapshot(batch) \in Contents
              /\ \E m \in DOMAIN batch :
                   /\ batch[m].key \in Full
                   /\ \A i \in Holds[batch[m].key] : Snapshot(batch)[i] = batch[m].val
<1>1. HasSnapshot(batch) <=> \E n \in DOMAIN batch : batch[n].key \in Full
  BY DEF HasSnapshot, Places
<1>2. ASSUME HasSnapshot(batch)
      PROVE  /\ Snapshot(batch) \in Contents
             /\ \E m \in DOMAIN batch :
                   /\ batch[m].key \in Full
                   /\ \A i \in Holds[batch[m].key] : Snapshot(batch)[i] = batch[m].val
  <2>1. PICK m \in DOMAIN batch : batch[m].key \in Full /\ LastOf(batch, Full) = batch[m]
    BY <1>2, LastOfIs DEF HasSnapshot
  <2>2. Snapshot(batch) = [i \in Ids |-> IF i \in Holds[batch[m].key] THEN batch[m].val ELSE 0]
    BY <1>2, <2>1 DEF Snapshot
  <2>3. batch[m] \in Entry
    OBVIOUS
  <2>4. batch[m].val \in Nat /\ batch[m].key \in Keys
    BY <2>3 DEF Entry
  <2>5. Snapshot(batch) \in Contents
    BY <2>2, <2>4 DEF Contents
  <2>6. Holds[batch[m].key] \subseteq Ids
    BY <2>4, Bounds
  <2>7. \A i \in Holds[batch[m].key] : Snapshot(batch)[i] = batch[m].val
    BY <2>2, <2>6
  <2> QED
    BY <2>1, <2>5, <2>7
<1>3. ~HasSnapshot(batch) => Snapshot(batch) = None
  BY DEF Snapshot
<1> QED
  BY <1>1, <1>2, <1>3

(* The next table, or the end.                                             *)
LEMMA AdvanceSound ==
  ASSUME NEW w \in Service, Syncing(w)
  PROVE  Onward(w, Advance(w)) /\ Advance(w).pc # "writing"
<1>1. CASE w.queue = <<>>
  <2> DEFINE u == Finish(w)
             d == w.more \/ w.txDeferred
  <2>1. Advance(w) = [u EXCEPT !.deferred = d]
    BY <1>1 DEF Advance
  <2>2. Sound(u) /\ u.pc = "idle" /\ u.shutting = w.shutting
    BY FinishSound
  <2>3. d \in BOOLEAN
    OBVIOUS
  <2>4. u \in Service
    BY <2>2 DEF Sound
  <2> HIDE DEF u, d
  <2>5. Advance(w) \in Service
    BY <2>1, <2>3, <2>4 DEF Service
  <2>6. Advance(w).pc = "idle" /\ Advance(w).batch = u.batch /\ Advance(w).shutting = w.shutting
    BY <2>1, <2>2, <2>4 DEF Service
  <2> QED
    BY <2>2, <2>5, <2>6 DEF Sound, Syncing, Onward
<1>2. CASE w.queue # <<>>
  <2> DEFINE t == TableOf[w.queue[1].key]
             mine == {k \in Keys : TableOf[k] = t}
             batch == Among(w.queue, mine)
             rest == Among(w.queue, Keys \ mine)
             pc == IF HasSnapshot(batch) THEN "trying" ELSE "reading"
  <2>1. Advance(w) = [w EXCEPT !.queue = rest, !.batch = batch, !.base = Snapshot(batch),
                               !.attempt = 1, !.pc = pc]
    BY <1>2 DEF Advance
  <2>2. w.queue \in Seq(Entry) /\ w.shutting \in BOOLEAN
    BY DEF Service
  <2>3. w.queue[1].key \in mine /\ Len(w.queue) # 0
    <3>1. w.queue[1] \in Entry /\ Len(w.queue) # 0
      BY <1>2, <2>2
    <3> QED
      BY <3>1 DEF Entry
  <2>4. rest \in Seq(Entry) /\ batch \in Seq(Entry)
        /\ \A n \in 1..Len(batch) : batch[n].key \in mine
    <3> HIDE DEF mine
    <3> QED
      BY <2>2, AmongIs
  <2>6. batch \in Seq(Entry) /\ batch # <<>>
    <3>1. 1 \in 1..Len(w.queue)
      BY <2>2, <2>3
    <3> HIDE DEF mine
    <3> QED
      BY <2>2, <2>3, <2>4, <3>1, AmongIs
  <2> HIDE DEF rest
  <2>7. \A n \in DOMAIN batch : TableOf[batch[n].key] = t
    <3>1. DOMAIN batch = 1..Len(batch)
      BY <2>4
    <3> HIDE DEF batch
    <3> QED
      BY <2>4, <3>1
  <2> HIDE DEF t, mine, batch
  <2>9. Snapshot(batch) \in Contents \cup {None} /\ 1 \in 0..MaxRetries /\ pc \in Pcs
    BY <2>6, SnapshotIs, Bounds DEF Pcs
  <2> DEFINE u == [w EXCEPT !.queue = rest, !.batch = batch, !.base = Snapshot(batch),
                               !.attempt = 1, !.pc = pc]
  <2>10. u \in Service
    BY <2>4, <2>6, <2>9 DEF Service
  <2>11. /\ u.pc = pc /\ u.batch = batch /\ u.base = Snapshot(batch) /\ u.shutting = w.shutting
         /\ u.waiters = w.waiters
    BY DEF Service
  <2> HIDE DEF u
  <2>12. HasSnapshot(batch) => BaseCovers(u)
    <3> SUFFICES ASSUME HasSnapshot(batch),
                        NEW n \in DOMAIN batch, batch[n].key \in Full, NEW i \in Holds[batch[n].key]
                 PROVE  \E m \in DOMAIN batch : i \in Holds[batch[m].key]
                                                /\ Snapshot(batch)[i] = batch[m].val
      BY <2>11 DEF BaseCovers
    <3>1. PICK m \in DOMAIN batch :
             /\ batch[m].key \in Full
             /\ \A j \in Holds[batch[m].key] : Snapshot(batch)[j] = batch[m].val
      BY <2>6, SnapshotIs
    <3>2. batch[m].key = batch[n].key
      BY <2>7, <3>1, Bounds
    <3> QED
      BY <3>1, <3>2
  <2>13. 1 \in DOMAIN batch
    BY <2>6
  <2>14. Sound(u)
    <3>1. u.pc \in {"reading", "trying"} /\ (u.pc = "reading" <=> ~HasSnapshot(batch))
      BY <2>11
    <3>2. \A n \in DOMAIN u.batch : TableOf[u.batch[n].key] = TableOf[u.batch[1].key]
      BY <2>7, <2>11, <2>13
    <3>3. u.pc = "reading" => \A n \in DOMAIN u.batch : u.batch[n].key \notin Full
      BY <2>6, <2>11, <3>1, SnapshotIs
    <3>4. u.pc \in {"trying", "writing", "backoff"} => u.base \in Contents /\ BaseCovers(u)
      BY <2>6, <2>11, <2>12, <3>1, SnapshotIs
    <3> QED
      BY <2>6, <2>10, <2>11, <3>1, <3>2, <3>3, <3>4 DEF Sound
  <2>15. u.pc # "writing"
    BY <2>11
  <2>16. Advance(w) = u
    BY <2>1 DEF u
  <2> QED
    BY <2>11, <2>14, <2>15, <2>16 DEF Onward
<1> QED
  BY <1>1, <1>2

-----------------------------------------------------------------------------
(* The beginning of a sync, and the stop of the timer                      *)

(* Entries of the cache, and calls.                                        *)
CacheEntry == [key: Keys, val: 1..MaxEvents, dirty: BOOLEAN]

Call ==
  [pc: {"new", "stopping", "ending", "done"}, kind: {None, "stop", "cleanup", "config"},
   enabled: BOOLEAN \cup {None}]

(* sync() up to its first await begins nothing once the service shuts down.*)
LEMMA BegunOnward ==
  ASSUME cache \in Seq(CacheEntry), NEW w, Sound(w)
  PROVE  Onward(w, Begun(w))
<1> DEFINE Q == Dirty
<1>1. w \in Service
  BY DEF Sound
<1>2. Q \in Seq(Entry)
  <2> DEFINE S == {k \in Keys : IsDirty(k)}
             items == [n \in DOMAIN cache |-> [key |-> cache[n].key, val |-> cache[n].val]]
  <2>1. Dirty = Among(items, S)
    BY DEF Dirty
  <2>2. items \in Seq(Entry)
    <3>1. DOMAIN cache = 1..Len(cache) /\ Len(cache) \in Nat
          /\ \A n \in 1..Len(cache) : cache[n] \in CacheEntry
      OBVIOUS
    <3>2. \A n \in 1..Len(cache) : items[n] \in Entry
      BY <3>1 DEF Entry, CacheEntry
    <3>3. items \in [1..Len(cache) -> Entry]
      BY <3>1, <3>2
    <3> QED
      BY <3>1, <3>3
  <2> HIDE DEF S, items
  <2> QED
    BY <2>1, <2>2, AmongIs
<1> HIDE DEF Q
<1>3. Begun(w) = w \/ (w.pc = "idle" /\ ~w.shutting)
  BY DEF Begun, Syncing
<1>4. Onward(w, w)
  BY DEF Onward
<1>5. CASE w.pc = "idle" /\ ~w.shutting
  <2> DEFINE u == [w EXCEPT !.txDeferred = FALSE]
  <2>1. \/ Begun(w) = w
        \/ Begun(w) = [w EXCEPT !.deferred = TRUE]
        \/ Begun(w) = [u EXCEPT !.deferred = FALSE]
        \/ Begun(w) = u
        \/ Begun(w) = [u EXCEPT !.pc = "listing", !.queue = Q]
    BY <1>5 DEF Begun, Q
  <2>2. w.shutting \in BOOLEAN /\ w.pc \in Pcs /\ w.attempt \in 0..MaxRetries
    BY <1>1 DEF Service
  <2> DEFINE Small(x) == /\ x \in Service /\ x.pc \in {"idle", "listing"}
                         /\ x.batch = w.batch /\ x.shutting = w.shutting
  <2>3. Small(w)
    BY <1>1, <1>5
  <2>4. Small([w EXCEPT !.deferred = TRUE]) /\ Small(u) /\ Small([u EXCEPT !.deferred = FALSE])
    BY <1>1, <1>5 DEF Service, Pcs
  <2>5. Small([u EXCEPT !.pc = "listing", !.queue = Q])
    BY <1>1, <1>2, <1>5 DEF Service, Pcs
  <2> HIDE DEF u
  <2>6. Small(Begun(w))
    BY <2>1, <2>3, <2>4, <2>5
  <2> QED
    BY <1>5, <2>6 DEF Onward, Sound
<1> QED
  BY <1>3, <1>4, <1>5

(* Changes of other fields than those the sync works with.                 *)
Like(w, u) ==
  u \in Service /\ u.pc = w.pc /\ u.batch = w.batch /\ u.base = w.base /\ u.attempt = w.attempt

(* They keep the sync sound.                                               *)
LEMMA LikeSound ==
  ASSUME NEW w, Sound(w), NEW u, Like(w, u)
  PROVE  Sound(u) /\ (u.shutting = w.shutting /\ w.waiters \subseteq u.waiters => Onward(w, u))
  BY DEF Like, Sound, BaseCovers, Onward, Syncing

(* One change after another.                                               *)
LEMMA OnwardTwice ==
  ASSUME NEW w, NEW u, NEW x, Onward(w, u), Onward(u, x)
  PROVE  Onward(w, x)
  BY DEF Onward

(* start().                                                                *)
LEMMA StartedOnward ==
  ASSUME cache \in Seq(CacheEntry), NEW w, Sound(w)
  PROVE  Onward(w, Started(w))
<1> DEFINE a == [w EXCEPT !.timer = FALSE]
           b == Begun(a)
           d == [b EXCEPT !.timer = TRUE]
<1>1. Onward(w, a)
  <2>1. w \in Service
    BY DEF Sound
  <2>2. Like(w, a) /\ a.shutting = w.shutting /\ a.waiters = w.waiters
    BY <2>1 DEF Service, Like
  <2> QED
    BY <2>2, LikeSound
<1>2. Sound(a)
  BY <1>1 DEF Onward
<1>3. Started(w) = d \/ Started(w) = a
  BY DEF Started
<1> HIDE DEF a
<1>4. Onward(a, b)
  BY <1>2, BegunOnward
<1>5. Sound(b)
  BY <1>4 DEF Onward
<1> HIDE DEF b
<1>6. Onward(b, d)
  <2>1. b \in Service
    BY <1>5 DEF Sound
  <2>2. Like(b, d) /\ d.shutting = b.shutting /\ d.waiters = b.waiters
    BY <2>1 DEF Service, Like
  <2> QED
    BY <1>5, <2>2, LikeSound
<1> HIDE DEF d
<1> QED
  BY <1>1, <1>3, <1>4, <1>6, OnwardTwice

(* stop() of call c, which waits for a sync that runs.                     *)
LEMMA StoppedOnward ==
  ASSUME NEW w, Sound(w), NEW c \in Calls
  PROVE  Onward(w, Stopped(w, c)) /\ (Syncing(Stopped(w, c)) => c \in Stopped(w, c).waiters)
<1> DEFINE u == Stopped(w, c)
           W == IF Syncing(w) THEN w.waiters \cup {c} ELSE w.waiters
<1>1. w \in Service
  BY DEF Sound
<1>2. W \in SUBSET Calls /\ w.waiters \subseteq W /\ (Syncing(w) => c \in W)
  BY <1>1 DEF Service
<1>3. u = [w EXCEPT !.timer = FALSE, !.waiters = W]
  BY <1>1 DEF Stopped, Service
<1> HIDE DEF u, W
<1>4. Like(w, u) /\ u.shutting = w.shutting /\ u.waiters = W
  BY <1>1, <1>2, <1>3 DEF Like, Service
<1>5. Onward(w, u)
  BY <1>2, <1>4, LikeSound
<1>6. Syncing(u) => c \in u.waiters
  BY <1>2, <1>4 DEF Like, Syncing
<1> QED
  BY <1>5, <1>6 DEF u

(* The last part of updateConfig.                                          *)
LEMMA SwitchedOnward ==
  ASSUME cache \in Seq(CacheEntry), NEW w, Sound(w), NEW c \in Calls, NEW e
  PROVE  Onward(w, Switched(w, c, e))
<1>1. Onward(w, w)
  BY DEF Onward
<1> QED
  BY <1>1, StartedOnward, StoppedOnward DEF Switched

-----------------------------------------------------------------------------
(* The invariant, and the steps of a sync                                  *)

(* A table, or none.                                                       *)
Table == Contents \cup {None}

(* Everything but the service, with one entry for each key.                *)
Shape ==
  /\ cache \in Seq(CacheEntry)
  /\ \A n, m \in DOMAIN cache : cache[n].key = cache[m].key => n = m
  /\ storage \in [Tables -> Table] /\ staged \in [Tables -> Table]
  /\ call \in [Calls -> Call]
  /\ \A c \in Calls : call[c].pc # "new" => call[c].kind \in {"stop", "cleanup", "config"}
  /\ tx \in {"off", "plain", "owned"} /\ clock \in 0..MaxEvents

(* Calls of cleanup that were made.                                        *)
Cleanup(c) == call[c].pc # "new" /\ call[c].kind = "cleanup"

(* A cleanup that is the only one has shut the service down, and waits for *)
(* the sync that runs.                                                     *)
Quiet ==
  \A c \in Calls :
    Cleanup(c) /\ call[c].pc = "stopping" /\ (\A d \in Calls \ {c} : ~Cleanup(d))
    => v.shutting /\ (Syncing(v) => c \in v.waiters)

(* The inductive invariant.                                                *)
IInv == Shape /\ Sound(v) /\ (v.pc = "writing" => ~InTx) /\ Quiet

(* What a sync writes.                                                     *)
LEMMA MergedIs ==
  ASSUME NEW base \in Contents, NEW batch \in Seq(Entry)
  PROVE  /\ Merged(base, batch) \in Contents
         /\ \A k \in Keys \ Full : (\E n \in DOMAIN batch : batch[n].key = k) =>
              \A i \in Holds[k] : \E m \in DOMAIN batch :
                i \in Holds[batch[m].key] /\ Merged(base, batch)[i] = batch[m].val
         /\ \A i \in Ids : \/ Merged(base, batch)[i] = base[i]
                           \/ \E m \in DOMAIN batch : /\ i \in Holds[batch[m].key]
                                                      /\ Merged(base, batch)[i] = batch[m].val
<1> DEFINE S(i) == {k \in Keys \ Full : i \in Holds[k]}
<1>1. \A i \in Ids : Merged(base, batch)[i] = IF Places(batch, S(i)) = {} THEN base[i]
                                              ELSE LastOf(batch, S(i)).val
  BY DEF Merged
<1>2. ASSUME NEW i \in Ids, Places(batch, S(i)) # {}
      PROVE  \E m \in DOMAIN batch : /\ i \in Holds[batch[m].key]
                                     /\ LastOf(batch, S(i)).val = batch[m].val
  <2>1. \E m \in DOMAIN batch : batch[m].key \in S(i) /\ LastOf(batch, S(i)) = batch[m]
    <3> HIDE DEF S
    <3> QED
      BY <1>2, LastOfIs
  <2> QED
    BY <2>1
<1>3. \A i \in Ids : \/ Places(batch, S(i)) = {} /\ Merged(base, batch)[i] = base[i]
                     \/ \E m \in DOMAIN batch : /\ i \in Holds[batch[m].key]
                                                /\ Merged(base, batch)[i] = batch[m].val
  <2> HIDE DEF S
  <2> QED
    BY <1>1, <1>2
<1>4. Merged(base, batch) \in Contents
  <2>1. \A m \in DOMAIN batch : batch[m].val \in Nat
    <3>1. \A m \in DOMAIN batch : batch[m] \in Entry
      OBVIOUS
    <3> QED
      BY <3>1 DEF Entry
  <2>2. \A i \in Ids : Merged(base, batch)[i] \in Nat
    BY <1>3, <2>1 DEF Contents
  <2>3. Merged(base, batch) = [i \in Ids |-> Merged(base, batch)[i]]
    BY DEF Merged
  <2> HIDE DEF S
  <2> QED
    BY <2>2, <2>3 DEF Contents
<1>5. ASSUME NEW k \in Keys \ Full, NEW n \in DOMAIN batch, batch[n].key = k, NEW i \in Holds[k]
      PROVE  \E m \in DOMAIN batch : /\ i \in Holds[batch[m].key]
                                     /\ Merged(base, batch)[i] = batch[m].val
  <2>1. i \in Ids
    BY Bounds
  <2>2. n \in Places(batch, S(i))
    BY <1>5 DEF Places
  <2> QED
    BY <1>3, <2>1, <2>2
<1> QED
  BY <1>3, <1>4, <1>5

(* A write goes to the one table of the batch, with every record the       *)
(* entries of the batch have, in the value of one of them.                 *)
LEMMA WriteIs ==
  ASSUME NEW w, Sound(w), w.pc = "writing"
  PROVE  /\ TableOf[w.batch[1].key] \in Tables /\ Merged(w.base, w.batch) \in Contents
         /\ \A n \in DOMAIN w.batch :
              /\ TableOf[w.batch[n].key] = TableOf[w.batch[1].key]
              /\ \A i \in Holds[w.batch[n].key] : \E m \in DOMAIN w.batch :
                   /\ i \in Holds[w.batch[m].key]
                   /\ Merged(w.base, w.batch)[i] = w.batch[m].val
<1> DEFINE batch == w.batch
           base == w.base
<1>1. /\ batch \in Seq(Entry) /\ batch # <<>> /\ base \in Contents /\ BaseCovers(w)
      /\ \A n \in DOMAIN batch : TableOf[batch[n].key] = TableOf[batch[1].key]
  BY DEF Sound, Service
<1>2. \A n \in DOMAIN batch : batch[n].key \in Keys
  <2>1. \A m \in DOMAIN batch : batch[m] \in Entry
    BY <1>1
  <2> QED
    BY <2>1 DEF Entry
<1>3. 1 \in DOMAIN batch
  BY <1>1
<1>4. TableOf[batch[1].key] \in Tables
  BY <1>2, <1>3, Bounds
<1>5. ASSUME NEW n \in DOMAIN batch, NEW i \in Holds[batch[n].key]
      PROVE  \E m \in DOMAIN batch :
                 i \in Holds[batch[m].key] /\ Merged(base, batch)[i] = batch[m].val
  <2>1. i \in Ids
    BY <1>2, Bounds
  <2>2. CASE batch[n].key \in Full
    <3>1. \E m \in DOMAIN batch : i \in Holds[batch[m].key] /\ base[i] = batch[m].val
      BY <1>1, <2>2 DEF BaseCovers
    <3> HIDE DEF batch, base
    <3> QED
      BY <1>1, <2>1, <3>1, MergedIs
  <2>3. CASE batch[n].key \notin Full
    <3> HIDE DEF batch, base
    <3>1. batch[n].key \in Keys \ Full
      BY <1>2, <2>3
    <3> QED
      BY <1>1, <3>1, MergedIs
  <2> QED
    BY <2>2, <2>3
<1> HIDE DEF batch, base
<1>6. Merged(base, batch) \in Contents
  BY <1>1, MergedIs
<1> QED
  BY <1>1, <1>4, <1>5, <1>6 DEF batch, base

(* A step that leaves the calls and the transaction alone.                 *)
LEMMA ServiceStep ==
  ASSUME IInv, Shape', Onward(v, v'), call' = call, tx' = tx
  PROVE  IInv'
<1>1. Sound(v)' /\ (v'.pc = "writing" => ~InTx')
  BY DEF IInv, Onward, InTx
<1>2. Quiet'
  BY DEF IInv, Onward, Quiet, Cleanup, Syncing
<1> QED
  BY <1>1, <1>2 DEF IInv

(* The clock stays in its bound.                                           *)
LEMMA EventIs == clock \in 0..MaxEvents /\ (Event \/ UNCHANGED clock) => clock' \in 0..MaxEvents
  BY Bounds DEF Event

(* What a read finds, and the rows of it.                                  *)
LEMMA ViewIs ==
  ASSUME Shape, NEW t \in Tables
  PROVE  View(t) \in Table /\ Rows(View(t)) \in Contents
<1>1. View(t) \in Table
  BY DEF Shape, View
<1>2. [i \in Ids |-> 0] \in Contents
  BY DEF Contents
<1> HIDE DEF View
<1> QED
  BY <1>1, <1>2 DEF Rows, Table

(* Entries that are left out leave a sync that runs.                       *)
LEMMA GroupedIs ==
  ASSUME NEW w, Sound(w), w.pc = "listing"
  PROVE  Grouped(w) \in Service /\ Syncing(Grouped(w)) /\ Onward(w, Grouped(w))
<1> DEFINE late == {w.queue[n].key : n \in Late(w.queue)}
           S == {k \in Keys \ (Misfits \cup late) : Exists(k)}
           queue == Among(w.queue, S)
           more == \E k \in late : Exists(k)
           u == [w EXCEPT !.queue = queue, !.more = more]
<1>1. w \in Service
  BY DEF Sound
<1>2. Grouped(w) = u
  BY DEF Grouped
<1>3. w.queue \in Seq(Entry)
  BY <1>1 DEF Service
<1>4. queue \in Seq(Entry) /\ more \in BOOLEAN
  <2> HIDE DEF S, late
  <2> QED
    BY <1>3, AmongIs
<1> HIDE DEF queue, more
<1>5. Like(w, u) /\ u.shutting = w.shutting /\ u.waiters = w.waiters
  BY <1>1, <1>4 DEF Like, Service
<1>6. Onward(w, u)
  BY <1>5, LikeSound
<1> HIDE DEF u
<1> QED
  BY <1>2, <1>5, <1>6 DEF Like, Syncing

(* The steps of a sync, from its beginning.                                *)
LEMMA SyncStepSafe ==
  ASSUME IInv, Start \/ Sync(TRUE) \/ Sync(FALSE) \/ SyncStep
  PROVE  IInv'
<1>1. Shape /\ Sound(v) /\ v \in Service /\ cache \in Seq(CacheEntry)
  BY DEF IInv, Shape, Sound
<1>2. ASSUME Start PROVE IInv'
  <2>1. Onward(v, v') /\ Shape' /\ call' = call /\ tx' = tx
    BY <1>1, <1>2, StartedOnward DEF Start, Env, Shape
  <2> QED
    BY <2>1, ServiceStep
<1>3. ASSUME NEW b \in BOOLEAN, Sync(b) PROVE IInv'
  <2>1. Onward(v, v') /\ Shape' /\ call' = call /\ tx' = tx
    BY <1>1, <1>3, BegunOnward DEF Sync, Env, Shape
  <2> QED
    BY <2>1, ServiceStep
<1>4. ASSUME Listed PROVE IInv'
  <2>1. Shape' /\ call' = call /\ tx' = tx
    BY <1>1, <1>4, EventIs DEF Listed, Env, Shape
  <2>2. v.pc = "listing"
    BY <1>4 DEF Listed
  <2>3. ASSUME NEW w, w = Grouped(v), v' = Advance(w) PROVE Onward(v, v')
    <3>1. w \in Service /\ Syncing(w) /\ Onward(v, w)
      BY <1>1, <2>2, <2>3, GroupedIs
    <3>2. Onward(w, v')
      BY <2>3, <3>1, AdvanceSound
    <3> QED
      BY <3>1, <3>2, OnwardTwice
  <2>4. Onward(v, v')
    BY <1>1, <1>4, <2>3, FinishSound DEF Listed
  <2> QED
    BY <2>1, <2>4, ServiceStep
<1>5. ASSUME ReadTable PROVE IInv'
  <2>1. Shape' /\ call' = call /\ tx' = tx
    BY <1>1, <1>5, EventIs DEF ReadTable, Env, Shape
  <2>2. ASSUME v' = [v EXCEPT !.base = Rows(View(Batched)), !.pc = "trying"] PROVE Onward(v, v')
    <3> DEFINE base == Rows(View(Batched))
    <3>1. v.pc = "reading"
      BY <1>5 DEF ReadTable
    <3>2. base \in Contents
      <4>1. v.batch \in Seq(Entry) /\ v.batch # <<>>
        BY <1>1, <3>1 DEF Sound, Service
      <4>2. v.batch[1] \in Entry
        BY <4>1
      <4> QED
        BY <1>1, <4>2, Bounds, ViewIs DEF Entry, Batched
    <3> HIDE DEF base
    <3>3. v' \in Service
      BY <1>1, <2>2, <3>2 DEF Service, Pcs, base
    <3>4. /\ v'.pc = "trying" /\ v'.base = base /\ v'.batch = v.batch
          /\ v'.shutting = v.shutting /\ v'.waiters = v.waiters
      BY <1>1, <2>2 DEF Service, base
    <3>5. BaseCovers(v')
      BY <1>1, <3>1, <3>4 DEF BaseCovers, Sound
    <3>6. Sound(v')
      BY <1>1, <3>1, <3>2, <3>3, <3>4, <3>5 DEF Sound
    <3> QED
      BY <3>1, <3>4, <3>6 DEF Onward, Syncing
  <2>3. Onward(v, v')
    BY <1>1, <1>5, <2>2, AdvanceSound DEF ReadTable, Syncing
  <2> QED
    BY <2>1, <2>3, ServiceStep
<1>6. ASSUME TryWrite PROVE IInv'
  <2>1. Shape' /\ call' = call /\ tx' = tx /\ v.pc = "trying"
    BY <1>1, <1>6 DEF TryWrite, Env, Shape
  <2>2. CASE InTx
    <3> DEFINE w == [v EXCEPT !.txDeferred = TRUE]
    <3>1. Like(v, w) /\ w.shutting = v.shutting /\ w.waiters = v.waiters
      BY <1>1 DEF Service, Like
    <3>2. v' = Advance(w)
      BY <1>6, <2>2 DEF TryWrite
    <3> HIDE DEF w
    <3>3. Onward(v, w) /\ w \in Service /\ Syncing(w)
      BY <1>1, <2>1, <3>1, LikeSound DEF Like, Syncing
    <3>4. Onward(w, v')
      BY <3>2, <3>3, AdvanceSound
    <3>5. Onward(v, v')
      BY <3>3, <3>4, OnwardTwice
    <3> QED
      BY <2>1, <3>5, ServiceStep
  <2>3. CASE ~InTx
    <3>1. v' = [v EXCEPT !.pc = "writing"]
      BY <1>6, <2>3 DEF TryWrite
    <3>2. v' \in Service
      BY <1>1, <3>1 DEF Service, Pcs
    <3>3. /\ v'.pc = "writing" /\ v'.base = v.base /\ v'.batch = v.batch
          /\ v'.shutting = v.shutting /\ v'.waiters = v.waiters
      BY <1>1, <3>1 DEF Service
    <3>4. Sound(v)'
      BY <1>1, <2>1, <3>2, <3>3 DEF Sound, BaseCovers
    <3>5. Quiet'
      BY <2>1, <3>3 DEF IInv, Quiet, Cleanup, Syncing
    <3> QED
      BY <2>1, <2>3, <3>4, <3>5 DEF IInv, InTx
  <2> QED
    BY <2>2, <2>3
<1>7. ASSUME v.pc = "writing", storage' \in {storage, [storage EXCEPT ![Batched] = Merged(v.base, v.batch)]}
      PROVE  storage' \in [Tables -> Table]
  BY <1>1, <1>7, WriteIs DEF Batched, Shape, Table
<1>8. ASSUME WriteSucceeds PROVE IInv'
  <2>1. Onward(v, v') /\ call' = call /\ tx' = tx /\ staged' = staged /\ clock' = clock
    BY <1>1, <1>8, AdvanceSound DEF WriteSucceeds, Syncing, Env
  <2>2. storage' \in [Tables -> Table]
    BY <1>7, <1>8 DEF WriteSucceeds
  <2>3. /\ cache' \in Seq(CacheEntry)
        /\ \A n, m \in DOMAIN cache' : cache'[n].key = cache'[m].key => n = m
    <3> DEFINE clean(n) == \A m \in DOMAIN v.batch : v.batch[m].key # cache[n].key
    <3>1. cache' = [n \in DOMAIN cache |-> [cache[n] EXCEPT !.dirty = @ /\ clean(n)]]
      BY <1>8 DEF WriteSucceeds, Cleaned
    <3>2. Len(cache) \in Nat /\ DOMAIN cache = 1..Len(cache) /\ \A n \in DOMAIN cache : cache[n] \in CacheEntry
      BY <1>1
    <3>3. \A n \in DOMAIN cache : clean(n) \in BOOLEAN
      OBVIOUS
    <3> HIDE DEF clean
    <3>4. \A n \in DOMAIN cache : cache'[n] \in CacheEntry /\ cache'[n].key = cache[n].key
      <4> SUFFICES ASSUME NEW n \in DOMAIN cache
                   PROVE  cache'[n] \in CacheEntry /\ cache'[n].key = cache[n].key
        OBVIOUS
      <4> DEFINE e == cache[n]
                 b == e.dirty /\ clean(n)
      <4>1. cache'[n] = [e EXCEPT !.dirty = b]
        BY <3>1
      <4>2. e \in CacheEntry
        BY <3>2
      <4>3. b \in BOOLEAN
        OBVIOUS
      <4> HIDE DEF e, b
      <4>4. [e EXCEPT !.dirty = b] \in CacheEntry /\ [e EXCEPT !.dirty = b].key = e.key
        BY <4>2, <4>3 DEF CacheEntry
      <4> QED
        BY <4>1, <4>4 DEF e
    <3>5. DOMAIN cache' = DOMAIN cache /\ cache' = [n \in DOMAIN cache |-> cache'[n]]
      BY <3>1
    <3>6. cache' \in [1..Len(cache) -> CacheEntry]
      BY <3>2, <3>4, <3>5
    <3>7. cache' \in Seq(CacheEntry)
      BY <3>2, <3>6
    <3> QED
      BY <1>1, <3>4, <3>5, <3>7 DEF Shape
  <2>4. Shape'
    BY <1>1, <2>1, <2>2, <2>3 DEF Shape
  <2> QED
    BY <2>1, <2>4, ServiceStep
<1>9. ASSUME NEW transient \in BOOLEAN, NEW landed \in BOOLEAN, WriteFails(transient, landed)
      PROVE  IInv'
  <2>1. v.pc = "writing" /\ call' = call /\ tx' = tx /\ Syncing(v)
    BY <1>9 DEF WriteFails, Env, Syncing
  <2>2. storage' \in [Tables -> Table]
    BY <1>7, <1>9 DEF WriteFails
  <2>3. Shape'
    BY <1>1, <1>9, <2>2, EventIs DEF WriteFails, Shape, Env
  <2>4. CASE transient /\ v.attempt < MaxRetries
    <3>1. v' = [v EXCEPT !.pc = "backoff"]
      BY <1>9, <2>4 DEF WriteFails
    <3>2. v' \in Service
      BY <1>1, <3>1 DEF Service, Pcs
    <3>3. /\ v'.pc = "backoff" /\ v'.base = v.base /\ v'.batch = v.batch /\ v'.attempt = v.attempt
          /\ v'.shutting = v.shutting /\ v'.waiters = v.waiters
      BY <1>1, <3>1 DEF Service
    <3>4. Sound(v')
      BY <1>1, <2>1, <2>4, <3>2, <3>3 DEF Sound, BaseCovers
    <3>5. Onward(v, v')
      BY <2>1, <3>3, <3>4 DEF Onward, Syncing
    <3> QED
      BY <2>1, <2>3, <3>5, ServiceStep
  <2>5. CASE ~(transient /\ v.attempt < MaxRetries)
    <3>1. Onward(v, v')
      BY <1>1, <1>9, <2>1, <2>5, AdvanceSound DEF WriteFails
    <3> QED
      BY <2>1, <2>3, <3>1, ServiceStep
  <2> QED
    BY <2>4, <2>5
<1>10. ASSUME Retry PROVE IInv'
  <2>1. Shape' /\ call' = call /\ tx' = tx /\ v.pc = "backoff" /\ v.attempt < MaxRetries
    BY <1>1, <1>10 DEF Retry, Env, Shape, Sound
  <2>2. v.attempt + 1 \in 0..MaxRetries
    <3>1. v.attempt \in 0..MaxRetries /\ MaxRetries \in Nat
      BY <1>1, Bounds DEF Service
    <3> QED
      BY <2>1, <3>1
  <2> DEFINE next == v.attempt + 1
  <2>3. v' = [v EXCEPT !.pc = "trying", !.attempt = next]
    BY <1>10 DEF Retry
  <2> HIDE DEF next
  <2>4. v' \in Service
    BY <1>1, <2>2, <2>3 DEF Service, Pcs, next
  <2>5. /\ v'.pc = "trying" /\ v'.base = v.base /\ v'.batch = v.batch
        /\ v'.shutting = v.shutting /\ v'.waiters = v.waiters
    BY <1>1, <2>3 DEF Service
  <2>6. Sound(v')
    BY <1>1, <2>1, <2>4, <2>5 DEF Sound, BaseCovers
  <2>7. Onward(v, v')
    BY <2>1, <2>5, <2>6 DEF Onward, Syncing
  <2> QED
    BY <2>1, <2>7, ServiceStep
<1> QED
  BY <1>2, <1>3, <1>4, <1>5, <1>6, <1>8, <1>9, <1>10 DEF SyncStep

-----------------------------------------------------------------------------
(* Calls of stop, cleanup and updateConfig, and the environment            *)

(* What the steps of calls leave alone.                                    *)
Around == UNCHANGED Rest /\ (Event \/ UNCHANGED clock)

(* A step of call c that is no new cleanup.                                *)
LEMMA CallStepSafe ==
  ASSUME IInv, NEW c \in Calls, NEW to \in Call, Onward(v, v'), Around,
         call' = [call EXCEPT ![c] = to],
         to.pc = "stopping" => to.kind # "cleanup",
         to.pc # "new", to.kind \in {"stop", "cleanup", "config"}, call[c].pc # "new" => to.kind = call[c].kind
  PROVE  IInv'
<1>1. Shape'
  BY EventIs DEF IInv, Shape, Around, Rest
<1>2. Sound(v)' /\ (v'.pc = "writing" => ~InTx')
  BY DEF IInv, Onward, Around, Rest, InTx
<1>3. Quiet'
  <2> SUFFICES ASSUME NEW e \in Calls, Cleanup(e)', call'[e].pc = "stopping",
                      \A d \in Calls \ {e} : ~Cleanup(d)'
               PROVE  v'.shutting /\ (Syncing(v') => e \in v'.waiters)
    BY DEF Quiet, Syncing
  <2>0. call'[c] = to /\ \A d \in Calls \ {c} : call'[d] = call[d]
    BY DEF IInv, Shape
  <2>1. e # c
    BY <2>0 DEF Cleanup
  <2>2. Cleanup(e) /\ call[e].pc = "stopping"
    BY <2>0, <2>1 DEF Cleanup
  <2>3. \A d \in Calls \ {e} : ~Cleanup(d)
    BY <2>0, <2>1 DEF Cleanup
  <2>4. v.shutting /\ (Syncing(v) => e \in v.waiters)
    BY <2>2, <2>3 DEF IInv, Quiet
  <2> QED
    BY <2>4 DEF Onward
<1> QED
  BY <1>1, <1>2, <1>3 DEF IInv

(* A new call of stop or cleanup.                                          *)
LEMMA StopSafe ==
  ASSUME IInv, NEW c \in Calls, NEW kind \in {"stop", "cleanup"}, Stop(c, kind)
  PROVE  IInv'
<1> DEFINE b == v.shutting \/ kind = "cleanup"
           w == [v EXCEPT !.shutting = b]
           to == [call[c] EXCEPT !.pc = "stopping", !.kind = kind]
<1>1. /\ v \in Service /\ Sound(v) /\ call \in [Calls -> Call]
      /\ call' = [call EXCEPT ![c] = to] /\ v' = Stopped(w, c) /\ Around
      /\ call[c].pc = "new"
  BY DEF IInv, Shape, Sound, Stop, Around
<1>2. to \in Call /\ to.pc = "stopping" /\ to.kind = kind
  BY <1>1 DEF Call
<1>3. b \in BOOLEAN
  OBVIOUS
<1> HIDE DEF b, to
<1>4. Like(v, w) /\ w.shutting = b /\ w.waiters = v.waiters
  BY <1>1, <1>3 DEF Like, Service
<1>5. Sound(w)
  BY <1>1, <1>4, LikeSound
<1> HIDE DEF w
<1>6. Onward(w, v') /\ (Syncing(v') => c \in v'.waiters)
  BY <1>1, <1>5, StoppedOnward
<1>7. Shape'
  BY <1>1, <1>2, EventIs DEF IInv, Shape, Around, Rest
<1>8. Sound(v)' /\ (v'.pc = "writing" => ~InTx') /\ v'.shutting = b
  BY <1>1, <1>4, <1>6 DEF IInv, Onward, Around, Rest, InTx, Like
<1>9. Quiet'
  <2> SUFFICES ASSUME NEW e \in Calls, Cleanup(e)', call'[e].pc = "stopping",
                      \A d \in Calls \ {e} : ~Cleanup(d)'
               PROVE  v'.shutting /\ (Syncing(v') => e \in v'.waiters)
    BY DEF Quiet, Syncing
  <2>0. call'[c] = to /\ \A d \in Calls \ {c} : call'[d] = call[d]
    BY <1>1
  <2>1. CASE e = c
    <3>1. kind = "cleanup"
      BY <1>2, <2>0, <2>1 DEF Cleanup
    <3> QED
      BY <1>6, <1>8, <2>1, <3>1 DEF b
  <2>2. CASE e # c
    <3>1. kind = "stop" /\ w.shutting = v.shutting
      <4>1. kind # "cleanup"
        BY <1>2, <2>0, <2>2 DEF Cleanup
      <4>2. v.shutting \in BOOLEAN
        BY <1>1 DEF Service
      <4> QED
        BY <1>4, <4>1, <4>2 DEF b
    <3>2. \A d \in Calls \ {e} : ~Cleanup(d)
      BY <1>1, <2>0, <2>2 DEF Cleanup
    <3>3. Cleanup(e) /\ call[e].pc = "stopping"
      BY <2>0, <2>2 DEF Cleanup
    <3>4. v.shutting /\ (Syncing(v) => e \in v.waiters)
      BY <3>2, <3>3 DEF IInv, Quiet
    <3> QED
      BY <1>4, <1>6, <3>1, <3>4 DEF Onward, Like, Syncing
  <2> QED
    BY <2>1, <2>2
<1> QED
  BY <1>7, <1>8, <1>9 DEF IInv
(* A step of updateConfig that ends with its last part.                    *)
LEMMA ConfigSafe ==
  ASSUME IInv, NEW c \in Calls, NEW w, Onward(v, w), NEW e \in BOOLEAN \cup {None},
         v' = Switched(w, c, e), Around, NEW to \in Call,
         call' = [call EXCEPT ![c] = to],
         to.pc \in {"ending", "done"}, to.kind = "config",
         call[c].pc # "new" => to.kind = call[c].kind
  PROVE  IInv'
<1>1. Sound(w) /\ cache \in Seq(CacheEntry)
  BY DEF Onward, IInv, Shape
<1>2. Onward(w, v')
  BY <1>1, SwitchedOnward
<1>3. Onward(v, v')
  BY <1>2, OnwardTwice
<1> QED
  BY <1>3, CallStepSafe

(* A new call of updateConfig.                                             *)
LEMMA UpdateConfigSafe ==
  ASSUME IInv, NEW c \in Calls, NEW interval \in BOOLEAN, NEW enabled \in BOOLEAN \cup {None},
         UpdateConfig(c, interval, enabled)
  PROVE  IInv'
<1> DEFINE b == IF enabled = None THEN v.enabled ELSE enabled
           w == [v EXCEPT !.enabled = b]
<1>1. v \in Service /\ Sound(v) /\ call[c].pc = "new" /\ Around
  BY DEF IInv, Sound, UpdateConfig, Around
<1>2. b \in BOOLEAN
  BY <1>1 DEF Service
<1>3. \/ /\ v' = Stopped(w, c)
         /\ call' = [call EXCEPT ![c] = [pc |-> "stopping", kind |-> "config", enabled |-> enabled]]
      \/ /\ v' = Switched(w, c, enabled)
         /\ call' = [call EXCEPT ![c] = [pc |-> IF Ends(w, enabled) THEN "done" ELSE "ending",
                                         kind |-> "config", enabled |-> None]]
  BY <1>1 DEF UpdateConfig, Service
<1> HIDE DEF b
<1>4. Like(v, w) /\ w.shutting = v.shutting /\ w.waiters = v.waiters
  BY <1>1, <1>2 DEF Like, Service
<1> HIDE DEF w
<1>5. Onward(v, w)
  BY <1>1, <1>4, LikeSound
<1>6. CASE /\ v' = Stopped(w, c)
           /\ call' = [call EXCEPT ![c] = [pc |-> "stopping", kind |-> "config", enabled |-> enabled]]
  <2> DEFINE to == [pc |-> "stopping", kind |-> "config", enabled |-> enabled]
  <2>1. to \in Call /\ to.pc = "stopping" /\ to.kind = "config"
    BY DEF Call
  <2>2. Onward(w, v')
    BY <1>5, <1>6, StoppedOnward DEF Onward
  <2>3. Onward(v, v')
    BY <1>5, <2>2, OnwardTwice
  <2> HIDE DEF to
  <2>4. call' = [call EXCEPT ![c] = to]
    BY <1>6 DEF to
  <2> QED
    BY <1>1, <2>1, <2>3, <2>4, CallStepSafe
<1>7. CASE /\ v' = Switched(w, c, enabled)
           /\ call' = [call EXCEPT ![c] = [pc |-> IF Ends(w, enabled) THEN "done" ELSE "ending",
                                           kind |-> "config", enabled |-> None]]
  <2> DEFINE to == [pc |-> IF Ends(w, enabled) THEN "done" ELSE "ending",
                    kind |-> "config", enabled |-> None]
  <2>1. to \in Call /\ to.pc \in {"ending", "done"} /\ to.kind = "config"
    BY DEF Call
  <2> HIDE DEF to
  <2>2. call' = [call EXCEPT ![c] = to]
    BY <1>7 DEF to
  <2> QED
    BY <1>1, <1>5, <1>7, <2>1, <2>2, ConfigSafe
<1> QED
  BY <1>3, <1>6, <1>7

(* A call that goes on after the sync it waited for.                       *)
LEMMA ReturnSafe ==
  ASSUME IInv, NEW c \in Calls, EndStop(c) \/ RestartTimer(c) \/ EndConfig(c)
  PROVE  IInv'
<1>1. v \in Service /\ Sound(v) /\ call \in [Calls -> Call] /\ cache \in Seq(CacheEntry)
  BY DEF IInv, Shape, Sound
<1>2. call[c] \in Call /\ (call[c].pc # "new" => call[c].kind \in {"stop", "cleanup", "config"})
  BY <1>1 DEF IInv, Shape
<1>3. ASSUME NEW pc \in {"ending", "done"}
      PROVE  /\ [call[c] EXCEPT !.pc = pc] \in Call /\ [call[c] EXCEPT !.pc = pc].pc = pc
             /\ [call[c] EXCEPT !.pc = pc].kind = call[c].kind
  BY <1>2 DEF Call
<1>4. Onward(v, v)
  BY <1>1 DEF Onward
<1>5. ASSUME EndConfig(c) PROVE IInv'
  <2> DEFINE to == [call[c] EXCEPT !.pc = "done"]
  <2>1. call' = [call EXCEPT ![c] = to] /\ v' = v /\ Around /\ call[c].pc # "new"
    BY <1>1, <1>5 DEF EndConfig, Around, Rest
  <2>2. to \in Call /\ to.pc = "done" /\ to.kind = call[c].kind
    BY <1>3
  <2> HIDE DEF to
  <2> QED
    BY <1>2, <1>4, <2>1, <2>2, CallStepSafe
<1>6. ASSUME RestartTimer(c) PROVE IInv'
  <2> DEFINE w == Started(v)
             pc == IF Ends(w, call[c].enabled) THEN "done" ELSE "ending"
             to == [pc |-> pc, kind |-> "config", enabled |-> None]
  <2>1. call' = [call EXCEPT ![c] = to] /\ v' = Switched(w, c, call[c].enabled) /\ Around
        /\ call[c].kind = "config"
    BY <1>1, <1>6 DEF RestartTimer, StopReturns, Around
  <2>2. Onward(v, w)
    BY <1>1, StartedOnward
  <2>3. call[c].enabled \in BOOLEAN \cup {None}
    BY <1>2 DEF Call
  <2>4. pc \in {"ending", "done"}
    OBVIOUS
  <2> HIDE DEF w, pc
  <2>5. to \in Call /\ to.pc = pc /\ to.kind = call[c].kind
    BY <2>1, <2>4 DEF Call
  <2> HIDE DEF to
  <2> QED
    BY <2>1, <2>2, <2>3, <2>4, <2>5, ConfigSafe
<1>7. ASSUME EndStop(c), call[c].kind = "stop" PROVE IInv'
  <2> DEFINE to == [call[c] EXCEPT !.pc = "done"]
  <2>1. call' = [call EXCEPT ![c] = to] /\ v' = v /\ Around /\ call[c].pc # "new"
    BY <1>1, <1>7 DEF EndStop, StopReturns, Around
  <2>2. to \in Call /\ to.pc = "done" /\ to.kind = call[c].kind
    BY <1>3
  <2> HIDE DEF to
  <2> QED
    BY <1>2, <1>4, <2>1, <2>2, CallStepSafe
<1>8. ASSUME EndStop(c), call[c].kind # "stop" PROVE IInv'
  <2> DEFINE to == [call[c] EXCEPT !.pc = "done"]
  <2>0. call[c].kind # "config" /\ call[c].pc = "stopping"
    BY <1>8 DEF EndStop, StopReturns
  <2>1. /\ call' = [call EXCEPT ![c] = to] /\ Around
        /\ v' = [v EXCEPT !.deferred = FALSE, !.txDeferred = FALSE, !.shutting = FALSE]
    BY <1>1, <1>8 DEF EndStop, Around
  <2>2. to \in Call /\ to.pc = "done" /\ to.kind = call[c].kind
    BY <1>3
  <2> HIDE DEF to
  <2>3. Like(v, v')
    BY <1>1, <2>1 DEF Like, Service
  <2>4. Shape'
    <3>1. call' \in [Calls -> Call]
      BY <1>1, <2>1, <2>2
    <3>2. \A d \in Calls : call'[d].pc # "new" => call'[d].kind \in {"stop", "cleanup", "config"}
      <4>1. call'[c] = to /\ \A d \in Calls \ {c} : call'[d] = call[d]
        BY <1>1, <2>1
      <4>2. to.kind \in {"stop", "cleanup", "config"}
        BY <1>2, <2>0, <2>2
      <4> QED
        BY <4>1, <4>2 DEF IInv, Shape
    <3> QED
      BY <2>1, <3>1, <3>2, EventIs DEF IInv, Shape, Around, Rest
  <2>5. Sound(v') /\ (v'.pc = "writing" => ~InTx')
    BY <1>1, <2>1, <2>3, LikeSound DEF IInv, Around, Rest, InTx, Like
  <2>6. Cleanup(c)' /\ call'[c].pc = "done"
    BY <1>1, <1>2, <1>8, <2>0, <2>1, <2>2 DEF Cleanup
  <2>7. Quiet'
    BY <2>6 DEF Quiet
  <2> QED
    BY <2>4, <2>5, <2>7 DEF IInv
<1> QED
  BY <1>5, <1>6, <1>7, <1>8

(* A client dirties an entry.                                              *)
LEMMA WriteEntrySafe ==
  ASSUME IInv, NEW k \in Keys, WriteEntry(k)
  PROVE  IInv'
<1> DEFINE e == [key |-> k, val |-> clock + 1, dirty |-> TRUE]
<1>1. /\ cache \in Seq(CacheEntry) /\ clock \in 0..MaxEvents /\ Event /\ MaxEvents \in Nat
      /\ \A n, m \in DOMAIN cache : cache[n].key = cache[m].key => n = m
  BY Bounds DEF IInv, Shape, WriteEntry
<1>2. clock + 1 \in 1..MaxEvents /\ clock' \in 0..MaxEvents
  BY <1>1 DEF Event
<1>3. e \in CacheEntry /\ e.key = k
  BY <1>2 DEF CacheEntry
<1>4. cache' = IF \E n \in DOMAIN cache : cache[n].key = k
               THEN [n \in DOMAIN cache |-> IF cache[n].key = k THEN e ELSE cache[n]]
               ELSE Append(cache, e)
  BY DEF WriteEntry
<1> HIDE DEF e
<1>5. cache' \in Seq(CacheEntry) /\ \A n, m \in DOMAIN cache' : cache'[n].key = cache'[m].key => n = m
  <2>0. /\ Len(cache) \in Nat /\ DOMAIN cache = 1..Len(cache)
        /\ \A n \in DOMAIN cache : cache[n] \in CacheEntry
    BY <1>1
  <2>1. CASE \E n \in DOMAIN cache : cache[n].key = k
    <3>1. cache' = [n \in DOMAIN cache |-> IF cache[n].key = k THEN e ELSE cache[n]]
      BY <1>4, <2>1
    <3>2. cache' \in [1..Len(cache) -> CacheEntry]
      BY <1>3, <2>0, <3>1
    <3>3. cache' \in Seq(CacheEntry)
      BY <2>0, <3>2
    <3>4. DOMAIN cache' = DOMAIN cache /\ \A n \in DOMAIN cache : cache'[n].key = cache[n].key
      BY <1>3, <3>1
    <3> QED
      BY <1>1, <3>3, <3>4
  <2>2. CASE ~\E n \in DOMAIN cache : cache[n].key = k
    <3>1. cache' = Append(cache, e)
      BY <1>4, <2>2
    <3>2. cache' \in Seq(CacheEntry)
      BY <1>1, <1>3, <3>1
    <3>3. \A n \in DOMAIN cache' : \/ (n \in DOMAIN cache /\ cache'[n] = cache[n])
                                  \/ (n = Len(cache) + 1 /\ cache'[n] = e)
      BY <1>1, <1>3, <3>1
    <3> QED
      BY <1>1, <1>3, <2>2, <3>2, <3>3
  <2> QED
    BY <2>1, <2>2
<1>6. Shape'
  BY <1>2, <1>5 DEF IInv, Shape, WriteEntry
<1>7. v' = v /\ call' = call /\ tx' = tx
  BY DEF WriteEntry
<1>8. Onward(v, v')
  BY <1>7 DEF IInv, Onward
<1> QED
  BY <1>6, <1>7, <1>8, ServiceStep

(* Steps that change neither the service nor its calls.                    *)
LEMMA QuietStep ==
  ASSUME IInv, Shape', v' = v, call' = call, v.pc = "writing" => ~InTx'
  PROVE  IInv'
  BY DEF IInv, Quiet, Cleanup, Syncing

(* Entries that leave the cache.                                           *)
LEMMA RemoveEntrySafe ==
  ASSUME IInv, NEW k \in Keys, RemoveEntry(k)
  PROVE  IInv'
<1> DEFINE S == Keys \ {k}
<1>1. /\ cache \in Seq(CacheEntry) /\ DOMAIN cache = 1..Len(cache) /\ cache' = Among(cache, S)
      /\ \A n, m \in DOMAIN cache : cache[n].key = cache[m].key => n = m
  BY DEF IInv, Shape, RemoveEntry
<1> HIDE DEF S
<1>2. /\ cache' \in Seq(CacheEntry)
      /\ \A n, m \in 1..Len(cache') : cache'[n].key = cache'[m].key => n = m
  <2>1. \A n, m \in 1..Len(cache) : cache[n].key = cache[m].key => n = m
    BY <1>1
  <2>2. /\ Among(cache, S) \in Seq(CacheEntry)
        /\ \A n, m \in 1..Len(Among(cache, S)) :
              Among(cache, S)[n].key = Among(cache, S)[m].key => n = m
    <3>1. cache \in Seq(CacheEntry)
      BY <1>1
    <3> QED
      BY <2>1, <3>1, AmongIs
  <2> QED
    BY <1>1, <2>2
<1>3. \A n, m \in DOMAIN cache' : cache'[n].key = cache'[m].key => n = m
  BY <1>2
<1>4. Shape'
  BY <1>2, <1>3, EventIs DEF IInv, Shape, RemoveEntry
<1> QED
  BY <1>4, QuietStep DEF RemoveEntry, IInv, InTx

(* Clients write and drop tables.                                          *)
LEMMA ClientSafe ==
  ASSUME IInv, NEW t \in Tables, NEW i \in Ids, Put(t, i) \/ DropTable(t)
  PROVE  IInv'
<1>1. /\ storage \in [Tables -> Table] /\ staged \in [Tables -> Table] /\ clock \in 0..MaxEvents
      /\ None \in Table
  BY DEF IInv, Shape, Table
<1>2. [Rows(View(t)) EXCEPT ![i] = clock + 1] \in Table
  <2>1. Rows(View(t)) \in Contents /\ clock + 1 \in Nat
    BY <1>1, ViewIs, Bounds DEF IInv
  <2> QED
    BY <2>1 DEF Contents, Table
<1>3. storage' \in [Tables -> Table] /\ staged' \in [Tables -> Table]
  BY <1>1, <1>2 DEF Put, DropTable
<1>4. Shape'
  BY <1>3, EventIs DEF IInv, Shape, Put, DropTable
<1> QED
  BY <1>4, QuietStep DEF Put, DropTable, IInv, InTx

(* Transactions of others.                                                 *)
LEMMA OthersSafe ==
  ASSUME IInv, BeginTx("plain") \/ BeginTx("owned") \/ EndTx
  PROVE  IInv'
<1>1. v' = v /\ call' = call /\ (v.pc = "writing" => ~InTx')
  BY DEF IInv, BeginTx, EndTx, InTx
<1>2. tx' \in {"off", "plain", "owned"}
  BY DEF BeginTx, EndTx
<1>3. storage' \in [Tables -> Table] /\ staged' \in [Tables -> Table]
  <2>1. \A t \in Tables : View(t) \in Table
    BY ViewIs DEF IInv
  <2>2. [t \in Tables |-> View(t)] \in [Tables -> Table] /\ [t \in Tables |-> None] \in [Tables -> Table]
    BY <2>1 DEF Table
  <2> QED
    BY <2>2 DEF BeginTx, EndTx, IInv, Shape
<1>4. Shape'
  <2>1. UNCHANGED <<cache, call>> /\ (Event \/ UNCHANGED clock)
    BY DEF BeginTx, EndTx
  <2> QED
    BY <1>2, <1>3, <2>1, EventIs DEF IInv, Shape
<1> QED
  BY <1>1, <1>4, QuietStep

(* It holds at first,                                                      *)
LEMMA IInvInit == Init => IInv
<1> SUFFICES ASSUME Init PROVE IInv
  OBVIOUS
<1>1. MaxEvents \in Nat /\ MaxRetries \in Nat
  BY Bounds
<1>2. Shape
  <2>1. <<>> \in Seq(CacheEntry) /\ \A n \in DOMAIN <<>> : FALSE
    OBVIOUS
  <2>2. storage \in [Tables -> Table] /\ staged \in [Tables -> Table]
    BY DEF Init, Contents, Table
  <2>3. call \in [Calls -> Call] /\ \A c \in Calls : call[c].pc = "new"
    BY DEF Init, Call
  <2> QED
    <3>1. cache = <<>> /\ tx = "off" /\ clock = 0
      BY DEF Init
    <3>2. tx \in {"off", "plain", "owned"} /\ clock \in 0..MaxEvents
      BY <1>1, <3>1
    <3>3. cache \in Seq(CacheEntry)
          /\ \A n, m \in DOMAIN cache : cache[n].key = cache[m].key => n = m
      BY <2>1, <3>1
    <3> QED
      BY <2>2, <2>3, <3>2, <3>3 DEF Shape
<1>3. v \in Service /\ v.pc = "idle" /\ v.batch = <<>>
  <2>1. <<>> \in Seq(Entry) /\ 0 \in 0..MaxRetries /\ {} \in SUBSET Calls
    BY <1>1
  <2> QED
    BY <2>1 DEF Init, Service, Pcs
<1>5. Sound(v)
  BY <1>3 DEF Sound
<1>6. Quiet
  BY DEF Init, Quiet, Cleanup
<1> QED
  BY <1>2, <1>3, <1>5, <1>6 DEF IInv

(* and every step keeps it,                                                *)
LEMMA IInvNext == IInv /\ [Next]_vars => IInv'
<1> SUFFICES ASSUME IInv, [Next]_vars PROVE IInv'
  OBVIOUS
<1>1. CASE UNCHANGED vars
  <2>1. Shape' /\ v' = v /\ call' = call /\ tx' = tx
    BY <1>1 DEF IInv, Shape, vars
  <2>2. Onward(v, v')
    BY <2>1 DEF IInv, Onward
  <2> QED
    BY <2>1, <2>2, ServiceStep
<1>2. CASE Start \/ Sync(TRUE) \/ Sync(FALSE) \/ SyncStep
  BY <1>2, SyncStepSafe
<1>3. ASSUME NEW c \in Calls, Stop(c, "stop") \/ Stop(c, "cleanup") PROVE IInv'
  BY <1>3, StopSafe
<1>4. ASSUME NEW c \in Calls, CallStep(c) PROVE IInv'
  BY <1>4, ReturnSafe DEF CallStep
<1>5. CASE \E k \in Keys : WriteEntry(k)
  BY <1>5, WriteEntrySafe
<1>6. CASE BeginTx("plain") \/ BeginTx("owned") \/ EndTx
  BY <1>6, OthersSafe
<1>8. CASE \E k \in Keys : RemoveEntry(k)
  BY <1>8, RemoveEntrySafe
<1>9. CASE \E e \in Edits : Put(e[1], e[2]) \/ DropTable(e[1])
  BY <1>9, ClientSafe, SyncAssumption DEF SyncAssumption
<1>7. ASSUME NEW c \in Calls, NEW interval \in BOOLEAN, NEW enabled \in BOOLEAN \cup {None},
             UpdateConfig(c, interval, enabled)
      PROVE  IInv'
  BY <1>7, UpdateConfigSafe
<1> QED
  BY <1>1, <1>2, <1>3, <1>4, <1>5, <1>6, <1>7, <1>8, <1>9 DEF Next

-----------------------------------------------------------------------------
(* What follows                                                            *)

(* It gives the type invariant                                             *)
LEMMA IInvTypeOK == IInv => TypeOK
<1> SUFFICES ASSUME IInv PROVE TypeOK
  OBVIOUS
<1>1. v \in Service /\ Shape
  BY DEF IInv, Sound
<1>2. {v.more, v.timer, v.enabled, v.shutting, v.deferred, v.txDeferred} \subseteq BOOLEAN
  <2>1. /\ v.more \in BOOLEAN /\ v.timer \in BOOLEAN /\ v.enabled \in BOOLEAN
        /\ v.shutting \in BOOLEAN /\ v.deferred \in BOOLEAN /\ v.txDeferred \in BOOLEAN
    BY <1>1 DEF Service
  <2> QED
    BY <2>1
<1>3. /\ v.pc \in Pcs /\ v.queue \in Seq(Entry) /\ v.batch \in Seq(Entry)
      /\ v.base \in Contents \cup {None} /\ v.attempt \in 0..MaxRetries
      /\ v.waiters \subseteq Calls /\ v.minItems \in MinItems
  BY <1>1 DEF Service
<1> QED
  BY <1>1, <1>2, <1>3 DEF TypeOK, Shape, CacheEntry, Call, Pcs, Table

(* and the quiet end of a cleanup.                                         *)
LEMMA IInvQuiet == IInv => CleanupIsQuiet
<1> SUFFICES ASSUME IInv, NEW c \in Calls, call[c].kind = "cleanup", StopReturns(c),
                    \A d \in Calls \ {c} : call[d].kind # "cleanup"
             PROVE  ~Syncing(v)
  BY DEF CleanupIsQuiet
<1>1. Cleanup(c) /\ call[c].pc = "stopping" /\ \A d \in Calls \ {c} : ~Cleanup(d)
  BY DEF Cleanup, StopReturns
<1> QED
  BY <1>1 DEF IInv, Quiet, StopReturns

(* so that it holds always.                                                *)
LEMMA SpecIInv == Spec => []IInv
  BY IInvInit, IInvNext, PTL DEF Spec

(* No step of a transaction changes a table.                               *)
LEMMA WritesOutside ==
  ASSUME IInv, [Next]_vars
  PROVE  InTx => storage' = storage \/ (tx' = "off" /\ v' = v)
<1> SUFFICES ASSUME InTx, ~(tx' = "off" /\ v' = v) PROVE storage' = storage
  OBVIOUS
<1>1. CASE UNCHANGED vars
  BY <1>1 DEF vars
<1>2. CASE Start \/ Sync(TRUE) \/ Sync(FALSE)
  BY <1>2 DEF Start, Sync
<1>3. CASE SyncStep
  BY <1>3 DEF IInv, SyncStep, Listed, ReadTable, TryWrite, WriteSucceeds, WriteFails, Retry
<1>4. ASSUME NEW c \in Calls, \/ Stop(c, "stop") \/ Stop(c, "cleanup") \/ CallStep(c)
                              \/ \E interval \in BOOLEAN, enabled \in BOOLEAN \cup {None} :
                                    UpdateConfig(c, interval, enabled)
      PROVE  storage' = storage
  BY <1>4 DEF Stop, CallStep, EndStop, RestartTimer, EndConfig, UpdateConfig, Rest
<1>5. CASE \/ \E k \in Keys : WriteEntry(k) \/ RemoveEntry(k)
           \/ \E e \in Edits : Put(e[1], e[2]) \/ DropTable(e[1])
           \/ BeginTx("plain") \/ BeginTx("owned") \/ EndTx
  BY <1>5 DEF WriteEntry, RemoveEntry, Put, DropTable, BeginTx, EndTx
<1> QED
  BY <1>1, <1>2, <1>3, <1>4, <1>5 DEF Next

(* What the end of a mark of k promises.                                   *)
Stored(k) ==
  \E n \in DOMAIN v.batch :
     /\ v.batch[n].key = k
     /\ \A i \in Holds[k] : \E m \in DOMAIN v.batch :
          /\ i \in Holds[v.batch[m].key]
          /\ storage'[TableOf[k]][i] = v.batch[m].val

(* Only a write that succeeds takes marks away, from entries of its batch. *)
LEMMA CleansStored ==
  ASSUME IInv, [Next]_vars, NEW k \in Keys, IsDirty(k), IsClean(k)'
  PROVE  Stored(k)
<1>0. /\ cache \in Seq(CacheEntry) /\ storage \in [Tables -> Table] /\ Sound(v)
      /\ \A n, m \in DOMAIN cache : cache[n].key = cache[m].key => n = m
  BY DEF IInv, Shape
<1>1. \A n \in DOMAIN cache : cache[n].key = k => cache[n].dirty
  BY <1>0 DEF IsDirty
<1>2. PICK n \in DOMAIN cache' : cache'[n].key = k /\ ~cache'[n].dirty
  BY DEF IsClean
<1>3. CASE cache' = cache
  BY <1>1, <1>2, <1>3
<1>4. CASE WriteSucceeds
  <2>1. cache' = Cleaned(v.batch) /\ v.pc = "writing"
        /\ storage' = [storage EXCEPT ![Batched] = Merged(v.base, v.batch)]
    BY <1>4 DEF WriteSucceeds
  <2>2. n \in DOMAIN cache
        /\ cache'[n] = [cache[n] EXCEPT !.dirty = @ /\ \A m \in DOMAIN v.batch :
                                                         v.batch[m].key # cache[n].key]
    BY <1>2, <2>1 DEF Cleaned
  <2>3. cache[n] \in CacheEntry
    BY <1>0, <2>2
  <2>4. cache'[n].key = cache[n].key
        /\ cache'[n].dirty = (cache[n].dirty /\ \A m \in DOMAIN v.batch : v.batch[m].key # cache[n].key)
    BY <2>2, <2>3 DEF CacheEntry
  <2>5. PICK m \in DOMAIN v.batch : v.batch[m].key = k
    BY <1>1, <1>2, <2>2, <2>4
  <2>6. Batched \in Tables /\ Batched = TableOf[k]
    BY <1>0, <2>1, <2>5, WriteIs DEF Batched
  <2>7. storage'[TableOf[k]] = Merged(v.base, v.batch)
    BY <1>0, <2>1, <2>6
  <2>8. \A i \in Holds[k] : \E j \in DOMAIN v.batch :
          /\ i \in Holds[v.batch[j].key] /\ Merged(v.base, v.batch)[i] = v.batch[j].val
    <3>1. \A i \in Holds[v.batch[m].key] : \E j \in DOMAIN v.batch :
            /\ i \in Holds[v.batch[j].key] /\ Merged(v.base, v.batch)[i] = v.batch[j].val
      BY <1>0, <2>1, WriteIs
    <3> QED
      BY <2>5, <3>1
  <2> QED
    BY <2>5, <2>7, <2>8 DEF Stored
<1>5. CASE \E l \in Keys : WriteEntry(l)
  <2>1. PICK l \in Keys : WriteEntry(l)
    BY <1>5
  <2> DEFINE e == [key |-> l, val |-> clock + 1, dirty |-> TRUE]
  <2>2. cache' = IF \E j \in DOMAIN cache : cache[j].key = l
                 THEN [j \in DOMAIN cache |-> IF cache[j].key = l THEN e ELSE cache[j]]
                 ELSE Append(cache, e)
    BY <2>1 DEF WriteEntry
  <2>3. e.dirty
    OBVIOUS
  <2> HIDE DEF e
  <2>4. cache'[n] = e \/ (n \in DOMAIN cache /\ cache'[n] = cache[n])
    BY <1>0, <1>2, <2>2
  <2> QED
    BY <1>1, <1>2, <2>3, <2>4
<1>7. CASE \E l \in Keys : RemoveEntry(l)
  <2>1. PICK l \in Keys : cache' = Among(cache, Keys \ {l})
    BY <1>7 DEF RemoveEntry
  <2> DEFINE S == Keys \ {l}
  <2> HIDE DEF S
  <2>2. /\ Among(cache, S) \in Seq(CacheEntry)
        /\ \A j \in 1..Len(Among(cache, S)) : \E m \in 1..Len(cache) : Among(cache, S)[j] = cache[m]
    <3>1. cache \in Seq(CacheEntry)
      BY <1>0
    <3> QED
      BY <3>1, AmongIs
  <2>4. cache' = Among(cache, S)
    BY <2>1 DEF S
  <2>3. \E m \in DOMAIN cache : cache'[n] = cache[m]
    BY <1>0, <1>2, <2>2, <2>4
  <2> QED
    BY <1>1, <1>2, <2>3
<1>6. \/ cache' = cache \/ WriteSucceeds \/ \E l \in Keys : WriteEntry(l) \/ RemoveEntry(l)
  <2>1. CASE UNCHANGED vars
    BY <2>1 DEF vars
  <2>2. CASE Start \/ Sync(TRUE) \/ Sync(FALSE)
    BY <2>2 DEF Start, Sync
  <2>3. CASE SyncStep
    BY <2>3 DEF SyncStep, Listed, ReadTable, TryWrite, WriteFails, Retry
  <2>4. ASSUME NEW c \in Calls, \/ Stop(c, "stop") \/ Stop(c, "cleanup") \/ CallStep(c)
                                \/ \E interval \in BOOLEAN, enabled \in BOOLEAN \cup {None} :
                                      UpdateConfig(c, interval, enabled)
        PROVE  cache' = cache
    BY <2>4 DEF Stop, CallStep, EndStop, RestartTimer, EndConfig, UpdateConfig, Rest
  <2>5. CASE \/ \E e \in Edits : Put(e[1], e[2]) \/ DropTable(e[1])
             \/ BeginTx("plain") \/ BeginTx("owned") \/ EndTx
    BY <2>5 DEF Put, DropTable, BeginTx, EndTx
  <2> QED
    BY <2>1, <2>2, <2>3, <2>4, <2>5 DEF Next
<1> QED
  BY <1>3, <1>4, <1>5, <1>6, <1>7

(* The state keeps its shape: the batch within its size, the attempts      *)
(* within the retries.                                                     *)
THEOREM TypeCorrect == Spec => []TypeOK
  BY SpecIInv, IInvTypeOK, PTL

(* A cleanup that is the only one returns when no sync runs.               *)
THEOREM ConsistentHolds == Spec => []Consistent
<1>1. IInv => Consistent
  BY IInvTypeOK, IInvQuiet DEF Consistent
<1> QED
  BY SpecIInv, <1>1, PTL

(* Through every retry and backoff, no table is written while a            *)
(* transaction is active.                                                  *)
THEOREM NoWriteHolds == Spec => NoWriteInTransaction
<1>1. IInv /\ [Next]_vars => [InTx => storage' = storage \/ (tx' = "off" /\ v' = v)]_vars
  BY WritesOutside
<1> QED
  BY SpecIInv, <1>1, PTL DEF Spec, NoWriteInTransaction

(* An entry loses its mark only when its table holds the records the sync  *)
(* took from it, or those of another entry of the batch.                   *)
THEOREM CleanedHolds == Spec => CleanedIsStored
<1> DEFINE Fine == \A k \in Keys : IsDirty(k) /\ IsClean(k)' =>
       \E n \in DOMAIN v.batch :
          /\ v.batch[n].key = k
          /\ \A i \in Holds[k] : \E m \in DOMAIN v.batch :
               /\ i \in Holds[v.batch[m].key]
               /\ storage'[TableOf[k]][i] = v.batch[m].val
<1>1. IInv /\ [Next]_vars => [Fine]_vars
  BY CleansStored DEF Stored
<1> QED
  BY SpecIInv, <1>1, PTL DEF Spec, CleanedIsStored

(* Both of what a sync promises of its writes.                             *)
THEOREM SyncWritesHolds == Spec => SyncWrites
  BY NoWriteHolds, CleanedHolds, PTL DEF SyncWrites
=============================================================================
