------------------------------ MODULE ApiGate ------------------------------
(***************************************************************************)
(* The token buckets of the API (core/api/RateLimiter.ts) and the requests *)
(* of ApiWrapper.ts that pay them: each operation validates its arguments, *)
(* pays its cost and calls storage, in the order its method has.           *)
(*                                                                         *)
(* Time is counted in units of which Period make a token (1000 / rate).    *)
(* At most MaxTracked buckets exist; further clients, and clients without  *)
(* a valid name, share the Overflow bucket.  Every method is synchronous   *)
(* up to its storage call, so it is one step.                              *)
(*                                                                         *)
(* since and spent watch the code: the tokens each bucket has granted      *)
(* since an arbitrary moment.                                              *)
(***************************************************************************)
EXTENDS Integers, FiniteSets

CONSTANTS
  Clients,      \* valid client identifiers
  Overflow,     \* the shared bucket, and any identifier that is not valid
  None,
  MaxTracked,   \* MAX_TRACKED_CLIENTS
  Idle,         \* CLIENT_IDLE_TIMEOUT_MS
  Configs,      \* [period, capacity, enabled]
  Operations,   \* the operations that requests call
  Records,      \* numbers of records in writes
  MaxTime       \* bound on the time

Buckets == Clients \cup {Overflow}
Bucket == [tokens: Int, last: Int, seen: Int]

OperationNames ==
  {"createTable", "deleteTable", "hasTable", "count", "findOne", "listTables", "read", "findMany",
   "overwrite", "write", "one", "bulkWrite", "migrateToChunked"}

ASSUME GateAssumption ==
  /\ Overflow \notin Clients /\ None \notin Buckets \cup Bucket
  /\ MaxTracked \in Nat \ {0} /\ Idle \in Nat /\ MaxTime \in Nat
  /\ \A c \in Configs : /\ c.period \in Nat \ {0} /\ c.capacity \in Nat \ {0}
                        /\ c.enabled \in BOOLEAN
  /\ Records \subseteq Nat \ {0} /\ Operations \subseteq OperationNames

VARIABLES
  config,
  bucket,    \* [Buckets -> Bucket or None]
  now,
  since, spent

gateVars == <<config, bucket, now, since, spent>>

Tracked(bs) == {b \in Buckets : bs[b] # None}
Period == config.period
Capacity == config.capacity

Lesser(a, b) == IF a <= b THEN a ELSE b
Greater(a, b) == IF a >= b THEN a ELSE b

-----------------------------------------------------------------------------
(* The limiter                                                             *)

\* pruneIdleClients: the idle buckets go, the shared one too.
Pruned == [b \in Buckets |->
             IF bucket[b] # None /\ now - bucket[b].seen >= Idle THEN None ELSE bucket[b]]

\* resolveClientId: buckets are pruned only for a client without one.
Known(c) == c = Overflow \/ bucket[c] # None
After(c) == IF Known(c) THEN bucket ELSE Pruned
\* Mutant: leaves no room for the shared bucket.
Resolved_NoReserve(c) ==
  IF Known(c) THEN c
  ELSE IF Cardinality(Tracked(Pruned)) >= MaxTracked THEN Overflow ELSE c

Resolved(c) ==
  IF Known(c) THEN c
  ELSE IF Cardinality(Tracked(Pruned)) >= MaxTracked - 1 THEN Overflow ELSE c

\* Mutant: a token as soon as some of its time has passed.
Refilled_RoundingUp(b) ==
  LET n == (now - b.last + Period - 1) \div Period
  IN [tokens |-> Lesser(b.tokens + n, Capacity), last |-> now, seen |-> now]

\* refill keeps the part of a token that has passed.
Refilled(b) ==
  LET n == (now - b.last) \div Period
  IN [tokens |-> IF n > 0 THEN Lesser(b.tokens + n, Capacity) ELSE b.tokens,
      last |-> b.last + n * Period,
      seen |-> now]

Fresh == [tokens |-> Capacity, last |-> now, seen |-> now]

\* The bucket that a request of c pays from, and whether it has n tokens.
Current(c) ==
  LET b == After(c)[Resolved(c)] IN IF b = None THEN Fresh ELSE Refilled(b)
Pays(c, n) == Current(c).tokens >= n

\* A refused request leaves its refill, but creates no bucket.
Paid(c, n) ==
  LET r == Resolved(c)
  IN IF Pays(c, n) THEN [After(c) EXCEPT ![r] = [Current(c) EXCEPT !.tokens = @ - n]]
     ELSE IF After(c)[r] = None THEN After(c)
     ELSE [After(c) EXCEPT ![r] = Current(c)]

\* Mutant: waits for one token less.
RetryAfter_OneShort(b, n) == Greater(1, (n - b.tokens - 1) * Period - (now - b.last))

\* getRetryAfter, for a bucket that is up to date.
RetryAfter(b, n) == Greater(1, (n - b.tokens) * Period - (now - b.last))

\* consume(c, n) with n >= 1.
Consume(c, n) ==
  /\ IF config.enabled
     THEN /\ bucket' = Paid(c, n)
          /\ spent' = [spent EXCEPT ![Resolved(c)] = IF Pays(c, n) THEN @ + n ELSE @]
     ELSE UNCHANGED <<bucket, spent>>
  /\ UNCHANGED <<config, now, since>>

\* check(c) takes one token.
Check(c) == Consume(c, 1)

\* reset and clear give buckets back in full; the watch starts again for them.
Reset(c) ==
  /\ c \in Clients
  /\ bucket' = [bucket EXCEPT ![c] = None]
  /\ spent' = [spent EXCEPT ![c] = 0]
  /\ UNCHANGED <<config, now, since>>

ClearAll ==
  /\ bucket' = [b \in Buckets |-> None]
  /\ spent' = [b \in Buckets |-> 0]
  /\ UNCHANGED <<config, now, since>>

\* updateConfig takes away what exceeds the new capacity.
UpdateConfig(c) ==
  /\ config' = c
  /\ bucket' = [b \in Buckets |->
                  IF bucket[b] = None THEN None
                  ELSE [bucket[b] EXCEPT !.tokens = Lesser(@, c.capacity)]]
  /\ since' = now /\ spent' = [b \in Buckets |-> 0]
  /\ UNCHANGED now

-----------------------------------------------------------------------------
(* The requests                                                            *)

\* The methods that validate all arguments before they pay.
ValidatesFirst == {"createTable", "overwrite", "write", "bulkWrite"}

Cost(op, n) ==
  CASE op = "createTable" -> 5
    [] op = "deleteTable" -> 3
    [] op \in {"hasTable", "count", "findOne"} -> 1
    [] op \in {"listTables", "read", "findMany"} -> 2
    [] op \in {"overwrite", "write"} -> Lesser(n, 10)
    [] op = "one" -> 3    \* overwrite and write of a single object
    [] op = "bulkWrite" -> Lesser(2 * n, 20)
    [] op = "migrateToChunked" -> 10

\* A request with valid arguments pays, then calls storage if it could.
ValidRequest(c, op, n) == Consume(c, Cost(op, n))

\* One with invalid arguments pays when its method pays first.
InvalidRequest(c, op, n) ==
  IF op \in ValidatesFirst \cup {"one"} THEN UNCHANGED gateVars ELSE Consume(c, Cost(op, n))

-----------------------------------------------------------------------------
Tick == now < MaxTime /\ now' = now + 1 /\ UNCHANGED <<config, bucket, since, spent>>

\* The watch starts at an arbitrary moment.
Watch ==
  /\ since' = now /\ spent' = [b \in Buckets |-> 0]
  /\ UNCHANGED <<config, bucket, now>>

GateInit ==
  /\ config \in Configs
  /\ bucket = [b \in Buckets |-> None]
  /\ now = 0 /\ since = 0
  /\ spent = [b \in Buckets |-> 0]

GateNext ==
  \/ \E c \in Buckets, op \in Operations, n \in Records :
       ValidRequest(c, op, n) \/ InvalidRequest(c, op, n)
  \/ \E c \in Buckets : Check(c) \/ Reset(c)
  \/ ClearAll
  \/ \E c \in Configs : UpdateConfig(c)
  \/ Tick
  \/ Watch

GateSpec == GateInit /\ [][GateNext]_gateVars

-----------------------------------------------------------------------------
(* Properties                                                              *)

\* The shape of every variable; no bucket has less than no token or more
\* than its capacity, and none lies in the future.
GateTypeOK ==
  /\ config \in Configs
  /\ bucket \in [Buckets -> Bucket \cup {None}]
  /\ now \in Nat /\ since \in Nat /\ since <= now
  /\ spent \in [Buckets -> Nat]
  /\ \A b \in Buckets : bucket[b] # None =>
       /\ bucket[b].tokens \in 0..Capacity
       /\ bucket[b].last <= bucket[b].seen /\ bucket[b].seen <= now

\* Whatever names clients come up with, there are at most MaxTracked buckets.
BoundedState == Cardinality(Tracked(bucket)) <= MaxTracked

\* The limit itself: in any stretch of time a bucket grants at most its
\* capacity and what the rate adds, through refills, refusals, pruning and
\* reuse of the bucket.  A bucket must be able to fill up within the idle
\* timeout: a slower one is forgotten half empty and starts again full.
FillsWhileIdle == Capacity * Period <= Idle
RateIsKept ==
  FillsWhileIdle =>
    \A b \in Buckets : Period * spent[b] <= Period * Capacity + (Period - 1) + (now - since)

\* A refused client that waits retryAfter is admitted, if nobody else uses
\* the bucket in between and the cost is not above the capacity.
RetryAfterIsEnough ==
  \A b \in Tracked(bucket), n \in 1..Capacity :
     LET r == Refilled(bucket[b])
     IN r.tokens < n => r.tokens + (now + RetryAfter(r, n) - r.last) \div Period >= n

\* Buckets are well formed and bounded in number, and a client that waits
\* as long as a refusal tells it is admitted.
GateConsistent == GateTypeOK /\ BoundedState /\ RetryAfterIsEnough
=============================================================================
