------------------------------- MODULE Cache -------------------------------
(***************************************************************************)
(* The in-memory cache (core/cache/CacheManager.ts): items with an expiry, *)
(* an LRU list or LFU classes that choose the victim, a memory counter, a  *)
(* binary heap of expiries for the periodic sweep, and one promise chain   *)
(* per key so that concurrent getSafe calls fetch once.                    *)
(*                                                                         *)
(* The synchronous methods are single steps; getSafe, setSafe and          *)
(* getWithPenetrationProtection go from one await to the next in a step.   *)
(* A configuration (strategy, limits, the calls that run) is chosen in     *)
(* CacheInit and never changes.  A value stands for its size and for       *)
(* whether it is null or undefined; statistics of hits and writes are left *)
(* out.                                                                    *)
(***************************************************************************)
EXTENDS Naturals, Sequences, SequencesExt, FiniteSetsExt

CONSTANTS
  CacheKeys,
  Configs,      \* [strategy, maxSize, memory (0: no limit), keys, values, marks, calls, direct]
  Null, Undefined,   \* two values that stand for no data
  None,
  Size,         \* [value -> Nat], calculateDataSize
  CallKind,     \* [call -> {"get", "set", "guarded"}]
  TTLs,         \* expiry times, jitter included
  Default,      \* default value of getWithPenetrationProtection
  MinHeap, HeapFactor,   \* MIN_EXPIRY_HEAP_SIZE, EXPIRY_HEAP_REBUILD_MULTIPLIER
  MaxClock,     \* bound on the time
  MaxCount      \* bound on the accesses of an item

Calls == DOMAIN CallKind
Values == DOMAIN Size

ASSUME CacheAssumption ==
  /\ \A c \in Configs : /\ c.strategy \in {"lru", "lfu"}
                        /\ c.maxSize \in Nat \ {0} /\ c.memory \in Nat
                        /\ c.keys \subseteq CacheKeys /\ c.values \subseteq Values
                        /\ c.calls \subseteq Calls /\ c.marks \subseteq BOOLEAN /\ c.direct \in BOOLEAN
  /\ {Null, Undefined} \subseteq Values /\ Default \in Values
  /\ Size \in [Values -> Nat] /\ Size[Null] = 0 /\ Size[Undefined] = 0
  /\ None \notin Calls /\ TTLs \subseteq Nat

VARIABLES
  config,
  s,         \* the cache: items, lru, classes, minFreq, memory, heap
  looping,   \* cleanupByMemoryUsage never leaves its loop
  call,      \* the asynchronous calls
  tail,      \* [CacheKeys -> the call at the end of the key's chain]
  clock

cacheVars == <<config, s, looping, call, tail, clock>>

Item == [val: Values, expiry: Nat, count: 1..MaxCount, dirty: BOOLEAN]
Present(st) == {k \in CacheKeys : st.items[k] # None}

-----------------------------------------------------------------------------
(* The expiry heap: an array of <<expiry, key>>.  Up and Down are the two  *)
(* sift loops, the parent of i being i \div 2 (arrays start at 1 here).    *)

Swap(h, i, j) == [h EXCEPT ![i] = h[j], ![j] = h[i]]

Heaps == Seq(Nat \X CacheKeys)

Up[h \in Heaps, i \in Nat] ==
  IF i <= 1 \/ h[i \div 2][1] <= h[i][1] THEN h
  ELSE Up[Swap(h, i, i \div 2), i \div 2]

\* Mutant: looks at the left child only.
Smallest_Left(h, i) == IF 2 * i <= Len(h) /\ h[2 * i][1] < h[i][1] THEN 2 * i ELSE i

Smallest(h, i) ==
  LET l == 2 * i  r == 2 * i + 1
      a == IF l <= Len(h) /\ h[l][1] < h[i][1] THEN l ELSE i
  IN IF r <= Len(h) /\ h[r][1] < h[a][1] THEN r ELSE a

Down[h \in Heaps, i \in Nat] ==
  LET m == Smallest(h, i) IN IF m = i THEN h ELSE Down[Swap(h, i, m), m]

Push(h, x) == Up[Append(h, x), Len(h) + 1]

Pop(h) == IF Len(h) = 1 THEN <<>>
          ELSE Down[<<h[Len(h)]>> \o SubSeq(h, 2, Len(h) - 1), 1]

\* Floyd's construction over the items in the order the map lists them.
Heapified(h) == FoldRight(LAMBDA i, g : Down[g, i], [i \in 1..(Len(h) \div 2) |-> i], h)

Entries(st, keys) == FoldLeft(LAMBDA h, k : Append(h, <<st.items[k].expiry, k>>), <<>>, keys)

Rebuilt(st) ==
  IF Len(st.heap) <= Max({MinHeap, Cardinality(Present(st)) * HeapFactor}) THEN {st}
  ELSE {[st EXCEPT !.heap = Heapified(Entries(st, o))] : o \in SetToSeqs(Present(st))}

-----------------------------------------------------------------------------
(* The LRU list and the LFU classes                                        *)

\* A class that loses its last key moves lfuMinFreq one up when it was the
\* lowest one.
LeaveClass(st, k) ==
  LET f == st.items[k].count
      rest == Remove(st.classes[f], k)
  IN [st EXCEPT !.classes[f] = rest,
                !.minFreq = IF rest = <<>> /\ st.classes[f] # <<>> /\ f = @ THEN @ + 1 ELSE @]

Unlink(st, k) ==
  IF config.strategy = "lru" THEN [st EXCEPT !.lru = Remove(@, k)] ELSE LeaveClass(st, k)

SizeOf(st, k) == IF st.items[k] = None THEN 0 ELSE Size[st.items[k].val]

\* Mutant: an item leaves without giving its memory back.
Erase_KeepingSize(st, k) == [st EXCEPT !.items[k] = None]

Erase(st, k) == [st EXCEPT !.memory = @ - SizeOf(st, k), !.items[k] = None]

Discard(st, k) == Erase(Unlink(st, k), k)

\* evictItem(force): the tail of the list, or the oldest key of the lowest
\* class.  removeLFUItem leaves lfuMinFreq where it was.
Victim(st) ==
  IF config.strategy = "lru"
  THEN IF st.lru = <<>> THEN None ELSE st.lru[Len(st.lru)]
  ELSE IF st.minFreq \notin DOMAIN st.classes \/ st.classes[st.minFreq] = <<>> THEN None
       ELSE st.classes[st.minFreq][1]

Evict(st) ==
  LET k == Victim(st)
  IN IF k = None THEN st
     ELSE IF config.strategy = "lru" THEN Discard(st, k)
     ELSE Erase([st EXCEPT !.classes[st.minFreq] = Tail(@)], k)

EvictExcess(st) == IF Cardinality(Present(st)) > config.maxSize THEN Evict(st) ELSE st

\* cleanupByMemoryUsage: from above 80 % of the limit down to 70 %.
OverThreshold(st) == config.memory # 0 /\ 10 * st.memory > 8 * config.memory
OverTarget(st) == 10 * st.memory > 7 * config.memory /\ Present(st) # {}

Trim(st) ==
  IF ~OverThreshold(st) THEN st
  ELSE FoldSet(LAMBDA k, t : IF OverTarget(t) THEN Evict(t) ELSE t, st, CacheKeys)

\* An eviction that finds no victim changes nothing, so the loop goes on.
TrimLoops(st) == OverThreshold(st) /\ OverTarget(Trim(st))

-----------------------------------------------------------------------------
(* Reading and writing an item                                             *)

Touch(st, k) ==
  LET u == Unlink(st, k)
  IN IF config.strategy = "lru" THEN [u EXCEPT !.lru = <<k>> \o @]
     ELSE [u EXCEPT !.items[k].count = @ + 1,
                    !.classes[st.items[k].count + 1] = Append(@, k)]

Usable(k) == s.items[k] # None /\ s.items[k].expiry >= clock

\* get and has: a stale item is deleted.
Looked(k) ==
  IF Usable(k) THEN {Touch(s, k)}
  ELSE IF s.items[k] = None THEN {s}
  ELSE Rebuilt(Discard(s, k))

Placed(st, k, v, ttl, d) ==
  LET base == IF st.items[k] = None THEN st ELSE Unlink(st, k)
      new == [val |-> v, expiry |-> clock + ttl, count |-> 1, dirty |-> d]
      put == [base EXCEPT !.items[k] = new,
                          !.memory = @ - SizeOf(st, k) + Size[v],
                          !.heap = Push(@, <<clock + ttl, k>>)]
  IN IF config.strategy = "lru" THEN [put EXCEPT !.lru = <<k>> \o @]
     ELSE [put EXCEPT !.classes[1] = Append(@, k), !.minFreq = 1]

SetItem(k, v, d) ==
  \E ttl \in TTLs :
     LET st == EvictExcess(Placed(s, k, v, ttl, d))
     IN /\ s' \in Rebuilt(Trim(st))
        /\ looping' = TrimLoops(st)

-----------------------------------------------------------------------------
(* The synchronous methods                                                 *)

Idle == UNCHANGED <<config, call, tail, clock>>

Set(k, v, d) == config.direct /\ SetItem(k, v, d) /\ Idle

Get(k) ==
  /\ config.direct
  /\ Usable(k) /\ config.strategy = "lfu" => s.items[k].count < MaxCount
  /\ s' \in Looked(k)
  /\ Idle /\ UNCHANGED looping

Delete(k) ==
  /\ s.items[k] # None
  /\ s' \in Rebuilt(Discard(s, k))
  /\ Idle /\ UNCHANGED looping

Empty == [items |-> [k \in CacheKeys |-> None], lru |-> <<>>,
          classes |-> [f \in 1..MaxCount |-> <<>>], minFreq |-> 0,
          memory |-> 0, heap |-> <<>>]

Clear == s' = Empty /\ Idle /\ UNCHANGED looping

MarkAs(k, d) ==
  /\ config.direct /\ s.items[k] # None
  /\ s' = [s EXCEPT !.items[k].dirty = d]
  /\ Idle /\ UNCHANGED looping

\* One round of the sweep: only the entry that carries the item's current
\* expiry removes it.
SweepOne(st) ==
  IF st.heap = <<>> \/ st.heap[1][1] >= clock THEN st
  ELSE LET e == st.heap[1]
           p == [st EXCEPT !.heap = Pop(@)]
       IN IF st.items[e[2]] = None \/ st.items[e[2]].expiry # e[1] THEN p ELSE Discard(p, e[2])

CleanupExpired ==
  /\ s' \in Rebuilt(FoldLeft(LAMBDA st, e : SweepOne(st), s, s.heap))
  /\ Idle /\ UNCHANGED looping

Tick == clock < MaxClock /\ clock' = clock + 1 /\ UNCHANGED <<config, s, looping, call, tail>>

-----------------------------------------------------------------------------
(* The calls that lock a key                                               *)

NewCall == [pc |-> "new", key |-> None, after |-> None]

\* lock(key): wait for the call that was last in the chain.
Enqueue(c, k) ==
  /\ call' = [call EXCEPT ![c] = [pc |-> "waiting", key |-> k, after |-> tail[k]]]
  /\ tail' = [tail EXCEPT ![k] = c]

\* Mutant: the chain is dropped although another call has joined it.
Unlock_Always(c, pc) ==
  /\ call' = [call EXCEPT ![c].pc = pc]
  /\ tail' = [tail EXCEPT ![call[c].key] = None]

\* unlock: the chain is dropped when nobody has joined it since.
Unlock(c, pc) ==
  /\ call' = [call EXCEPT ![c].pc = pc]
  /\ tail' = [tail EXCEPT ![call[c].key] = IF @ = c THEN None ELSE @]

Released(c) == call[c].pc \in {"fallback", "done"}

StartSet(c, k) ==
  /\ call[c].pc = "new" /\ CallKind[c] = "set"
  /\ Enqueue(c, k)
  /\ UNCHANGED <<config, s, looping, clock>>

Found(k) == Usable(k) /\ s.items[k].val # Undefined

\* A call that finds null ends its getSafe, and a guarded one then falls back.
AfterFind(c, v) == IF CallKind[c] = "guarded" /\ v \in {Null, Undefined} THEN "fallback" ELSE "done"

StartGet(c, k) ==
  /\ call[c].pc = "new" /\ CallKind[c] # "set"
  /\ s' \in Looked(k)
  /\ IF Found(k)
     THEN call' = [call EXCEPT ![c] = [@ EXCEPT !.pc = AfterFind(c, s.items[k].val), !.key = k]]
          /\ UNCHANGED tail
     ELSE Enqueue(c, k)
  /\ UNCHANGED <<config, looping, clock>>

Turn(c) ==
  call[c].pc = "waiting" /\ call[c].after \in {None} \cup {d \in Calls : Released(d)}

\* With the lock, look again: another call may have fetched meanwhile.
Recheck(c) ==
  /\ Turn(c) /\ CallKind[c] # "set"
  /\ LET k == call[c].key
     IN /\ s' \in Looked(k)
        /\ IF Found(k) THEN Unlock(c, AfterFind(c, s.items[k].val))
           ELSE call' = [call EXCEPT ![c].pc = "fetching"] /\ UNCHANGED tail
  /\ UNCHANGED <<config, looping, clock>>

SetLocked(c, v) ==
  /\ Turn(c) /\ CallKind[c] = "set"
  /\ SetItem(call[c].key, v, FALSE)
  /\ Unlock(c, "done")
  /\ UNCHANGED <<config, clock>>

FetchSucceeds(c, v) ==
  /\ call[c].pc = "fetching"
  /\ SetItem(call[c].key, v, FALSE)
  /\ Unlock(c, AfterFind(c, v))
  /\ UNCHANGED <<config, clock>>

\* Mutant: a failed fetch keeps the lock.
FetchFails_Locked(c) ==
  /\ call[c].pc = "fetching"
  /\ call' = [call EXCEPT ![c].pc = "failed"]
  /\ UNCHANGED <<config, s, looping, tail, clock>>

FetchFails(c) ==
  /\ call[c].pc = "fetching"
  /\ Unlock(c, "done")
  /\ UNCHANGED <<config, s, looping, clock>>

\* The default is cached after the lock is gone.
Fallback(c) ==
  /\ call[c].pc = "fallback"
  /\ SetItem(call[c].key, Default, FALSE)
  /\ call' = [call EXCEPT ![c].pc = "done"]
  /\ UNCHANGED <<config, tail, clock>>

-----------------------------------------------------------------------------
CacheInit ==
  /\ config \in Configs
  /\ s = Empty /\ looping = FALSE
  /\ call = [c \in Calls |-> NewCall]
  /\ tail = [k \in CacheKeys |-> None]
  /\ clock = 0

Progress(c) ==
  \/ Recheck(c)
  \/ \E v \in config.values : SetLocked(c, v) \/ FetchSucceeds(c, v)
  \/ FetchFails(c)
  \/ Fallback(c)

Direct ==
  \E k \in config.keys :
     \/ \E v \in config.values, d \in config.marks : Set(k, v, d)
     \/ Get(k)
     \/ Delete(k)
     \/ \E d \in config.marks : MarkAs(k, d)

CacheNext ==
  /\ ~looping
  /\ \/ Direct
     \/ Clear
     \/ CleanupExpired
     \/ Tick
     \/ \E c \in config.calls, k \in config.keys : StartGet(c, k) \/ StartSet(c, k)
     \/ \E c \in config.calls : Progress(c)

CacheFairness == \A c \in Calls : WF_cacheVars(~looping /\ c \in config.calls /\ Progress(c))
CacheSpec == CacheInit /\ [][CacheNext]_cacheVars /\ CacheFairness

-----------------------------------------------------------------------------
(* Properties                                                              *)

\* The shape of every variable.
CacheTypeOK ==
  /\ config \in Configs /\ looping \in BOOLEAN /\ clock \in 0..MaxClock
  /\ s.items \in [CacheKeys -> Item \cup {None}]
  /\ s.lru \in Seq(CacheKeys) /\ s.classes \in [1..MaxCount -> Seq(CacheKeys)]
  /\ s.memory \in Nat /\ s.minFreq \in Nat /\ s.heap \in Heaps
  /\ call \in [Calls -> [pc: {"new", "waiting", "fetching", "fallback", "done"},
                         key: CacheKeys \cup {None}, after: Calls \cup {None}]]
  /\ tail \in [CacheKeys -> Calls \cup {None}]

\* The memory counter that triggers evictions is the sum of the sizes of the
\* items, and the structure that chooses victims holds every cached key
\* exactly once, in the LFU class of its access count
\* (every path that adds or removes an item updates three structures by hand).
Accounting ==
  /\ s.memory = MapThenSumSet(LAMBDA k : SizeOf(s, k), CacheKeys)
  /\ LET links == IF config.strategy = "lru" THEN s.lru ELSE FlattenSeq(s.classes)
     IN Len(links) = Cardinality(Present(s)) /\ ToSet(links) = Present(s)
  /\ config.strategy = "lfu" =>
       \A k \in Present(s) : k \in ToSet(s.classes[s.items[k].count])

\* The expiry heap is ordered and holds the current expiry of every item,
\* through pushes, pops of stale entries and rebuilds; otherwise the sweep
\* stops at its top and leaves expired items behind.
HeapCovers ==
  /\ \A i \in 2..Len(s.heap) : s.heap[i \div 2][1] <= s.heap[i][1]
  /\ \A k \in Present(s) : <<s.items[k].expiry, k>> \in ToSet(s.heap)

\* Between two operations the cache is within maxSize and under the memory
\* threshold.
WithinLimits == Cardinality(Present(s)) <= config.maxSize /\ ~OverThreshold(s)

\* A set returns: the loop of cleanupByMemoryUsage always finds a victim.
SetReturns == ~looping

\* Two calls never fetch the same key at once, and the chain of a key is gone
\* when no call uses it (the map of chains would grow with every key).
SingleFlight ==
  /\ \A c, d \in Calls : c # d /\ call[c].pc = "fetching" /\ call[d].pc = "fetching"
                           => call[c].key # call[d].key
  /\ \A k \in CacheKeys : tail[k] # None <=>
       \E c \in Calls : call[c].key = k /\ call[c].pc \in {"waiting", "fetching"}

\* Every call ends, whether the fetches before it succeed or fail.
EveryCacheCallEnds == \A c \in Calls : call[c].pc = "waiting" ~> call[c].pc = "done"

\* The counter, the links, the heap and the limits agree with the items,
\* whatever operations came before.
CacheConsistent == CacheTypeOK /\ Accounting /\ HeapCovers /\ WithinLimits
=============================================================================
