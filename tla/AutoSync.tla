------------------------------ MODULE AutoSync ------------------------------
(***************************************************************************)
(* The service that writes dirty cache entries to storage                  *)
(* (core/service/AutoSyncService.ts), with the CacheService calls it uses. *)
(*                                                                         *)
(* A sync goes from one await to the next in a step: it lists the tables,  *)
(* then for each table with dirty entries reads the stored records (or     *)
(* takes a dirty full snapshot), merges the entries of one batch and       *)
(* overwrites the table, with retries.  Entries that are no records take   *)
(* their place in a batch and stay dirty, as do those of absent tables.    *)
(* Beside the sync run clients that dirty entries, write and drop tables,  *)
(* the removal of entries, transactions of others, and calls of stop,      *)
(* cleanup and updateConfig.  runWhenNoTransaction is what Transactions    *)
(* shows of it: refused during a transaction, and none begins while it     *)
(* runs.  Events, statistics and the storage's own failures are left out.  *)
(***************************************************************************)
EXTENDS Naturals, Sequences, FiniteSets

CONSTANTS
  Tables, Ids, Keys,
  TableOf,      \* [Keys -> Tables], by the prefix of the cache key
  Full,         \* the keys of full-table snapshots
  Misfits,      \* the keys whose values are no records
  Holds,        \* [Keys -> SUBSET Ids], the records an entry carries
  Edits,        \* the records <<t, i>> that clients write, in tables they also drop
  Kinds,        \* [call -> SUBSET {"stop", "cleanup", "config"}], what it may be
  MinItems,     \* the values of minItems that Init chooses from
  BatchSize,
  MaxRetries,   \* 3 in the code
  None,
  MaxEvents     \* bound on all that happens to the service: steps of clients and of
                \* the cache, transactions, failing reads and writes, calls

Calls == DOMAIN Kinds

ASSUME SyncAssumption ==
  /\ TableOf \in [Keys -> Tables] /\ Full \subseteq Keys /\ Misfits \subseteq Keys \ Full
  /\ Holds \in [Keys -> SUBSET Ids]
  /\ \A k, l \in Full : TableOf[k] = TableOf[l] => k = l
  /\ Edits \subseteq Tables \X Ids /\ MinItems \subseteq Nat
  /\ BatchSize \in Nat \ {0} /\ MaxRetries \in Nat \ {0} /\ MaxEvents \in Nat

VARIABLES
  cache,     \* sequence of [key, val, dirty] in the order of the map
  storage,   \* [Tables -> [Ids -> Nat]], 0 is absent; None is no table
  v,         \* the service: fields of the object and the locals of its sync
  call,      \* the calls of stop, cleanup and updateConfig
  tx,        \* the transaction of others: "off", "plain" or, with an owner, "owned"
  staged,    \* what it holds for each table, or None
  clock      \* counts what happens, and tells the values that are written apart

vars == <<cache, storage, v, call, tx, staged, clock>>

Event == clock < MaxEvents /\ clock' = clock + 1

Entry == [key: Keys, val: Nat]
Contents == [Ids -> Nat]

InTx == tx # "off"

\* What a read finds: the rows a transaction staged before those stored, and
\* none in an absent table.
View(t) == IF staged[t] # None THEN staged[t] ELSE storage[t]
Rows(table) == IF table = None THEN [i \in Ids |-> 0] ELSE table

IsDirty(k) == \E n \in DOMAIN cache : cache[n].key = k /\ cache[n].dirty
IsClean(k) == \E n \in DOMAIN cache : cache[n].key = k /\ ~cache[n].dirty

(* The entries of a sequence whose keys are in S, in their order.          *)
Among(entries, S) ==
  LET kept[n \in 0..Len(entries)] ==
        IF n = 0 THEN <<>>
        ELSE IF entries[n].key \in S THEN Append(kept[n - 1], entries[n]) ELSE kept[n - 1]
  IN  kept[Len(entries)]

\* getDirtyData()
Dirty ==
  Among([n \in DOMAIN cache |-> [key |-> cache[n].key, val |-> cache[n].val]],
        {k \in Keys : IsDirty(k)})

-----------------------------------------------------------------------------
(* mergeRecords: the records of later entries over those of earlier ones,  *)
(* incremental entries over the base.                                      *)

Places(batch, S) == {n \in DOMAIN batch : batch[n].key \in S}
LastOf(batch, S) ==
  batch[CHOOSE n \in Places(batch, S) : \A m \in Places(batch, S) : m <= n]

Merged(base, batch) ==
  [i \in Ids |-> LET S == {k \in Keys \ Full : i \in Holds[k]}
                 IN IF Places(batch, S) = {} THEN base[i] ELSE LastOf(batch, S).val]

(* A dirty full snapshot is the base instead of what is stored.            *)
HasSnapshot(batch) == Places(batch, Full) # {}
Snapshot(batch) ==
  IF ~HasSnapshot(batch) THEN None
  ELSE LET e == LastOf(batch, Full)
       IN [i \in Ids |-> IF i \in Holds[e.key] THEN e.val ELSE 0]

-----------------------------------------------------------------------------
(* The course of a sync, on the record of the service                      *)

\* Mutant: the waiters of stop are not told.
Finish_KeepingWaiters(w) ==
  [w EXCEPT !.pc = "idle", !.queue = <<>>, !.batch = <<>>,
            !.base = None, !.attempt = 0, !.more = FALSE]

\* finally: the waiters of stop go on.
Finish(w) == [w EXCEPT !.pc = "idle", !.waiters = {}, !.queue = <<>>, !.batch = <<>>,
                       !.base = None, !.attempt = 0, !.more = FALSE]

\* The next table in the order of its first entry, or the end of the sync.
Advance(w) ==
  IF w.queue = <<>> THEN [Finish(w) EXCEPT !.deferred = w.more \/ w.txDeferred]
  ELSE LET t == TableOf[w.queue[1].key]
           mine == {k \in Keys : TableOf[k] = t}
           batch == Among(w.queue, mine)
       IN [w EXCEPT !.queue = Among(@, Keys \ mine),
                    !.batch = batch, !.base = Snapshot(batch), !.attempt = 1,
                    !.pc = IF HasSnapshot(batch) THEN "trying" ELSE "reading"]

Syncing(w) == w.pc # "idle"

\* Mutant: a sync may begin during a cleanup.
Begun_InShutdown(w) ==
  IF Syncing(w) THEN w
  ELSE IF InTx THEN [w EXCEPT !.deferred = TRUE]
  ELSE IF Dirty = <<>> THEN w
  ELSE [w EXCEPT !.pc = "listing", !.txDeferred = FALSE, !.queue = Dirty]

\* sync() up to its first await.
Begun(w) ==
  IF Syncing(w) \/ w.shutting THEN w
  ELSE IF InTx THEN [w EXCEPT !.deferred = TRUE]
  ELSE LET u == [w EXCEPT !.txDeferred = FALSE]
       IN IF Dirty = <<>> THEN [u EXCEPT !.deferred = FALSE]
          ELSE IF Len(Dirty) < w.minItems /\ ~w.deferred THEN u
          ELSE [u EXCEPT !.pc = "listing", !.queue = Dirty]

\* start(): a first sync at once, then the timer.
Started(w) ==
  IF w.enabled THEN [Begun([w EXCEPT !.timer = FALSE]) EXCEPT !.timer = TRUE]
  ELSE [w EXCEPT !.timer = FALSE]

Env == <<call, tx, staged>>

Start ==
  /\ v' = Started(v)
  /\ UNCHANGED <<cache, storage, clock, Env>>

\* The timer, or a caller of sync().
Sync(byTimer) ==
  /\ byTimer => v.timer
  /\ v' = Begun(v)
  /\ UNCHANGED <<cache, storage, clock, Env>>

\* The batch of a table is the first entries of it: entry n of the queue has a
\* place in it unless they are BatchSize before n.
Exists(k) == storage[TableOf[k]] # None
Before(queue, n) == {m \in 1..n - 1 : TableOf[queue[m].key] = TableOf[queue[n].key]}
Late(queue) == {n \in DOMAIN queue : Cardinality(Before(queue, n)) >= BatchSize}

\* Mutant: a batch with an entry that is no record is not written.
Grouped_AllOrNone(w) ==
  LET late == {w.queue[n].key : n \in Late(w.queue)}
      bad == {TableOf[w.queue[n].key] : n \in {m \in DOMAIN w.queue : w.queue[m].key \in Misfits \ late}}
  IN [w EXCEPT !.queue = Among(@, {k \in Keys \ late : Exists(k) /\ TableOf[k] \notin bad}),
               !.more = \E k \in late : Exists(k)]

\* What is written: entries of absent tables, those past their batch, and those
\* of a batch that are no records are left out, and stay dirty.
Grouped(w) ==
  LET late == {w.queue[n].key : n \in Late(w.queue)}
  IN [w EXCEPT !.queue = Among(@, {k \in Keys \ (Misfits \cup late) : Exists(k)}),
               !.more = \E k \in late : Exists(k)]

\* Mutant: an error leaves isSyncing set.
Listed_Stuck ==
  /\ v.pc = "listing"
  /\ \/ /\ tx # "owned" /\ UNCHANGED clock
        /\ \E w \in {Grouped(v)} : v' = Advance(w)
     \/ tx = "owned" /\ v' = [v EXCEPT !.pc = "failed"] /\ UNCHANGED clock
  /\ UNCHANGED <<cache, storage, Env>>

\* listTables is refused during a transaction that has an owner.
Listed ==
  /\ v.pc = "listing"
  /\ \/ /\ tx # "owned" /\ UNCHANGED clock
        /\ \E w \in {Grouped(v)} : v' = Advance(w)
     \/ tx = "owned" /\ v' = Finish(v) /\ UNCHANGED clock
     \/ Event /\ v' = Finish(v)
  /\ UNCHANGED <<cache, storage, Env>>

Batched == TableOf[v.batch[1].key]

\* During a transaction without an owner the read finds what it staged.  A
\* failed read leaves the entries of the table dirty.
ReadTable ==
  /\ v.pc = "reading"
  /\ \/ /\ tx # "owned" /\ UNCHANGED clock
        /\ v' = [v EXCEPT !.base = Rows(View(Batched)), !.pc = "trying"]
     \/ tx = "owned" /\ v' = Advance(v) /\ UNCHANGED clock
     \/ Event /\ v' = Advance(v)
  /\ UNCHANGED <<cache, storage, Env>>

\* Mutant: the write does not ask for a running transaction.
TryWrite_Unguarded ==
  /\ v.pc = "trying"
  /\ v' = [v EXCEPT !.pc = "writing"]
  /\ UNCHANGED <<cache, storage, clock, Env>>

\* writeWithRetry: the guarded write is refused while a transaction is active.
TryWrite ==
  /\ v.pc = "trying"
  /\ v' = IF InTx THEN Advance([v EXCEPT !.txDeferred = TRUE]) ELSE [v EXCEPT !.pc = "writing"]
  /\ UNCHANGED <<cache, storage, clock, Env>>

\* markAsCleanBulk: every key of the batch, whatever its entry holds by now.
Cleaned(batch) ==
  [n \in DOMAIN cache |->
     [cache[n] EXCEPT !.dirty = @ /\ \A m \in DOMAIN batch : batch[m].key # cache[n].key]]

WriteSucceeds ==
  /\ v.pc = "writing"
  /\ storage' = [storage EXCEPT ![Batched] = Merged(v.base, v.batch)]
  /\ cache' = Cleaned(v.batch)
  /\ v' = Advance(v)
  /\ UNCHANGED <<clock, Env>>

\* Mutant: the batch is marked clean although its write failed.
WriteFails_Cleaning(transient, landed) ==
  /\ v.pc = "writing" /\ Event
  /\ storage' = IF landed THEN [storage EXCEPT ![Batched] = Merged(v.base, v.batch)] ELSE storage
  /\ cache' = Cleaned(v.batch)
  /\ v' = Advance(v)
  /\ UNCHANGED Env

\* A write that fails may have taken effect; only a transient error is retried.
WriteFails(transient, landed) ==
  /\ v.pc = "writing" /\ Event
  /\ storage' = IF landed THEN [storage EXCEPT ![Batched] = Merged(v.base, v.batch)] ELSE storage
  /\ v' = IF transient /\ v.attempt < MaxRetries THEN [v EXCEPT !.pc = "backoff"] ELSE Advance(v)
  /\ UNCHANGED <<cache, Env>>

Retry ==
  /\ v.pc = "backoff"
  /\ v' = [v EXCEPT !.pc = "trying", !.attempt = @ + 1]
  /\ UNCHANGED <<cache, storage, clock, Env>>

-----------------------------------------------------------------------------
(* stop, cleanup and updateConfig                                          *)

\* stop() of call c: it waits for a running sync.
Stopped(w, c) ==
  [w EXCEPT !.timer = FALSE, !.waiters = IF Syncing(w) THEN @ \cup {c} ELSE @]

Rest == <<cache, storage, tx, staged>>

Stop(c, kind) ==
  /\ Event /\ call[c].pc = "new" /\ kind \in Kinds[c]
  /\ v' = Stopped([v EXCEPT !.shutting = @ \/ kind = "cleanup"], c)
  /\ call' = [call EXCEPT ![c] = [@ EXCEPT !.pc = "stopping", !.kind = kind]]
  /\ UNCHANGED Rest

StopReturns(c) == call[c].pc = "stopping" /\ c \notin v.waiters

EndStop(c) ==
  /\ StopReturns(c) /\ call[c].kind # "config"
  /\ v' = IF call[c].kind = "stop" THEN v
          ELSE [v EXCEPT !.deferred = FALSE, !.txDeferred = FALSE, !.shutting = FALSE]
  /\ call' = [call EXCEPT ![c].pc = "done"]
  /\ UNCHANGED <<clock, Rest>>

\* The last part of updateConfig, for the value of enabled it was given.
Switched(w, c, enabled) ==
  IF enabled = TRUE /\ ~w.timer THEN Started(w)
  ELSE IF enabled = FALSE /\ w.timer THEN Stopped(w, c)
  ELSE w
Ends(w, enabled) == enabled # FALSE \/ ~w.timer

\* updateConfig({interval?, enabled?}): a new interval restarts the timer.
UpdateConfig(c, interval, enabled) ==
  /\ Event /\ call[c].pc = "new" /\ "config" \in Kinds[c]
  /\ LET w == [v EXCEPT !.enabled = IF enabled = None THEN @ ELSE enabled]
     IN IF interval /\ w.timer
        THEN /\ v' = Stopped(w, c)
             /\ call' = [call EXCEPT ![c] = [pc |-> "stopping", kind |-> "config", enabled |-> enabled]]
        ELSE /\ v' = Switched(w, c, enabled)
             /\ call' = [call EXCEPT ![c] = [pc |-> IF Ends(w, enabled) THEN "done" ELSE "ending",
                                             kind |-> "config", enabled |-> None]]
  /\ UNCHANGED Rest

RestartTimer(c) ==
  /\ StopReturns(c) /\ call[c].kind = "config"
  /\ LET w == Started(v)
     IN /\ v' = Switched(w, c, call[c].enabled)
        /\ call' = [call EXCEPT ![c] = [pc |-> IF Ends(w, call[c].enabled) THEN "done" ELSE "ending",
                                        kind |-> "config", enabled |-> None]]
  /\ UNCHANGED <<clock, Rest>>

EndConfig(c) ==
  /\ call[c].pc = "ending" /\ c \notin v.waiters
  /\ call' = [call EXCEPT ![c].pc = "done"]
  /\ UNCHANGED <<v, clock, Rest>>

-----------------------------------------------------------------------------
(* The environment                                                         *)

\* set(key, data, expiry, true): an entry keeps its place in the map.
WriteEntry(k) ==
  /\ Event
  /\ LET e == [key |-> k, val |-> clock + 1, dirty |-> TRUE]
     IN cache' = IF \E n \in DOMAIN cache : cache[n].key = k
                 THEN [n \in DOMAIN cache |-> IF cache[n].key = k THEN e ELSE cache[n]]
                 ELSE Append(cache, e)
  /\ UNCHANGED <<storage, v, call, tx, staged>>

\* An entry leaves the cache: evicted, expired or deleted.
RemoveEntry(k) ==
  /\ Event /\ \E n \in DOMAIN cache : cache[n].key = k
  /\ cache' = Among(cache, Keys \ {k})
  /\ UNCHANGED <<storage, v, call, tx, staged>>

\* A client writes record i of table t, which need not exist: at once, or to
\* what its transaction holds.
Put(t, i) ==
  /\ Event
  /\ LET written == [Rows(View(t)) EXCEPT ![i] = clock + 1]
     IN IF InTx THEN staged' = [staged EXCEPT ![t] = written] /\ UNCHANGED storage
        ELSE storage' = [storage EXCEPT ![t] = written] /\ UNCHANGED staged
  /\ UNCHANGED <<cache, v, call, tx>>

\* Table changes wait for transactions and guarded writes; entries stay.
DropTable(t) ==
  /\ Event /\ ~InTx /\ v.pc # "writing" /\ storage[t] # None
  /\ storage' = [storage EXCEPT ![t] = None]
  /\ UNCHANGED <<cache, v, call, tx, staged>>

BeginTx(kind) ==
  /\ Event /\ ~InTx /\ v.pc # "writing"
  /\ tx' = kind
  /\ UNCHANGED <<cache, storage, v, call, staged>>

\* A commit stores what was staged, a rollback nothing.
EndTx ==
  /\ InTx /\ tx' = "off" /\ staged' = [t \in Tables |-> None]
  /\ storage' \in {storage, [t \in Tables |-> View(t)]}
  /\ UNCHANGED <<cache, v, call, clock>>

-----------------------------------------------------------------------------
Init ==
  /\ cache = <<>>
  /\ storage = [t \in Tables |-> [i \in Ids |-> 0]]
  /\ \E m \in MinItems :
       v = [pc |-> "idle", queue |-> <<>>, batch |-> <<>>, base |-> None, attempt |-> 0,
            more |-> FALSE, timer |-> FALSE, enabled |-> TRUE, shutting |-> FALSE,
            deferred |-> FALSE, txDeferred |-> FALSE, waiters |-> {}, minItems |-> m]
  /\ call = [c \in Calls |-> [pc |-> "new", kind |-> None, enabled |-> None]]
  /\ tx = "off" /\ staged = [t \in Tables |-> None] /\ clock = 0

SyncStep ==
  \/ Listed
  \/ ReadTable
  \/ TryWrite
  \/ WriteSucceeds
  \/ \E transient, landed \in BOOLEAN : WriteFails(transient, landed)
  \/ Retry

CallStep(c) == EndStop(c) \/ RestartTimer(c) \/ EndConfig(c)

Next ==
  \/ Start \/ Sync(TRUE) \/ Sync(FALSE)
  \/ SyncStep
  \/ \E c \in Calls :
       \/ Stop(c, "stop") \/ Stop(c, "cleanup")
       \/ \E interval \in BOOLEAN, enabled \in BOOLEAN \cup {None} : UpdateConfig(c, interval, enabled)
       \/ CallStep(c)
  \/ \E k \in Keys : WriteEntry(k) \/ RemoveEntry(k)
  \/ \E e \in Edits : Put(e[1], e[2]) \/ DropTable(e[1])
  \/ BeginTx("plain") \/ BeginTx("owned") \/ EndTx

\* The timer fires, storage answers, a transaction ends, callbacks run.
Fairness ==
  /\ WF_vars(Sync(TRUE)) /\ WF_vars(SyncStep) /\ WF_vars(EndTx)
  /\ \A c \in Calls : WF_vars(CallStep(c))

Spec == Init /\ [][Next]_vars /\ Fairness

-----------------------------------------------------------------------------
(* Properties                                                              *)

\* The shape of every variable.
TypeOK ==
  /\ cache \in Seq([key: Keys, val: 1..MaxEvents, dirty: BOOLEAN])
  /\ {storage, staged} \subseteq [Tables -> Contents \cup {None}]
  /\ v.pc \in {"idle", "listing", "reading", "trying", "writing", "backoff"}
  /\ v.queue \in Seq(Entry) /\ v.batch \in Seq(Entry)
  /\ v.base \in Contents \cup {None} /\ v.attempt \in 0..MaxRetries
  /\ {v.more, v.timer, v.enabled, v.shutting, v.deferred, v.txDeferred} \subseteq BOOLEAN
  /\ v.waiters \subseteq Calls /\ v.minItems \in MinItems
  /\ call \in [Calls -> [pc: {"new", "stopping", "ending", "done"},
                         kind: {None, "stop", "cleanup", "config"}, enabled: BOOLEAN \cup {None}]]
  /\ tx \in {"off", "plain", "owned"} /\ clock \in 0..MaxEvents

\* An entry loses its dirty mark only when the table holds the records the
\* sync took from it, or those of another entry of the same batch; a failed,
\* refused or postponed write keeps it dirty.
CleanedIsStored ==
  [][\A k \in Keys : IsDirty(k) /\ IsClean(k)' =>
       \E n \in DOMAIN v.batch :
          /\ v.batch[n].key = k
          /\ \A i \in Holds[k] : \E m \in DOMAIN v.batch :
               /\ i \in Holds[v.batch[m].key]
               /\ storage'[TableOf[k]][i] = v.batch[m].val]_vars

\* The service changes no table while a transaction is active, through every
\* retry and backoff of a write that began before it: what is stored changes
\* only as the transaction ends.
NoWriteInTransaction ==
  [][InTx => storage' = storage \/ (tx' = "off" /\ v' = v)]_vars

\* A cleanup that is the only one returns when no sync runs, so that the
\* storage is not written after it.
CleanupIsQuiet ==
  \A c \in Calls : call[c].kind = "cleanup" /\ StopReturns(c)
                   /\ (\A d \in Calls \ {c} : call[d].kind # "cleanup")
                   => ~Syncing(v)

\* Every call of stop, cleanup and updateConfig returns, whatever becomes of
\* the sync it waits for and however many wait for the same one.
EveryCallEnds == \A c \in Calls : call[c].pc \in {"stopping", "ending"} ~> call[c].pc = "done"

\* Dirty entries that are no records fill the batch of k's table before it.
Blocked(k) ==
  \E n \in DOMAIN cache :
     /\ cache[n].key = k
     /\ BatchSize <= Cardinality({m \in 1..n - 1 :
          cache[m].dirty /\ cache[m].key \in Misfits /\ TableOf[cache[m].key] = TableOf[k]})

\* With the default minItems and the timer on, a dirty entry that is a record
\* is written in the end, through batches, failures, entries that are none and
\* transactions that defer it, unless its table is dropped or the entries
\* before it block it.
DirtyDrains ==
  \A k \in Keys \ Misfits :
    IsDirty(k) /\ v.timer /\ v.minItems <= 1
    ~> ~IsDirty(k) \/ ~v.timer \/ storage[TableOf[k]] = None \/ Blocked(k)

\* Refuted by the code: entries of dropped tables stay dirty, and so do those
\* behind a batch of entries that are no records.
EveryRecordDrains ==
  \A k \in Keys \ Misfits :
    IsDirty(k) /\ v.timer /\ v.minItems <= 1 ~> ~IsDirty(k) \/ ~v.timer

\* Refuted by the code: a sync without a full snapshot changes no record that
\* none of its entries carries.
OthersKept ==
  [][v.pc = "writing" /\ ~HasSnapshot(v.batch) /\ v' # v =>
       \A i \in Ids : \/ Rows(storage'[Batched])[i] = Rows(storage[Batched])[i]
                      \/ \E n \in DOMAIN v.batch : i \in Holds[v.batch[n].key]]_vars

\* Refuted by the code: a table that was dropped is not created by a sync.
DroppedStaysDropped == [][\A t \in Tables : storage[t] = None /\ v' # v => storage'[t] = None]_vars

\* Refuted by the code: the value cached when a mark is taken away is the
\* value that was written.
NoUpdateForgotten ==
  [][\A n \in DOMAIN cache, m \in DOMAIN cache' :
       cache[n].key = cache'[m].key /\ cache[n].dirty /\ ~cache'[m].dirty =>
         [key |-> cache[n].key, val |-> cache[n].val] \in {v.batch[j] : j \in DOMAIN v.batch}]_vars

\* The state is well formed, and nothing syncs after a cleanup.
Consistent == TypeOK /\ CleanupIsQuiet

\* Marks are taken away for stored records only, and no write lands in a
\* transaction.
SyncWrites == CleanedIsStored /\ NoWriteInTransaction

\* Calls that wait for a sync return, and dirty records drain.
Progress == EveryCallEnds /\ DirtyDrains
=============================================================================
