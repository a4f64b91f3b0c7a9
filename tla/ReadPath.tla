------------------------------- MODULE ReadPath -------------------------------
(***************************************************************************)
(* Reads of one table through an adapter: core/data/DataReader.ts with the *)
(* metadata manager's getLatest, the namespaced query cache, the index     *)
(* (core/index/IndexManager.ts) and the query engine, while one writer     *)
(* (the adapter's own DataWriter, or another adapter on the same root)     *)
(* changes the table.  A read takes no table lock: it reads, compares the  *)
(* identity of the table's metadata object before and after, and starts    *)
(* again when it changed.                                                  *)
(*                                                                         *)
(* Program text between two awaits is one step.  Identities are modelled   *)
(* by whether they still are the current ones: a metadata object, a        *)
(* namespace version, a mutation epoch.  A write holds the path lock from  *)
(* its first file change until it is committed or rolled back              *)
(* (SingleFileStore, ChunkedStore); physical reads wait for it.            *)
(***************************************************************************)
EXTENDS QueryEngine, TLC
LOCAL INSTANCE SequencesExt

CONSTANTS
  Scopes,       \* sorts of behaviour: a function from names to records
                \* [author, modes, indexes, tables, readers, queries, operations,
                \*  and the bounds reads, writes, faults, flushes]
  IndexedField, \* the field an index may exist on
  MaxAttempts   \* MAX_STABLE_READ_ATTEMPTS

ASSUME ReadAssumption ==
  /\ \A s \in DOMAIN Scopes :
       /\ Scopes[s].author \in {"local", "foreign"}
       /\ {Scopes[s].reads, Scopes[s].writes, Scopes[s].faults, Scopes[s].flushes} \subseteq Nat
  /\ MaxAttempts \in Nat \ {0}

VARIABLES
  scope,     \* which of Scopes the behaviour belongs to
  file,      \* the table on disk: representation and rows
  locked,    \* a write holds the path lock
  durable,   \* representation in the durable metadata
  mode,      \* representation in the adapter's metadata object
  stale,     \* the adapter's metadata are of an older mutation epoch
  saving,    \* a save of the adapter is running
  dirty,     \* the adapter has metadata mutations to save
  cache,     \* entries under the current version of the table's namespace
  index,     \* the adapter's index on IndexedField, or NoIndex
  write,     \* the running write
  read,      \* the reads
  hist,      \* history: durable generations of rows
  acked,     \* history: index in hist of the last acknowledged one
  count      \* reads, writes, faults and flushes so far

vars == <<scope, file, locked, durable, mode, stale, saving, dirty,
          cache, index, write, read, hist, acked, count>>

metaVars == <<mode, stale, saving, dirty>>
tableVars == <<file, locked, durable>>

(* A read that waits for getLatest or for the table has                    *)
(*   at        where it will go on                                         *)
(*   asked     the object it held when it asked is still the adapter's     *)
(*   same      the object this attempt started from still is               *)
(*   live      the namespace version its key was made with still is current*)
(*   waits     it waits for the running save                               *)
(* and q, key, mode, again, rows, tries, since.                            *)
Modes == {"single", "chunked"}
Idle == [pc |-> "idle"]
Bump(counter) == count' = [count EXCEPT ![counter] = @ + 1]
Readers == UNION {Scopes[s].readers : s \in DOMAIN Scopes}
Author == Scopes[scope].author
Within(counter) == count[counter] < Scopes[scope][counter]

Running(rd) == rd.pc \in {"wait", "read"}
(* The table gets a new metadata object. *)
Replaced(rd) == IF Running(rd) THEN [rd EXCEPT !.asked = FALSE, !.same = FALSE] ELSE rd
(* The namespace gets a new version. *)
Unreachable(rd) == IF Running(rd) THEN [rd EXCEPT !.live = FALSE] ELSE rd
(* The running save ends. *)
Released(rd) == IF Running(rd) THEN [rd EXCEPT !.waits = FALSE] ELSE rd
Each(F(_)) == [r \in DOMAIN read |-> F(read[r])]

-----------------------------------------------------------------------------
(* The index: its type, whether it covers the table, and the ids of the    *)
(* records that have a value.                                              *)

NoIndex == [type |-> "none", ready |-> FALSE, data |-> <<>>]

AddEntries(data, rows) ==
  FoldLeft(LAMBDA acc, r :
             LET value == r[IndexedField]
                 items == IF value \in DOMAIN acc THEN acc[value] ELSE <<>>
             IN IF value = Undefined THEN acc
                ELSE [v \in DOMAIN acc \cup {value} |->
                        IF v = value THEN Append(items, r.id) ELSE acc[v]],
           data, rows)

NoEntries == [v \in {} |-> <<>>]
Violates(ix) == ix.type = "unique" /\ \E v \in DOMAIN ix.data : Len(ix.data[v]) > 1

(* An index that does not cover the table yet is only filled by a rebuild. *)
stageIndexUpdate(ix, rows, updateMode) ==
  IF ix = NoIndex \/ (updateMode = "append" /\ ~ix.ready) THEN ix
  ELSE [ix EXCEPT !.ready = TRUE,
                  !.data = AddEntries(IF updateMode = "append" THEN ix.data ELSE NoEntries,
                                      rows)]

(* The plan changes the index objects it was staged for, so it is lost on  *)
(* indexes that were dropped in between.                                   *)
applyIndexUpdate(ix, plan) == IF ix = NoIndex THEN NoIndex ELSE plan

hasIndex(ix) == ix.ready /\ \A v \in DOMAIN ix.data : Undefined \notin ToSet(ix.data[v])

queryIndex(ix, value) == IF value \in DOMAIN ix.data THEN ToSet(ix.data[value]) ELSE {}

(* The filter's value for the index: plain, text or number.                *)
IndexTests(q) ==
  IF q.filter.kind # "fields" THEN <<>>
  ELSE SelectSeq(q.filter.fields,
         LAMBDA f : /\ f.key = IndexedField /\ f.ops # <<>>
                    /\ f.ops[1].op = "is" /\ f.ops[1].arg[1] \in {"num", "str"})

Indexed(rows, q, ix) ==
  IF hasIndex(ix) /\ IndexTests(q) # <<>>
    THEN LET ids == queryIndex(ix, IndexTests(q)[1].ops[1].arg)
         IN SelectSeq(rows, LAMBDA r : r.id # Undefined /\ r.id \in ids)
    ELSE rows

Answer(rows, q, ix) ==
  With(filter(Indexed(rows, q, ix), q.filter),
       LAMBDA found : IF found.error THEN Error
                      ELSE Rows(With(sort(found.rows, q.by, q.orders, q.algorithm),
                                     LAMBDA s : paginate(s, q.skip, q.limit))))

-----------------------------------------------------------------------------
(* The cache *)

NoKey == <<"no key">>

Predicated(cond) == cond.kind = "function" \/ (cond.kind \in {"and", "or"} /\
                      \E i \in DOMAIN cond.subs : cond.subs[i].kind = "function")

(* JSON leaves out what is undefined. *)
Serialized(cond) ==
  IF cond.kind # "fields" THEN cond
  ELSE [cond EXCEPT !.fields =
          SelectSeq(cond.fields, LAMBDA f : f.ops # <<[op |-> "is", arg |-> Undefined]>>)]

\* Mutant: the page is no part of the key.
generateCacheKey_Unpaged(q) ==
  IF q.bypass \/ Predicated(q.filter) THEN NoKey
  ELSE <<"key", [q EXCEPT !.filter = Serialized(q.filter), !.skip = 0, !.limit = NoLimit]>>

generateCacheKey(q) ==
  IF q.bypass \/ Predicated(q.filter) THEN NoKey
  ELSE <<"key", [q EXCEPT !.filter = Serialized(q.filter)]>>

Cached(key, entries) == {e \in entries : e.key = key}

-----------------------------------------------------------------------------
(* getLatest: what the reader remembers when it asks, and the answer       *)

Asking(rd, at) == [rd EXCEPT !.pc = "wait", !.at = at, !.asked = TRUE, !.waits = saving]

(* The reader resumes: a save it had to wait for is over, and metadata of  *)
(* an older epoch are read again, with no save running.                    *)
GotLatest(r, at) ==
  /\ read[r].pc = "wait" /\ read[r].at = at
  /\ ~read[r].waits
  /\ stale => ~saving
  /\ mode' = IF stale THEN durable ELSE mode
  /\ stale' = FALSE
  /\ UNCHANGED <<scope, tableVars, saving, dirty, write, hist, acked>>

(* getLatestTableMetadata: a changed object invalidates cache and index.   *)
Changed(r) == stale \/ ~read[r].asked
Entries(r) == IF Changed(r) THEN {} ELSE cache
IndexLeft(r) == IF Changed(r) THEN NoIndex ELSE index
Unstable(r) == stale \/ ~read[r].same

Others(rd) == IF stale THEN Unreachable(Replaced(rd)) ELSE Unreachable(rd)

(* Read r goes on as rd; what it invalidated and reloaded, all others see. *)
GoesOn(r, rd) ==
  /\ read' = [(IF Changed(r) THEN Each(Others) ELSE read) EXCEPT ![r] = rd]
  /\ index' = IndexLeft(r)

Becomes(r, rd) == read' = [read EXCEPT ![r] = rd]

Done(rd, status, rows) ==
  [pc |-> "done", q |-> rd.q, since |-> rd.since, status |-> status, rows |-> rows]

-----------------------------------------------------------------------------
(* The steps of a read *)

Attempt(q, tries, since) ==
  [pc |-> "wait", at |-> "begin", asked |-> TRUE, same |-> TRUE, live |-> TRUE, waits |-> saving,
   q |-> q, key |-> NoKey, mode |-> mode, again |-> FALSE, rows |-> <<>>,
   tries |-> tries, since |-> since]

BeginRead(r, q) ==
  /\ read[r].pc \in {"idle", "done"}
  /\ Within("reads") /\ Bump("reads")
  /\ Becomes(r, Attempt(q, 0, acked))
  /\ UNCHANGED <<scope, tableVars, metaVars, cache, index, write, hist, acked>>

(* Metadata obtained: answer from the cache, or read the table. *)
Begin(r) ==
  LET key == generateCacheKey(read[r].q)
      hits == Cached(key, Entries(r))
      rd == [read[r] EXCEPT !.key = key, !.same = TRUE, !.live = TRUE]
  IN /\ GotLatest(r, "begin")
     /\ cache' = Entries(r)
     /\ \/ /\ hits = {}
           /\ GoesOn(r, [rd EXCEPT !.pc = "read", !.mode = mode', !.again = FALSE])
        \/ \E e \in hits : GoesOn(r, Asking([rd EXCEPT !.rows = e.rows], "hit"))
     /\ UNCHANGED count

(* The metadata changed under the read: one attempt is used up. *)
Retry(r) ==
  GoesOn(r, IF read[r].tries + 1 = MaxAttempts
              THEN Done(read[r], "changed", <<>>)
              ELSE [Attempt(read[r].q, read[r].tries + 1, read[r].since) EXCEPT !.mode = mode'])

Hit(r) ==
  /\ GotLatest(r, "hit")
  /\ cache' = Entries(r)
  /\ IF Unstable(r) THEN Retry(r) ELSE GoesOn(r, Done(read[r], "ok", read[r].rows))
  /\ UNCHANGED count

(* The rows are read under the path lock.  The wrong representation has    *)
(* no files, or its recovery refuses what it finds.                        *)
PhysicalRead(r) ==
  LET rd == read[r]
      refused == IF rd.again THEN Done(rd, "error", <<>>) ELSE Asking(rd, "mode")
  IN /\ rd.pc = "read" /\ ~locked
     /\ \/ /\ rd.mode = file.mode
           /\ Becomes(r, Asking([rd EXCEPT !.rows = file.rows], "physical"))
           /\ UNCHANGED count
        \/ /\ rd.mode # file.mode
           /\ \/ Becomes(r, Asking([rd EXCEPT !.rows = <<>>], "physical"))
              \/ Becomes(r, refused)
           /\ UNCHANGED count
        \/ /\ Within("faults") /\ Bump("faults")
           /\ Becomes(r, refused)
     /\ UNCHANGED <<scope, tableVars, metaVars, cache, index, write, hist, acked>>

(* readCurrentRepresentation after an error *)
OtherMode(r) ==
  /\ GotLatest(r, "mode")
  /\ cache' = Entries(r)
  /\ GoesOn(r, IF mode' = read[r].mode THEN Done(read[r], "error", <<>>)
               ELSE [read[r] EXCEPT !.pc = "read", !.mode = mode', !.again = TRUE,
                                    !.same = @ /\ ~stale])
  /\ UNCHANGED count

Evaluate(r) ==
  /\ GotLatest(r, "physical")
  /\ cache' = Entries(r)
  /\ IF Unstable(r) THEN Retry(r)
     ELSE \E answer \in {Answer(read[r].rows, read[r].q, IndexLeft(r))} :
            GoesOn(r, IF answer.error THEN Done(read[r], "error", <<>>)
                      ELSE Asking([read[r] EXCEPT !.rows = answer.rows], "query"))
  /\ UNCHANGED count

(* An entry under a version that is gone is never found again. *)
Store(rd, entries) ==
  IF rd.key = NoKey \/ ~rd.live THEN entries
  ELSE (entries \ Cached(rd.key, entries)) \cup {[key |-> rd.key, rows |-> rd.rows]}

Finish(r) ==
  /\ GotLatest(r, "query")
  /\ IF Unstable(r)
       THEN Retry(r) /\ cache' = Entries(r)
       ELSE /\ GoesOn(r, Done(read[r], "ok", read[r].rows))
            /\ cache' = IF Changed(r) THEN {} ELSE Store(read[r], cache)
  /\ UNCHANGED count

ReadStep(r) == \/ Begin(r) \/ Hit(r) \/ PhysicalRead(r) \/ OtherMode(r)
               \/ Evaluate(r) \/ Finish(r)

-----------------------------------------------------------------------------
(* Writes.  An operation is [kind, to] with rows, where, update or ops:    *)
(* to is the representation the rows are written to, "same" or "chunked".  *)

BulkStep(rows, op) ==
  CASE op.kind = "insert" -> rows \o op.rows
    [] op.kind = "update" -> UpdateRows(rows, op.where, op.update)
    [] op.kind = "delete" ->
         LET gone == ToSet(filter(rows, op.where).rows)
         IN SelectSeq(rows, LAMBDA r : r \notin gone)

NewRows(op, rows) ==
  CASE op.kind = "append" -> rows \o op.rows
    [] op.kind = "overwrite" -> op.rows
    [] op.kind = "update" -> UpdateRows(rows, op.where, op.update)
    [] op.kind = "delete" -> SelectSeq(rows, LAMBDA r : filter(<<r>>, op.where).rows = <<>>)
    [] op.kind = "bulk" -> FoldLeft(BulkStep, rows, op.ops)

(* update() and delete() return early when no record matches. *)
HasEffect(op, rows) == op.kind \in {"update", "delete"} => filter(rows, op.where).rows # <<>>

Plan(op, rows) ==
  IF op.kind = "append" THEN stageIndexUpdate(index, op.rows, "append")
                        ELSE stageIndexUpdate(index, NewRows(op, rows), "rebuild")

(* Under the table lock: the index plan is staged, and refused when it     *)
(* breaks a unique constraint, before anything is written.                 *)
Stage(op) ==
  /\ Author = "local" /\ write = Idle
  /\ Within("writes") /\ Bump("writes")
  /\ HasEffect(op, file.rows) /\ ~Violates(Plan(op, file.rows))
  /\ write' = [pc |-> "publish", op |-> op, plan |-> Plan(op, file.rows), before |-> file,
               index |-> index, mode |-> IF op.to = "same" THEN file.mode ELSE op.to]
  /\ UNCHANGED <<scope, tableVars, metaVars, cache, index, read, hist, acked>>

WriteStep(from, to) == write.pc = from /\ write' = [write EXCEPT !.pc = to]

Publish ==
  /\ WriteStep("publish", "meta") /\ ~locked
  /\ locked' = TRUE
  /\ file' = [mode |-> write.mode, rows |-> NewRows(write.op, file.rows)]
  /\ UNCHANGED <<scope, durable, metaVars, cache, index, read, hist, acked, count>>

(* A single file: index and metadata change together, then they are saved, *)
(* also by a save that runs already: flushDirtyState loops while there are *)
(* mutations.  The chunked handler publishes the metadata itself; the      *)
(* index follows.                                                          *)
UpdateMeta ==
  /\ WriteStep("meta", "save")
  /\ mode' = write.mode /\ saving' = TRUE
  /\ index' = IF write.mode = "single" THEN applyIndexUpdate(index, write.plan) ELSE index
  /\ read' = Each(Replaced)
  /\ UNCHANGED <<scope, tableVars, stale, dirty, cache, hist, acked, count>>

\* Mutant: nobody is told that the save is over.
Saved_Silently == saving' = FALSE /\ dirty' = FALSE /\ read' = Each(Replaced)

(* flushDirtyState: new objects for all tables, and a new epoch. *)
Saved == saving' = FALSE /\ dirty' = FALSE /\ read' = Each(LAMBDA rd : Released(Replaced(rd)))

Save ==
  /\ WriteStep("save", IF write.mode = "single" THEN "commit" ELSE "chunks")
  /\ Saved /\ stale' = FALSE
  /\ durable' = write.mode
  /\ hist' = Append(hist, file.rows)
  /\ UNCHANGED <<scope, file, locked, mode, cache, index, acked, count>>

(* The chunks are in place and their lock is free.  A migration deletes    *)
(* the files of the single representation first, the index comes after.    *)
Unlock ==
  /\ \/ /\ WriteStep("chunks", "return") /\ write.before.mode = "chunked"
        /\ index' = applyIndexUpdate(index, write.plan)
     \/ /\ WriteStep("chunks", "cleanup") /\ write.before.mode = "single"
        /\ UNCHANGED index
     \/ WriteStep("commit", "return") /\ UNCHANGED index
  /\ locked' = FALSE
  /\ UNCHANGED <<scope, file, durable, metaVars, cache, read, hist, acked, count>>

Cleanup ==
  /\ WriteStep("cleanup", "return")
  /\ index' = applyIndexUpdate(index, write.plan)
  /\ UNCHANGED <<scope, tableVars, metaVars, cache, read, hist, acked, count>>

\* Mutant: the table's cache is not cleared.
Return_KeepingCache ==
  /\ write.pc = "return" /\ write' = Idle
  /\ acked' = Len(hist)
  /\ UNCHANGED <<scope, tableVars, metaVars, cache, index, read, hist, count>>

(* The write is acknowledged: the adapter calls clearTableCache. *)
Return ==
  /\ write.pc = "return" /\ write' = Idle
  /\ cache' = {} /\ read' = Each(Unreachable)
  /\ acked' = Len(hist)
  /\ UNCHANGED <<scope, tableVars, metaVars, index, hist, count>>

(* The save of a single-file write fails, and with it every read that      *)
(* waits for it; rollbackSingleFileMutation first restores the metadata    *)
(* and saves them, then the file and the indexes.                          *)
SaveFails ==
  /\ WriteStep("save", "restore") /\ write.mode = "single"
  /\ Within("faults") /\ Bump("faults")
  /\ saving' = FALSE /\ dirty' = TRUE
  /\ read' = Each(LAMBDA rd : IF Running(rd) /\ rd.waits THEN Done(rd, "error", <<>>) ELSE rd)
  /\ UNCHANGED <<scope, tableVars, mode, stale, cache, index, hist, acked>>

RestoreMeta ==
  /\ WriteStep("restore", "resave")
  /\ saving' = TRUE /\ read' = Each(Replaced)
  /\ UNCHANGED <<scope, tableVars, mode, stale, dirty, cache, index, hist, acked, count>>

SaveRestored ==
  /\ WriteStep("resave", "rollback")
  /\ Saved
  /\ UNCHANGED <<scope, tableVars, mode, stale, cache, index, hist, acked, count>>

\* Mutant: the indexes keep the entries of the write that was rolled back.
Rollback_WithoutIndex ==
  /\ write.pc = "rollback" /\ write' = Idle
  /\ file' = write.before /\ locked' = FALSE
  /\ read' = Each(Replaced) /\ dirty' = TRUE
  /\ UNCHANGED <<scope, durable, mode, stale, saving, cache, index, hist, acked, count>>

(* restoreIndexes clears the table's indexes and creates them anew; both   *)
(* change the metadata, which a timer saves later.                         *)
Rollback ==
  /\ write.pc = "rollback" /\ write' = Idle
  /\ file' = write.before /\ locked' = FALSE
  /\ index' = write.index
  /\ read' = Each(Replaced) /\ dirty' = TRUE
  /\ UNCHANGED <<scope, durable, mode, stale, saving, cache, hist, acked, count>>

(* Another adapter writes: it shares the path lock and the epoch only.     *)
ForeignStage(op) ==
  /\ Author = "foreign" /\ write = Idle
  /\ Within("writes") /\ Bump("writes")
  /\ HasEffect(op, file.rows)
  /\ write' = [pc |-> "foreign", op |-> op,
               mode |-> IF op.to = "same" THEN file.mode ELSE op.to]
  /\ UNCHANGED <<scope, tableVars, metaVars, cache, index, read, hist, acked>>

ForeignPublish ==
  /\ WriteStep("foreign", "foreign save") /\ ~locked
  /\ locked' = TRUE
  /\ file' = [mode |-> write.mode, rows |-> NewRows(write.op, file.rows)]
  /\ UNCHANGED <<scope, durable, metaVars, cache, index, read, hist, acked, count>>

ForeignSave ==
  /\ WriteStep("foreign save", "foreign return")
  /\ durable' = write.mode /\ stale' = TRUE
  /\ hist' = Append(hist, file.rows)
  /\ UNCHANGED <<scope, file, locked, mode, saving, dirty, cache, index, read, acked, count>>

ForeignReturn ==
  /\ write.pc = "foreign return" /\ write' = Idle
  /\ locked' = FALSE /\ acked' = Len(hist)
  /\ UNCHANGED <<scope, file, durable, metaVars, cache, index, read, hist, count>>

(* The adapter saves metadata for another reason: a mutation of another    *)
(* table, or one that waits for its timer.  A foreign write's metadata are *)
(* merged into the adapter's on the way, and no namespace is invalidated.  *)
BeginFlush ==
  /\ ~saving /\ write.pc \notin {"save", "resave"}
  /\ saving' = TRUE
  /\ \/ dirty /\ UNCHANGED count
     \/ ~dirty /\ Within("flushes") /\ Bump("flushes")
  /\ UNCHANGED <<scope, tableVars, mode, stale, dirty, cache, index, write, read, hist, acked>>

EndFlush ==
  /\ saving /\ write.pc \notin {"save", "resave"}
  /\ Saved
  /\ mode' = durable /\ stale' = FALSE
  /\ UNCHANGED <<scope, tableVars, cache, index, write, hist, acked, count>>

LocalStep == \/ Publish \/ UpdateMeta \/ Save \/ Unlock \/ Cleanup \/ Return
             \/ SaveFails \/ RestoreMeta \/ SaveRestored \/ Rollback
ForeignStep == ForeignPublish \/ ForeignSave \/ ForeignReturn

-----------------------------------------------------------------------------
(* The index a behaviour starts with: "unique" and "normal" ones cover the *)
(* table, a "late" one was created when there were rows already.           *)
Covering(rows, type) ==
  IF type = "none" THEN NoIndex
  ELSE IF type = "late" THEN [type |-> "normal", ready |-> FALSE, data |-> NoEntries]
  ELSE [type |-> type, ready |-> TRUE, data |-> AddEntries(NoEntries, rows)]

Init ==
  /\ scope \in DOMAIN Scopes
  /\ file \in [mode : Scopes[scope].modes, rows : Scopes[scope].tables]
  /\ index \in {Covering(file.rows, type) : type \in Scopes[scope].indexes}
  /\ ~Violates(index)
  /\ locked = FALSE /\ durable = file.mode
  /\ mode = durable /\ stale = FALSE /\ saving = FALSE /\ dirty = FALSE
  /\ cache = {}
  /\ write = Idle /\ read = [r \in Readers |-> Idle]
  /\ hist = <<file.rows>> /\ acked = 1
  /\ count = [reads |-> 0, writes |-> 0, faults |-> 0, flushes |-> 0]

Next ==
  \/ \E r \in Scopes[scope].readers, q \in Scopes[scope].queries : BeginRead(r, q)
  \/ \E r \in Readers : ReadStep(r)
  \/ \E op \in Scopes[scope].operations : Stage(op) \/ ForeignStage(op)
  \/ LocalStep \/ ForeignStep \/ BeginFlush \/ EndFlush

Fairness == /\ \A r \in Readers : WF_vars(ReadStep(r))
            /\ WF_vars(LocalStep) /\ WF_vars(ForeignStep) /\ WF_vars(EndFlush)

Spec == Init /\ [][Next]_vars /\ Fairness

-----------------------------------------------------------------------------
(* What a query and a write mean                                           *)

RECURSIVE RefLike(_, _)
RefLike(text, pattern) ==
  IF pattern = <<>> THEN text = <<>>
  ELSE IF pattern[1] = Percent
    THEN \E k \in 0..Len(text) : RefLike(SubSeq(text, k + 1, Len(text)), Tail(pattern))
    ELSE /\ text # <<>> /\ pattern[1] \in {Underscore, text[1]}
         /\ RefLike(Tail(text), Tail(pattern))

RefPasses(test, item) ==
  IF test.op = "$like" /\ IsA("str", item) /\ IsA("str", test.arg)
    THEN RefLike(Lower(item[2]), Lower(test.arg[2]))
    ELSE Passes(test, item)

RECURSIVE Satisfies(_, _)
Satisfies(row, cond) ==
  CASE cond.kind = "none" -> TRUE
    [] cond.kind = "junk" -> FALSE
    [] cond.kind = "function" -> row \in cond.rows
    [] cond.kind = "and" -> \A i \in DOMAIN cond.subs : Satisfies(row, cond.subs[i])
    [] cond.kind = "or" -> \E i \in DOMAIN cond.subs : Satisfies(row, cond.subs[i])
    [] cond.kind = "fields" -> \A i \in DOMAIN cond.fields : \A j \in DOMAIN cond.fields[i].ops :
                                 RefPasses(cond.fields[i].ops[j], row[cond.fields[i].key])

RECURSIVE Depth(_)
Depth(cond) ==
  IF cond.kind \in {"and", "or"}
    THEN 1 + FoldLeft(LAMBDA deepest, sub : IF sub.kind # "junk" /\ Depth(sub) > deepest
                                           THEN Depth(sub) ELSE deepest,
                      0, cond.subs)
    ELSE 0

(* $or lists the matches of its first branch, then those of the next.      *)
Branch(row, cond) ==
  IF cond.kind # "or" THEN 0
  ELSE CHOOSE i \in DOMAIN cond.subs :
         /\ Satisfies(row, cond.subs[i])
         /\ \A j \in 1..(i - 1) : ~Satisfies(row, cond.subs[j])

RefCompare(q, algorithm, x, y, i) ==
  IF algorithm \in {"fast", "slow"}
    THEN compareAsText(x[q.by[i]], y[q.by[i]], OrderAt(q.orders, i))
    ELSE compareSortValues(x[q.by[i]], y[q.by[i]], OrderAt(q.orders, i))

(* Row i of the table comes before row j: by the first sort field on which *)
(* they differ, else by branch, else by position.                          *)
Before(q, algorithm, rows, i, j) ==
  LET differ == {k \in DOMAIN q.by : RefCompare(q, algorithm, rows[i], rows[j], k) # 0}
      bi == Branch(rows[i], q.filter)
      bj == Branch(rows[j], q.filter)
  IN IF differ # {}
       THEN RefCompare(q, algorithm, rows[i], rows[j],
                       CHOOSE k \in differ : \A l \in differ : k <= l) < 0
       ELSE bi < bj \/ (bi = bj /\ i < j)

Reference(q, rows) ==
  LET chosen == {i \in DOMAIN rows : Satisfies(rows[i], q.filter)}
      algorithm == selectSortAlgorithm(q.algorithm,
                     SelectSeq(rows, LAMBDA r : Satisfies(r, q.filter)), q.by)
      Place(i) == Cardinality({j \in chosen : Before(q, algorithm, rows, j, i)})
      last == IF q.limit = NoLimit THEN Len(rows) ELSE q.skip + q.limit
  IN FoldLeft(LAMBDA acc, n : IF \E i \in chosen : Place(i) = n
                                THEN Append(acc, rows[CHOOSE i \in chosen : Place(i) = n])
                                ELSE acc,
              <<>>, SetToSortSeq(q.skip..(last - 1), <))

(* The final value of a field under an update. *)
RefField(row, update, field) ==
  LET Has(op) == \E i \in DOMAIN update : update[i].op = op /\ update[i].field = field
      Arg(op) == update[CHOOSE i \in DOMAIN update :
                          update[i].op = op /\ update[i].field = field].arg
      base == IF Has("$unset") THEN Undefined
              ELSE IF Has("$set") THEN Arg("$set")
              ELSE IF ~Has("$inc") \/ ~IsA("num", Arg("$inc")) THEN row[field]
              ELSE Num(Arg("$inc")[2] + (IF IsA("num", row[field]) THEN row[field][2] ELSE 0))
      pushed == IF Has("$push") THEN Arr(Elements(base) \o <<Arg("$push")>>) ELSE base
      pulled == IF Has("$pull") /\ IsA("arr", pushed)
                  THEN Arr(SelectSeq(pushed[2], LAMBDA x : x # Arg("$pull"))) ELSE pushed
  IN IF Has("field") THEN Arg("field")
     ELSE IF ~Has("$addToSet") THEN pulled
     ELSE Arr(Elements(pulled) \o
              (IF Arg("$addToSet") \in ToSet(Elements(pulled)) THEN <<>> ELSE <<Arg("$addToSet")>>))

RefUpdated(row, update) == [f \in DOMAIN row |-> RefField(row, update, f)]

RefKept(rows, where) == SelectSeq(rows, LAMBDA r : ~Satisfies(r, where))
RefUpdate(rows, where, update) ==
  FoldLeft(LAMBDA acc, r : Append(acc, IF Satisfies(r, where) THEN RefUpdated(r, update) ELSE r),
           <<>>, rows)

RefWrite(op, rows) ==
  CASE op.kind \in {"append", "insert"} -> rows \o op.rows
    [] op.kind = "overwrite" -> op.rows
    [] op.kind = "update" -> RefUpdate(rows, op.where, op.update)
    [] op.kind = "delete" -> RefKept(rows, op.where)

RefWrites(op, rows) ==
  IF op.kind = "bulk" THEN FoldLeft(LAMBDA acc, o : RefWrite(o, acc), rows, op.ops)
                      ELSE RefWrite(op, rows)

-----------------------------------------------------------------------------
(* Properties                                                              *)

TypeOK ==
  /\ file.mode \in Modes /\ durable \in Modes /\ mode \in Modes
  /\ {locked, stale, saving, dirty} \subseteq BOOLEAN /\ acked \in DOMAIN hist
  /\ \A e \in cache, f \in cache : e.key = f.key => e = f
  /\ \A r \in Readers : read[r].pc \in {"idle", "wait", "read", "done"}
  /\ \A r \in Readers : Running(read[r]) => read[r].tries < MaxAttempts

(* A read that succeeds returns what the query means on one generation of  *)
(* the table that was current at some moment of the read: nothing older    *)
(* than the last write acknowledged before it began, nothing rolled back,  *)
(* no mixture.  DataReader.read, with its cache keys, index and retries.   *)
ReadIsSnapshot ==
  \A r \in Readers : read[r].pc = "done" /\ read[r].status = "ok" =>
    /\ Depth(read[r].q.filter) <= MaxFilterDepth
    /\ \E i \in read[r].since..Len(hist) : read[r].rows = Reference(read[r].q, hist[i])

(* Between two writes the index either was dropped or holds exactly the    *)
(* table's values and ids, and a unique one no value twice: also after a   *)
(* write that was rolled back and during migrations (IndexManager and      *)
(* DataWriter.restoreIndexes).                                             *)
IndexAgrees ==
  write = Idle /\ Author = "local" /\ index.ready =>
    /\ {v \in DOMAIN index.data : index.data[v] # <<>>} =
         {file.rows[i][IndexedField] : i \in DOMAIN file.rows} \ {Undefined}
    /\ \A v \in DOMAIN index.data :
         /\ index.type = "unique" => Len(index.data[v]) <= 1
         /\ index.data[v] = FoldLeft(LAMBDA acc, r : IF r[IndexedField] = v THEN Append(acc, r.id)
                                                     ELSE acc, <<>>, file.rows)

(* A write changes the rows its filter means, and those as its operators   *)
(* mean, and no others; the rest stays as and where it is                  *)
(* (processUpdateOperators, update, delete, bulkWrite).                    *)
WritesMatchReference ==
  [][locked' /\ file' # file => file'.rows = RefWrites(write.op, file.rows)]_vars

(* Every read ends: in rows, in an error or in "changed repeatedly".       *)
EveryReadEnds ==
  \A r \in Readers : read[r].pc \in {"wait", "read"} ~> read[r].pc = "done"

(* The state is well formed, and the index agrees with the table.        *)
Consistent == TypeOK /\ IndexAgrees
=============================================================================
