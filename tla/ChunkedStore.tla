---------------------------- MODULE ChunkedStore ----------------------------
(***************************************************************************)
(* One chunked table: the handler that appends behind an append journal    *)
(* and overwrites behind a backup directory and an overwrite journal       *)
(* (core/file/ChunkedFileHandler.ts), and what DataWriter adds: creation,  *)
(* deletion and the migration of a single-file table.                      *)
(*                                                                         *)
(* A filesystem mutation is a step: it succeeds, fails without effect,     *)
(* takes effect after its deadline (LateEffects), or, when it touches      *)
(* several files, does so for some of them; and the process may be killed  *)
(* between any two steps or inside such a call.  Journals, markers and     *)
(* chunks are published by a temporary file and a move, so each of them is *)
(* there in full or not at all.  The path lock admits one operation at a   *)
(* time (FifoLock): one program counter and one call stack are enough.     *)
(*                                                                         *)
(* Data abstraction: a chunk is a value with CountOf records; the content  *)
(* of a table is a sequence of chunks.                                     *)
(***************************************************************************)
EXTENDS Naturals, Sequences, FiniteSets

CONSTANTS
  Chunk,        \* values of a chunk
  CountOf,      \* number of records in it: [Chunk -> Nat \ {0}]
  MaxChunks,    \* bound on the chunks of a table
  Batches,      \* what one append may add: non-empty sequences of chunks
  Overwrites,   \* what one overwrite may write
  CreateData,   \* initial data of createTable
  Absent, NoDir, NoJournal, NoTable, Broken,
  OldJournals,  \* version 1 overwrite journals an upgrade may have to recover
  LateEffects,  \* TRUE: a call that reports a timeout may have taken effect
  MaxWrites,    \* bound on the mutating operations of a behaviour
  MaxFaults,    \* bound on failing filesystem calls
  MaxCrashes    \* bound on process kills

Idx == 0..(MaxChunks - 1)
Content == UNION {[1..n -> Chunk] : n \in 0..MaxChunks}

Dir == [Idx -> Chunk \cup {Absent}]
EmptyDir == [i \in Idx |-> Absent]
Meta == [mode: {"single", "chunked"}, count: Nat, chunks: Nat]
AppendJournal == [count: Nat, chunks: Nat, n: Nat]
OverwriteJournal == [id: Nat, dirExisted: BOOLEAN, count: Nat, chunks: Nat]
OldJournal == [prev: Content, target: Content]

ASSUME ChunkAssumption ==
  /\ CountOf \in [Chunk -> Nat \ {0}] /\ MaxChunks \in Nat \ {0}
  /\ Batches \subseteq Content \ {<<>>} /\ Overwrites \subseteq Content
  /\ CreateData \subseteq Content
  /\ Absent \notin Chunk /\ NoDir \notin Dir /\ NoTable \notin Content \cup Meta
  /\ Broken \notin Content \cup {NoTable}
  /\ OldJournals \subseteq OldJournal
  /\ NoJournal \notin AppendJournal \cup OverwriteJournal \cup OldJournal
  /\ LateEffects \in BOOLEAN
  /\ MaxWrites \in Nat /\ MaxFaults \in Nat /\ MaxCrashes \in Nat

VARIABLES
  fs,      \* table directory, backup directory, marker, journals, single file
  meta,    \* the table's record in the durable metadata snapshot
  cache,   \* the manager's record: the durable one plus pending mutations
  dirty,   \* the manager has mutations it has not persisted
  pc, op,  \* next step of the running operation, its locals and call stack
  writes, faults, crashes

vars == <<fs, meta, cache, dirty, pc, op, writes, faults, crashes>>
disk == <<fs, faults>>
record == <<meta, cache, dirty>>
bounds == <<writes, crashes>>

Gone == NoTable   \* what a client observes of a table that does not exist

-----------------------------------------------------------------------------
(* Directories of chunks                                                   *)

Records(s) ==
  LET upTo[n \in 0..Len(s)] == IF n = 0 THEN 0 ELSE upTo[n - 1] + CountOf[s[n]] IN upTo[Len(s)]
Files(d) == IF d = NoDir THEN {} ELSE {i \in Idx : d[i] # Absent}
At(d, i) == IF d = NoDir THEN Absent ELSE d[i]
Listing(d) == [i \in 1..Cardinality(Files(d)) |-> d[i - 1]]

(* validateChunkFileSet: contiguous, and as many as the metadata says.     *)
Complete(d, chunks) == Files(d) = 0..(chunks - 1)

(* validateChunkDirectory, for chunks whose hashes are sound.              *)
ValidDir(d, count, chunks, allowMissing) ==
  IF d = NoDir THEN allowMissing /\ count = 0 /\ chunks = 0
  ELSE Complete(d, chunks) /\ Records(Listing(d)) = count

Without(d, S) == IF d = NoDir THEN NoDir ELSE [i \in Idx |-> IF i \in S THEN Absent ELSE d[i]]
With(d, from, data) ==
  [i \in Idx |-> IF i \in from..(from + Len(data) - 1) THEN data[i - from + 1] ELSE d[i]]
Targets(j) == j.chunks..(j.chunks + j.n - 1)

-----------------------------------------------------------------------------
(* Control: labels, calls of the handler's own methods, filesystem calls   *)

NoOp == [kind |-> "none", data |-> <<>>, batch |-> <<>>, ret |-> <<>>, from |-> Gone,
         prev |-> NoTable, todo |-> <<>>, val |-> <<>>]

Frame(ok, err) == [ok |-> ok, err |-> err]

(* Continue at a label; "ok" and "err" return to the innermost frame.      *)
To(l) ==
  IF l \in {"ok", "err"}
  THEN pc' = Head(op.ret)[l] /\ op' = [op EXCEPT !.ret = Tail(@)]
  ELSE pc' = l /\ UNCHANGED op

Run(l, frames) == pc' = l /\ op' = [op EXCEPT !.ret = frames \o @]

Fault == faults < MaxFaults /\ faults' = faults + 1

(* One filesystem call that turns the disk into f; partial is the set of   *)
(* states in which it may stop half-way.                                   *)
Call(f, partial, next, onError) ==
  \/ fs' = f /\ To(next) /\ UNCHANGED faults
  \/ /\ Fault
     /\ fs' \in {fs} \cup partial \cup IF LateEffects THEN {f} ELSE {}
     /\ To(onError)

(* saveImmediately: a failed publication may be durable, and leaves the    *)
(* mutations pending either way.                                           *)
Save(rec, next, onError) ==
  /\ cache' = rec
  /\ \/ meta' = rec /\ dirty' = FALSE /\ To(next) /\ UNCHANGED faults
     \/ Fault /\ meta' \in {meta, rec} /\ dirty' = TRUE /\ To(onError)
  /\ UNCHANGED fs

Chunked(count, chunks) == [mode |-> "chunked", count |-> count, chunks |-> chunks]

(* Recursive deletion of a directory stops at any subset of its files.     *)
DirLeft == {[fs EXCEPT !.dir = Without(fs.dir, S)] : S \in SUBSET Files(fs.dir)}
BakLeft == {[fs EXCEPT !.bak = Without(fs.bak, S), !.ready = r] :
              S \in SUBSET Files(fs.bak), r \in {0, fs.ready}}

ResetDir(next, onError) == Call([fs EXCEPT !.dir = NoDir], DirLeft, next, onError)
MakeDir(next, onError) ==
  Call([fs EXCEPT !.dir = IF @ = NoDir THEN EmptyDir ELSE @], {}, next, onError)

DropBackup(next, onError) ==
  Call([fs EXCEPT !.bak = NoDir, !.ready = 0], BakLeft, next, onError)
DropOverwriteJournal(next, onError) ==
  Call([fs EXCEPT !.oj = NoJournal], {}, next, onError)
DropAppendJournal(next, onError) ==
  Call([fs EXCEPT !.aj = NoJournal], {}, next, onError)

(* deleteChunkFiles: all deletions are tried, some may fail.               *)
ChunksLeft(S) == {[fs EXCEPT !.dir = Without(fs.dir, T)] : T \in SUBSET S}
DeleteChunks(S, next, onError) ==
  Call([fs EXCEPT !.dir = Without(fs.dir, S)], ChunksLeft(S), next, onError)

(* writeChunks: batches of chunks in parallel, each published by a move.   *)
ChunksWritten(from) ==
  {[fs EXCEPT !.dir = Without(With(fs.dir, from, op.batch), T)] :
     T \in SUBSET (from..(from + Len(op.batch) - 1))}
WriteChunks(from, next, onError) ==
  Call([fs EXCEPT !.dir = With(fs.dir, from, op.batch)], ChunksWritten(from), next, onError)

-----------------------------------------------------------------------------
(* recoverPendingAppendJournal: back to the recorded chunk count, also     *)
(* when the metadata of the append is durable.                             *)

RecoverAppend ==
  \/ /\ pc = "recA" /\ To(IF fs.aj = NoJournal THEN "ok" ELSE "raDel")
     /\ UNCHANGED <<disk, record>>
  \/ /\ pc = "raDel" /\ DeleteChunks(Targets(fs.aj), "raMeta", "err")
     /\ UNCHANGED record
  \/ /\ pc = "raMeta"
     /\ Save([cache EXCEPT !.count = fs.aj.count, !.chunks = fs.aj.chunks], "raDelJ", "err")
  \/ /\ pc = "raDelJ" /\ DropAppendJournal("ok", "err")
     /\ UNCHANGED record

-----------------------------------------------------------------------------
(* recoverPendingOverwriteJournal                                          *)

IsChunked == cache # NoTable /\ cache.mode = "chunked"

(* A restored chunk must not contradict a chunk that is there.             *)
Conflict(i) == At(fs.bak, i) # Absent /\ At(fs.dir, i) \notin {Absent, fs.bak[i]}
Lost(i) == At(fs.bak, i) = Absent /\ At(fs.dir, i) = Absent
ToRestore == {i \in 0..(fs.oj.chunks - 1) :
                Conflict(i) \/ Lost(i) \/ (At(fs.dir, i) = Absent /\ At(fs.bak, i) # Absent)}

(* The content of a version 1 table matches the journal's target.          *)
OldTargetMatches ==
  Complete(fs.dir, cache.chunks) /\ Listing(fs.dir) = fs.oj.target

ChooseRecovery ==
  CASE fs.oj = NoJournal /\ fs.bak = NoDir -> To("ok")
    [] fs.oj = NoJournal /\ fs.bak # NoDir ->   \* cleanupCommittedOverwriteBackup
         To(IF IsChunked /\ ValidDir(fs.dir, cache.count, cache.chunks, FALSE)
            THEN "roDelBak" ELSE "err")
    [] fs.oj \in OldJournal ->
         IF OldTargetMatches THEN To("roDelOld")
         ELSE Run("clrDel", IF fs.oj.prev = <<>> THEN <<Frame("roDelOld", "throw")>>
                            ELSE <<Frame("recA", "throw"), Frame("appOld", "throw"),
                                   Frame("roDelOld", "throw")>>)
    [] fs.oj \in OverwriteJournal ->
         To(CASE fs.ready \notin {0, fs.oj.id} \/ ~IsChunked -> "err"
              [] fs.ready = fs.oj.id /\ IsChunked ->
                   IF ValidDir(fs.bak, fs.oj.count, fs.oj.chunks, FALSE) THEN "rrReset" ELSE "err"
              [] OTHER -> IF Files(fs.bak) \subseteq 0..(fs.oj.chunks - 1) THEN "rpMk" ELSE "err")

NeedsDir == fs.oj.dirExisted \/ fs.oj.chunks > 0

(* copyBackupChunk, in the order of the chunks.                            *)
RestoreChunk ==
  IF ToRestore = {} THEN To("rpMeta") /\ UNCHANGED disk
  ELSE LET i == CHOOSE x \in ToRestore : \A y \in ToRestore : x <= y
       IN  IF Conflict(i) \/ Lost(i) THEN To("err") /\ UNCHANGED disk
           ELSE Call([fs EXCEPT !.dir[i] = fs.bak[i]], {}, "rpCopy", "err")

RecoverOverwrite ==
  \/ /\ \/ pc = "recO" /\ ChooseRecovery /\ UNCHANGED disk
        \/ pc = "rrReset" /\ ResetDir("rpMk", "err")
        \/ /\ pc = "rpMk"
           /\ IF NeedsDir THEN MakeDir("rpCopy", "err") ELSE To("rpCopy") /\ UNCHANGED disk
        \/ pc = "rpCopy" /\ RestoreChunk
        \/ pc = "roDelJ" /\ DropOverwriteJournal("roDelBak", "err")
        \/ pc = "roDelBak" /\ DropBackup("ok", "ok")
        \/ pc = "roDelOld" /\ DropOverwriteJournal("ok", "err")
     /\ UNCHANGED record
  \/ /\ pc = "rpMeta"
     /\ IF ValidDir(fs.dir, fs.oj.count, fs.oj.chunks, ~fs.oj.dirExisted)
        THEN Save(Chunked(fs.oj.count, fs.oj.chunks), "roDelJ", "err")
        ELSE To("err") /\ UNCHANGED <<disk, record>>

(* An error inside a nested method is an error of the method.              *)
Throw == pc = "throw" /\ To("err") /\ UNCHANGED <<disk, record>>

-----------------------------------------------------------------------------
(* clearUnlocked                                                           *)

Clear ==
  \/ pc = "clrDel" /\ ResetDir("clrMk", "err") /\ UNCHANGED record
  \/ pc = "clrMk" /\ MakeDir("clrMeta", "err") /\ UNCHANGED record
  \/ pc = "clrMeta" /\ Save(Chunked(0, 0), "ok", "err")

-----------------------------------------------------------------------------
(* appendInternal, after the recoveries it starts with                     *)

KnownCount(m) == IF m = NoTable THEN 0 ELSE m.count
KnownChunks(m) == IF m = NoTable THEN 0 ELSE m.chunks

StartAppend ==
  LET data == IF pc = "app" THEN op.data ELSE fs.oj.prev
  IN  IF data = <<>> THEN To("ok")
      ELSE pc' = "appMk" /\ op' = [op EXCEPT !.batch = data, !.prev = cache]

PublishJournal ==
  IF ~Complete(fs.dir, KnownChunks(cache)) THEN To("err") /\ UNCHANGED disk
  ELSE Call([fs EXCEPT !.aj = [count |-> KnownCount(cache), chunks |-> KnownChunks(cache),
                               n |-> Len(op.batch)]], {}, "appWrite", "err")

Appended == Chunked(KnownCount(op.prev) + Records(op.batch), KnownChunks(op.prev) + Len(op.batch))
AppendTargets == KnownChunks(op.prev)..(KnownChunks(op.prev) + Len(op.batch) - 1)

(* Mutant of AppendFiles: the journal goes before the metadata is durable. *)
AppendFiles_JournalFirst ==
  /\ \/ pc \in {"app", "appOld"} /\ StartAppend /\ UNCHANGED disk
     \/ pc = "appMk" /\ MakeDir("appJ", "err")
     \/ pc = "appJ" /\ PublishJournal
     \/ pc = "appWrite" /\ WriteChunks(KnownChunks(op.prev), "appDelJ", "appUndo")
     \/ pc = "appDelJ" /\ DropAppendJournal("appMeta", "appUndoM")
     \/ pc = "appUndo" /\ DeleteChunks(AppendTargets, "appUndoJ", "err")
     \/ pc = "appUndoM" /\ DeleteChunks(AppendTargets, "appUndoMeta", "err")
     \/ pc = "appUndoJ" /\ DropAppendJournal("err", "err")
  /\ UNCHANGED record

(* The files of an append, and of the undoing of a failed one: chunks      *)
(* first, then (AppendMeta) the record, then the journal.                  *)
AppendFiles ==
  /\ \/ pc \in {"app", "appOld"} /\ StartAppend /\ UNCHANGED disk
     \/ pc = "appMk" /\ MakeDir("appJ", "err")
     \/ pc = "appJ" /\ PublishJournal
     \/ pc = "appWrite" /\ WriteChunks(KnownChunks(op.prev), "appMeta", "appUndo")
     \/ pc = "appDelJ" /\ DropAppendJournal("ok", "appUndoM")
     \/ pc = "appUndo" /\ DeleteChunks(AppendTargets, "appUndoJ", "err")
     \/ pc = "appUndoM" /\ DeleteChunks(AppendTargets, "appUndoMeta", "err")
     \/ pc = "appUndoJ" /\ DropAppendJournal("err", "err")
  /\ UNCHANGED record

AppendMeta ==
  \/ pc = "appMeta" /\ Save(Appended, "appDelJ", "appUndoM")
  \/ pc = "appUndoMeta" /\ Save(op.prev, "appUndoJ", "err")

-----------------------------------------------------------------------------
(* writeUnlocked                                                           *)

StartOverwrite ==
  IF ~(IsChunked /\ ValidDir(fs.dir, cache.count, cache.chunks, fs.dir = NoDir))
  THEN To("failed") /\ UNCHANGED disk
  ELSE Call([fs EXCEPT !.oj = [id |-> writes, dirExisted |-> fs.dir # NoDir,
                               count |-> cache.count, chunks |-> cache.chunks]],
            {}, "wMkBak", "failed")

BackupChunk ==
  IF Files(fs.dir) = {} THEN To("wReady") /\ UNCHANGED disk
  ELSE LET i == CHOOSE x \in Files(fs.dir) : \A y \in Files(fs.dir) : x <= y
       IN  Call([fs EXCEPT !.bak[i] = fs.dir[i], !.dir[i] = Absent], {}, "wMove", "wCatch")

MarkReady ==
  IF ValidDir(fs.bak, fs.oj.count, fs.oj.chunks, FALSE)
     /\ ValidDir(fs.dir, 0, 0, ~fs.oj.dirExisted)
  THEN Call([fs EXCEPT !.ready = fs.oj.id], {}, "wClear", "wCatch")
  ELSE To("wCatch") /\ UNCHANGED disk

NewGeneration ==
  Run("clrDel", IF op.data = <<>> THEN <<Frame("wMeta", "wCatch")>>
                ELSE <<Frame("recA", "wCatch"), Frame("app", "wCatch"), Frame("wMeta", "wCatch")>>)

(* Mutant of OverwriteFiles: the old chunks are not set aside.             *)
OverwriteFiles_NoBackup ==
  /\ \/ pc = "wStart" /\ StartOverwrite
     \/ /\ pc = "wMkBak"
        /\ IF fs.bak # NoDir THEN To("wCatch") /\ UNCHANGED disk
           ELSE Call([fs EXCEPT !.bak = EmptyDir], {}, "wClear", "wCatch")
     \/ pc = "wClear" /\ NewGeneration /\ UNCHANGED disk
     \/ pc = "wDelJ" /\ DropOverwriteJournal("wDelBak", "wCatch")
     \/ pc = "wDelBak" /\ DropBackup("okDone", "okDone")
     \/ /\ pc = "wCatch" /\ UNCHANGED disk
        /\ Run("recA", <<Frame("recO", "failed"), Frame("failed", "failed")>>)
  /\ UNCHANGED record

(* Journal, backup, marker, new chunks; the deletion of the journal        *)
(* commits.  On an error the recovery runs and its own errors are logged.  *)
OverwriteFiles ==
  /\ \/ pc = "wStart" /\ StartOverwrite
     \/ /\ pc = "wMkBak"
        /\ IF fs.bak # NoDir THEN To("wCatch") /\ UNCHANGED disk
           ELSE Call([fs EXCEPT !.bak = EmptyDir], {}, "wMove", "wCatch")
     \/ pc = "wMove" /\ BackupChunk
     \/ pc = "wReady" /\ MarkReady
     \/ pc = "wClear" /\ NewGeneration /\ UNCHANGED disk
     \/ pc = "wDelJ" /\ DropOverwriteJournal("wDelBak", "wCatch")
     \/ pc = "wDelBak" /\ DropBackup("okDone", "okDone")
     \/ /\ pc = "wCatch" /\ UNCHANGED disk
        /\ Run("recA", <<Frame("recO", "failed"), Frame("failed", "failed")>>)
  /\ UNCHANGED record

OverwriteMeta ==
  pc = "wMeta" /\ Save([cache EXCEPT !.count = Records(op.data)], "wDelJ", "wCatch")

-----------------------------------------------------------------------------
(* writeSingleFileMigrationUnlocked, and the cleanup DataWriter adds        *)

MigrateFiles ==
  /\ \/ pc = "mDelA" /\ DropAppendJournal("mDelO", "failed")
     \/ pc = "mDelO" /\ DropOverwriteJournal("mDelB", "failed")
     \/ pc = "mDelB" /\ DropBackup("mReset", "failed")
     \/ pc = "mReset" /\ ResetDir("mMk", "failed")
     \/ pc = "mMk" /\ MakeDir("mWrite", "failed")
     \/ pc = "mWrite" /\ WriteChunks(0, "mCheck", "mCatch")
     \/ pc = "mCheck" /\ UNCHANGED disk
        /\ To(IF ValidDir(fs.dir, Records(op.data), Len(op.data), FALSE) THEN "mMeta" ELSE "mCatch")
     \/ pc = "mCatch" /\ ResetDir("failed", "failed")
     \/ pc = "mClean" /\ Call([fs EXCEPT !.single = Absent], {}, "okDone", "okDone")
  /\ UNCHANGED record

MigrateMeta ==
  \/ pc = "mMeta" /\ Save(Chunked(Records(op.data), Len(op.data)), "mClean", "mUndoMeta")
  \/ pc = "mUndoMeta" /\ Save(op.prev, "mCatch", "failed")

-----------------------------------------------------------------------------
(* createTable and deleteTable: purgeTableArtifacts tries every deletion   *)

PurgeAll == <<"oj", "aj", "bak", "single", "dir">>
PurgeChunked == <<"single", "oj", "aj", "bak", "dir">>

Purged(f) ==
  CASE f \in {"oj", "aj"} -> [fs EXCEPT ![f] = NoJournal]
    [] f = "single" -> [fs EXCEPT !.single = Absent]
    [] f = "dir" -> [fs EXCEPT !.dir = NoDir]
    [] f = "bak" -> [fs EXCEPT !.bak = NoDir, !.ready = 0]

PurgeLeft(f) == CASE f = "dir" -> DirLeft [] f = "bak" -> BakLeft [] OTHER -> {}

(* A failed deletion is reported when all have been tried; the metadata of *)
(* a dropped table is gone by then, so only a creation depends on it.      *)
Purge ==
  /\ pc = "purge"
  /\ LET rest == Tail(op.todo)
         next == IF rest # <<>> THEN "purge" ELSE IF op.kind = "drop" THEN "okDone" ELSE "purged"
     IN  \/ /\ fs' = Purged(Head(op.todo)) /\ UNCHANGED faults
            /\ pc' = next /\ op' = [op EXCEPT !.todo = rest]
         \/ /\ Fault /\ fs' \in {fs} \cup PurgeLeft(Head(op.todo))
            /\ pc' = next /\ op' = [op EXCEPT !.todo = rest, !.val = <<"failed">>]
  /\ UNCHANGED record

Purge2 ==
  /\ pc = "purged" /\ UNCHANGED <<disk, record>>
  /\ CASE op.prev # NoTable -> To("cUndoMeta")   \* the purge of a failed creation
       [] op.prev = NoTable /\ op.val # <<>> -> To("failed")
       [] OTHER -> Run("recA", <<Frame("recO", "failed"), Frame("app", "failed"),
                                 Frame("cMeta", "failed")>>)

TableMeta ==
  \/ pc = "cMeta" /\ Save(Chunked(Records(op.data), KnownChunks(cache)), "okDone", "cUndo")
  \/ /\ pc = "cUndo" /\ UNCHANGED <<disk, record>>
     /\ pc' = "purge" /\ op' = [op EXCEPT !.todo = PurgeChunked, !.prev = cache]
  \/ pc = "cUndoMeta" /\ Save(NoTable, "failed", "failed")
  \/ pc = "dMeta" /\ Save(NoTable, "purge", "dUndoMeta")
  \/ pc = "dUndoMeta" /\ Save(op.prev, "failed", "failed")

-----------------------------------------------------------------------------
(* The content that the durable state stands for: what the recovery of a   *)
(* restarted process makes of it or, when it fails closed, what is there   *)
(* for a manual restoration.                                               *)

Intact(d, chunks) == IF Complete(d, chunks) THEN Listing(d) ELSE Broken

View ==
  LET d == IF fs.aj = NoJournal THEN fs.dir ELSE Without(fs.dir, Targets(fs.aj))
      chunks == IF fs.aj = NoJournal THEN meta.chunks ELSE fs.aj.chunks
      merged == [i \in Idx |-> IF At(fs.bak, i) # Absent THEN fs.bak[i] ELSE At(d, i)]
  IN  CASE meta = NoTable -> Gone
        [] meta # NoTable /\ meta.mode = "single" -> fs.single
        [] meta # NoTable /\ meta.mode = "chunked" ->
             CASE fs.oj = NoJournal -> Intact(d, chunks)
               [] fs.oj \in OldJournal ->
                    IF Intact(d, chunks) = fs.oj.target THEN fs.oj.target ELSE fs.oj.prev
               [] OTHER -> CASE fs.ready = fs.oj.id -> Intact(fs.bak, fs.oj.chunks)
                             [] fs.ready = 0 /\ Files(fs.bak) \subseteq 0..(fs.oj.chunks - 1)
                                /\ ~\E i \in Idx : Conflict(i) -> Intact(merged, fs.oj.chunks)
                             [] OTHER -> Intact(d, fs.oj.chunks)

-----------------------------------------------------------------------------
(* The operations                                                          *)

Start(label, frames, kind, data) ==
  /\ pc = "idle" /\ pc' = label
  /\ op' = [NoOp EXCEPT !.kind = kind, !.data = data, !.batch = data, !.ret = frames, !.from = View,
                        !.prev = cache, !.todo = CASE kind = "drop" -> PurgeChunked
                                     [] kind = "create" -> PurgeAll [] OTHER -> <<>>]
  /\ UNCHANGED <<disk, record, crashes>>

(* Mutant of Recoveries: an interrupted overwrite is left as it is.        *)
Recoveries_AppendOnly(body) == <<Frame(body, "failed")>>

Recoveries(body) == <<Frame("recO", "failed"), Frame(body, "failed")>>

(* readAll, readRange, preloadChunks.                                      *)
BeginRead == cache # NoTable /\ Start("recA", Recoveries("readBody"), "read", <<>>) /\ UNCHANGED writes

Mutates == writes < MaxWrites /\ writes' = writes + 1

(* DataWriter takes the table's mode from the metadata.                    *)
BeginAppend ==
  /\ IsChunked /\ Mutates /\ View \in Content
  /\ \E b \in Batches :
       /\ Len(View) + Len(b) <= MaxChunks
       /\ Start("recA", Append(Recoveries("app"), Frame("okDone", "failed")), "append", b)

BeginOverwrite ==
  /\ IsChunked /\ Mutates
  /\ \E c \in Overwrites : Start("recA", Recoveries("wStart"), "overwrite", c)

BeginMigrate ==
  /\ cache # NoTable /\ cache.mode = "single" /\ Mutates
  /\ Start("mDelA", <<>>, "migrate", fs.single)

BeginCreate ==
  /\ cache = NoTable /\ Mutates
  /\ \E c \in CreateData : Start("purge", <<>>, "create", c)

BeginDrop == cache # NoTable /\ Mutates /\ Start("dMeta", <<>>, "drop", <<>>)

ReadBody ==
  /\ pc = "readBody"
  /\ IF cache.mode = "single" THEN pc' = "readDone" /\ op' = [op EXCEPT !.val = fs.single]
     ELSE IF Complete(fs.dir, cache.chunks)
     THEN pc' = "readDone" /\ op' = [op EXCEPT !.val = Listing(fs.dir)]
     ELSE To("failed")
  /\ UNCHANGED <<disk, record>>

(* The operation reports its outcome; "acked" is the success report.       *)
Report ==
  /\ \/ pc = "okDone" /\ pc' = "acked" /\ UNCHANGED op
     \/ pc \in {"readDone", "acked", "failed"} /\ pc' = "idle" /\ op' = NoOp
  /\ UNCHANGED <<disk, record>>

-----------------------------------------------------------------------------
(* The environment                                                         *)

(* The timer of the manager persists the pending mutations.                *)
Flush ==
  /\ dirty /\ meta' = cache /\ dirty' = FALSE
  /\ UNCHANGED <<fs, cache, pc, op, bounds, faults>>

(* What a kill inside a call that touches several files may leave.         *)
HalfDone ==
  CASE pc \in {"rrReset", "clrDel", "mReset", "mCatch"} -> DirLeft
    [] pc \in {"roDelBak", "wDelBak", "mDelB"} -> BakLeft
    [] pc = "raDel" -> ChunksLeft(Targets(fs.aj))
    [] pc \in {"appUndo", "appUndoM"} -> ChunksLeft(AppendTargets)
    [] pc = "appWrite" -> ChunksWritten(KnownChunks(op.prev))
    [] pc = "mWrite" -> ChunksWritten(0)
    [] pc = "purge" -> PurgeLeft(Head(op.todo))
    [] OTHER -> {}

Crash ==
  /\ crashes < MaxCrashes /\ crashes' = crashes + 1
  /\ fs' \in {fs} \cup HalfDone
  /\ pc' = "idle" /\ op' = NoOp
  /\ cache' = meta /\ dirty' = FALSE
  /\ UNCHANGED <<meta, writes, faults>>

-----------------------------------------------------------------------------
(* Specification                                                           *)

TypeOK ==
  /\ fs \in [dir: Dir \cup {NoDir}, bak: Dir \cup {NoDir}, ready: Nat,
             aj: AppendJournal \cup {NoJournal},
             oj: OverwriteJournal \cup OldJournal \cup {NoJournal},
             single: Content \cup {Absent}]
  /\ (fs.ready # 0 => fs.bak # NoDir)
  /\ meta \in Meta \cup {NoTable} /\ cache \in Meta \cup {NoTable} /\ dirty \in BOOLEAN
  /\ op.data \in Content /\ op.from \in Content \cup {Gone}
  /\ op.prev \in Meta \cup {NoTable}
  /\ writes \in 0..MaxWrites /\ faults \in 0..MaxFaults /\ crashes \in 0..MaxCrashes

Files0(d, single) ==
  [dir |-> d, bak |-> NoDir, ready |-> 0, aj |-> NoJournal, oj |-> NoJournal, single |-> single]
DirOf(c) == With(EmptyDir, 0, c)

(* No table; a single-file table that may be migrated; a chunked table; or *)
(* one whose overwrite an older version left behind with its journal.      *)
Init ==
  /\ \/ cache = NoTable /\ fs = Files0(NoDir, Absent)
     \/ \E c \in Overwrites : /\ cache = [mode |-> "single", count |-> Records(c), chunks |-> 0]
                              /\ fs = Files0(NoDir, c)
     \/ \E c \in Overwrites : /\ cache = Chunked(Records(c), Len(c))
                              /\ fs = Files0(IF c = <<>> THEN NoDir ELSE DirOf(c), Absent)
     \/ \E j \in OldJournals : \E c \in {j.prev, <<>>, j.target} :
          /\ cache = Chunked(Records(c), Len(c))
          /\ fs = [Files0(DirOf(c), Absent) EXCEPT !.oj = j]
  /\ meta = cache /\ dirty = FALSE
  /\ pc = "idle" /\ op = NoOp /\ writes = 0 /\ faults = 0 /\ crashes = 0

Begin == BeginRead \/ BeginAppend \/ BeginOverwrite \/ BeginMigrate \/ BeginCreate \/ BeginDrop

Step ==
  /\ \/ RecoverAppend \/ RecoverOverwrite \/ Throw \/ Clear
     \/ AppendFiles \/ AppendMeta \/ OverwriteFiles \/ OverwriteMeta
     \/ MigrateFiles \/ MigrateMeta \/ Purge \/ Purge2 \/ TableMeta \/ ReadBody \/ Report
  /\ UNCHANGED bounds

Next == Begin \/ Step \/ Flush \/ Crash

(* Every filesystem promise settles, or its deadline does.                 *)
Spec == Init /\ [][Next]_vars /\ WF_vars(Step)

-----------------------------------------------------------------------------
(* Properties                                                              *)

(* One table is an atomic value: no fault, kill, rollback of a journal,    *)
(* flush of pending metadata or cleanup of a backup changes what it stands *)
(* for, a success report means the new generation is in place, and every   *)
(* operation ends (ChunkedFileHandler with DataWriter).                    *)
Target ==
  CASE op.kind = "read" -> op.from
    [] op.kind = "append" -> op.from \o op.data
    [] op.kind = "drop" -> Gone
    [] OTHER -> op.data

Atomic == INSTANCE AtomicTable WITH
  Values <- Content \cup {Gone},
  table <- View,
  call <- [status |-> CASE pc = "idle" -> "idle" [] pc = "acked" -> "ok" [] OTHER -> "running",
           from |-> IF pc = "idle" THEN View ELSE op.from,
           to |-> IF pc = "idle" THEN View ELSE Target]

ImplementsAtomicTable == Atomic!Spec

(* A read that succeeds returns the generation of the durable state, never *)
(* a part of it or a mixture of two (readAllUnlocked).                     *)
ReadReturnsView == pc = "readDone" /\ ~dirty => op.val = View

(* Outside of a pending journal the durable record counts the records and  *)
(* the chunks that are there, so that the next access is not refused       *)
(* (validateChunkDirectory); a refused table can only be cleared.          *)
CountAgrees ==
  meta # NoTable /\ meta.mode = "chunked" /\ fs.aj = NoJournal /\ fs.oj = NoJournal
    => Complete(fs.dir, meta.chunks) /\ meta.count = Records(Listing(fs.dir))

(* What README.en.md promises of a backup whose cleanup failed: a later    *)
(* access gets past it.  False: the recovery of a later overwrite finds    *)
(* the marker of the old one.                                              *)
NeverStuck == fs.oj \in OverwriteJournal => fs.ready \in {0, fs.oj.id}

(* The state is well formed, and the record agrees with the chunks.      *)
Consistent == TypeOK /\ CountAgrees
=============================================================================
