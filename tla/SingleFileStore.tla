--------------------------- MODULE SingleFileStore ---------------------------
(***************************************************************************)
(* The recoverable publication of one single-file table: the handler       *)
(* (core/file/SingleFileHandler.ts) that replaces the data file behind a   *)
(* commit marker and a backup, and the writer (core/data/DataWriter.ts)    *)
(* that ties each new file generation to the table's metadata record.      *)
(*                                                                         *)
(* Every filesystem call is a step of its own: it may succeed, fail        *)
(* without effect, take effect after its deadline (withMutationTimeout     *)
(* then throws), or leave a torn file; and the process may be killed       *)
(* between any two steps, or in the middle of a write.  The table lock and *)
(* the path lock (FifoLock, WriterLock) let one operation at a time       *)
(* touch the table, so one program counter is enough.                      *)
(*                                                                         *)
(* Data abstraction: a generation is a member of Content, its SHA-256 hash *)
(* is its identity and CountOf gives its number of records.  A commit      *)
(* token is a fresh natural number, 0 standing for "no token".             *)
(***************************************************************************)
EXTENDS Naturals, Sequences, FiniteSets

CONSTANTS
  Content,       \* the record lists a table may hold
  CountOf,       \* number of records of a generation: [Content -> Nat]
  Empty,         \* the empty record list
  Absent,        \* value of a path at which there is no file
  Torn,          \* value of a file whose content cannot be parsed or verified
  NoTable,       \* metadata of a table that does not exist
  Scopes         \* how behaviours start, and their bounds

(* legacy: the initial table may predate commit tokens.  Bounds: the last  *)
(* token of a write, failing filesystem calls, process kills, and deletes  *)
(* that were abandoned and are still outstanding.                          *)
Scope == [legacy: BOOLEAN, token: Nat, faults: Nat, crashes: Nat, abandoned: Nat]

Meta == [token: Nat, count: Nat]
Marker == [phase: {"prepared", "committed"}, prevToken: Nat, token: Nat,
           prev: Content \cup {Absent}, target: Content]

(* Values of different kinds differ.                                       *)
ASSUME StoreAssumption ==
  /\ Empty \in Content
  /\ CountOf \in [Content -> Nat]
  /\ CountOf[Empty] = 0
  /\ Absent # Torn /\ {Absent, Torn} \cap (Content \cup Marker) = {}
  /\ NoTable \notin Meta \cup {Absent}
  /\ Scopes \subseteq Scope

VARIABLES
  scope,      \* the scope of this behaviour
  disk,       \* the six files of the table
  meta,       \* the table's record in the durable metadata snapshot
  cache,      \* the manager's record: durable one plus the pending mutations
  dirty,      \* the manager has mutations it has not persisted
  abandoned,  \* files whose delete timed out but may still be executed
  pc, op,     \* next step of the running operation, and its local variables
  nextToken, faults, crashes,
  acked       \* history: the contents a client may now legitimately observe

vars == <<scope, disk, meta, cache, dirty, abandoned, pc, op,
          nextToken, faults, crashes, acked>>

DataFiles == {"primary", "tmp", "bak", "bakTmp"}
MarkFiles == {"marker", "markerTmp"}
Files == DataFiles \cup MarkFiles

Gone == NoTable   \* what a client observes of a table that does not exist

-----------------------------------------------------------------------------
(* Filesystem calls                                                        *)

Del(f) == [disk EXCEPT ![f] = Absent]
Put(f, v) == [disk EXCEPT ![f] = v]
Move(f, g) == [disk EXCEPT ![g] = disk[f], ![f] = Absent]

Fault == faults < scope.faults /\ faults' = faults + 1

(* One filesystem call that turns disk into d.  partial is the set of      *)
(* other contents it may leave behind when it fails.                       *)
Call(d, partial, next, onError) ==
  \/ disk' = d /\ pc' = next /\ UNCHANGED faults
  \/ Fault /\ disk' \in {disk, d} \cup partial /\ pc' = onError

Write(f, v, next, onError) == Call(Put(f, v), {Put(f, Torn)}, next, onError)
Delete(f, next, onError) == Call(Del(f), {}, next, onError)
Rename(f, g, next, onError) == Call(Move(f, g), {}, next, onError)

(* The file the step at p is writing: a kill at p may leave it torn.       *)
Writing == [wTmp |-> "tmp", wBakTmp |-> "bakTmp", wMarkTmp |-> "markerTmp",
            cMarkTmp |-> "markerTmp", restore |-> "primary",
            restoreBak |-> "primary"]

-----------------------------------------------------------------------------
(* Metadata                                                                *)

(* MetadataManager.update of an existing record: fields that the update    *)
(* does not carry, here a missing token, keep their value.                 *)
Merge(m, token, count) ==
  [token |-> IF token = 0 THEN m.token ELSE token, count |-> count]

(* Mutant of Restored: the count is not rolled back.                       *)
Restored_KeepingCount(snapshot) ==
  IF snapshot = NoTable \/ cache = NoTable THEN snapshot
  ELSE Merge(cache, snapshot.token, cache.count)

(* DataWriter.restoreTableMetadata.                                        *)
Restored(snapshot) ==
  IF snapshot = NoTable \/ cache = NoTable THEN snapshot
  ELSE Merge(cache, snapshot.token, snapshot.count)

TokenOf(m) == IF m = NoTable THEN 0 ELSE m.token

(* saveImmediately: a failed publication may already be the durable one    *)
(* (only the removal of the stale backup failed), and leaves the mutations *)
(* pending either way.                                                     *)
Save(rec, next, onError) ==
  \/ meta' = rec /\ dirty' = FALSE /\ pc' = next /\ UNCHANGED faults
  \/ Fault /\ meta' \in {meta, rec} /\ dirty' = TRUE /\ pc' = onError

-----------------------------------------------------------------------------
(* Commit evidence and recovery decisions                                  *)

(* readCommitMarker: the canonical marker hides the temporary one.         *)
Evidence ==
  IF disk["marker"] # Absent THEN "marker"
  ELSE IF disk["markerTmp"] # Absent THEN "markerTmp" ELSE "none"

Exists(f) == disk[f] # Absent
Valid(f) == disk[f] \in Content

(* The content that the durable state stands for: what the recovery of a   *)
(* restarted process makes of it or, when it fails closed, what is there   *)
(* for a manual restoration.                                               *)
View ==
  LET m == disk["marker"]
      Uncommitted == Evidence = "marker" /\ m # Torn /\ TokenOf(meta) = m.prevToken
  IN  CASE meta = NoTable -> Gone
        [] meta # NoTable /\ Uncommitted /\ m.prev = Absent -> Empty
        [] meta # NoTable /\ Uncommitted /\ m.prev # Absent /\ m.prev = disk["bak"] -> disk["bak"]
        [] OTHER -> IF Valid("primary") THEN disk["primary"]
                    ELSE IF Valid("bak") THEN disk["bak"] ELSE Empty

NoOp == [kind |-> "none", target |-> Absent, token |-> 0, before |-> NoTable,
         prevToken |-> 0, prevCount |-> 0, prev |-> Absent, todo |-> <<>>,
         k |-> "idle", retries |-> 0, failed |-> FALSE, val |-> Absent,
         acked |-> {}, from |-> Gone]

CommittedArtifacts == <<"bak", "bakTmp", "tmp", "markerTmp", "marker">>
RolledBackArtifacts == <<"marker", "markerTmp", "bak", "bakTmp", "tmp">>
PurgeBeforeCreate == <<"tmp", "bak", "bakTmp", "marker", "markerTmp", "primary">>
PurgeAfterDrop == <<"bakTmp", "bak", "markerTmp", "marker", "tmp", "primary">>

(* cleanupRecoveryArtifacts: its errors are logged, never thrown.          *)
StartClean(artifacts, k) ==
  /\ pc' = "clean"
  /\ op' = [op EXCEPT !.todo = artifacts, !.k = k]

FailClosed == pc' = "closed" /\ UNCHANGED op

Return(visible) == pc' = "idle" /\ op' = NoOp /\ acked' = visible

(* rollbackMarkerGeneration, up to its first filesystem mutation.          *)
Rollback(m, count, k) ==
  IF m.prev # Absent
  THEN IF disk["bak"] = m.prev
       THEN pc' = "restore" /\ op' = [op EXCEPT !.k = k, !.todo = RolledBackArtifacts]
       ELSE FailClosed
  ELSE IF count # 0 THEN FailClosed
       ELSE /\ pc' = "undoPublish"
            /\ op' = [op EXCEPT !.k = k, !.todo = RolledBackArtifacts]

(* Mutant of Recover: files are used as they are found.                    *)
Recover_Skipped ==
  /\ pc = "recover"
  /\ pc' = op.k
  /\ UNCHANGED <<disk, meta, cache, dirty, abandoned, op, nextToken, faults, scope, crashes, acked>>

(* recoverInterruptedCommit, with metadata resolved from the durable file. *)
Recover ==
  /\ pc = "recover"
  /\ LET m == disk[Evidence]
         IsTarget == meta # NoTable /\ meta.token = m.token
                     /\ disk["primary"] = m.target
     IN  CASE Evidence = "none" -> pc' = op.k /\ UNCHANGED op
           [] Evidence # "none" /\ m = Torn -> FailClosed
           [] Evidence = "markerTmp" /\ m # Torn ->
                IF m.phase = "committed" /\ IsTarget
                THEN StartClean(CommittedArtifacts, op.k) ELSE FailClosed
           [] OTHER ->
                IF TokenOf(meta) = m.token
                THEN IF IsTarget THEN StartClean(CommittedArtifacts, op.k)
                     ELSE FailClosed
                ELSE IF TokenOf(meta) = m.prevToken
                     THEN Rollback(m, IF meta = NoTable THEN 0 ELSE meta.count, op.k)
                     ELSE FailClosed
  /\ UNCHANGED <<disk, meta, cache, dirty, abandoned, nextToken, faults, scope, crashes, acked>>

(* A filesystem read fails: the operation reports an I/O error.            *)
ReadError ==
  /\ pc \in {"recover", "readBody", "writeBody", "rollbackAttempt", "startCommit",
             "rollbackPending"}
  /\ Fault
  /\ Return(acked)
  /\ UNCHANGED <<disk, meta, cache, dirty, abandoned, nextToken, scope, crashes>>

(* The recovery decided that no generation can be trusted (CORRUPTED_DATA). *)
Closed ==
  /\ pc = "closed"
  /\ Return(acked)
  /\ UNCHANGED <<disk, meta, cache, dirty, abandoned, nextToken, faults, scope, crashes>>

Clean ==
  /\ pc = "clean"
  /\ LET d == Del(Head(op.todo)) IN
     \/ /\ disk' = d
        /\ op' = [op EXCEPT !.todo = Tail(@)]
        /\ pc' = IF Tail(op.todo) = <<>> THEN op.k ELSE "clean"
        /\ UNCHANGED faults
     \/ /\ Fault
        /\ disk' \in {disk, d}
        /\ op' = [op EXCEPT !.todo = <<>>]
        /\ pc' = op.k
  /\ UNCHANGED <<meta, cache, dirty, abandoned, nextToken, scope, crashes, acked>>

(* restoreBackup(true), inside a rollback: the backup is kept.  A failure  *)
(* surfaces as an error of the operation.                                  *)
Restore ==
  /\ pc = "restore"
  /\ Write("primary", disk["bak"], "clean", "failed")
  /\ UNCHANGED <<op, meta, cache, dirty, abandoned, nextToken, scope, crashes, acked>>

(* A rollback to "no previous file" removes the published generation.      *)
UndoPublish ==
  /\ pc = "undoPublish"
  /\ Delete("primary", IF op.todo = <<>> THEN op.k ELSE "clean", "failed")
  /\ UNCHANGED <<op, meta, cache, dirty, abandoned, nextToken, scope, crashes, acked>>

(* The operation reports an error and nothing says whether its target is   *)
(* the durable generation: both stay legitimate.                           *)
Failed ==
  /\ pc = "failed"
  /\ Return(acked)
  /\ UNCHANGED <<disk, meta, cache, dirty, abandoned, nextToken, faults, scope, crashes>>

(* The operation reports an error after a complete rollback: the table     *)
(* must read as before the operation.                                      *)
Undone ==
  /\ pc = "undone"
  /\ Return(op.acked)
  /\ UNCHANGED <<disk, meta, cache, dirty, abandoned, nextToken, faults, scope, crashes>>

-----------------------------------------------------------------------------
(* SingleFileHandler.read                                                  *)

ReadBody ==
  /\ pc = "readBody"
  /\ LET preserve == Evidence # "none"
         value(v, next) == pc' = next /\ op' = [op EXCEPT !.val = v]
     IN  CASE Valid("primary") ->
                value(disk["primary"], IF preserve THEN "readDone" ELSE "discard")
           [] ~Valid("primary") /\ (preserve \/ disk["bak"] = Torn) -> FailClosed
           [] ~Valid("primary") /\ ~preserve /\ Valid("bak") ->
                pc' = "restoreBak"
                /\ op' = [op EXCEPT !.val = disk["bak"], !.k = "readDone"]
           [] OTHER ->
                IF disk["primary"] = Torn \/ (meta # NoTable /\ meta.count > 0)
                THEN FailClosed ELSE value(Empty, "readDone")
  /\ UNCHANGED <<disk, meta, cache, dirty, abandoned, nextToken, faults, scope, crashes, acked>>

(* restoreBackup(false): rewrite the primary, then drop the backup.        *)
RestoreBak ==
  /\ pc = "restoreBak"
  /\ Write("primary", disk["bak"], "dropBak", "failed")
  /\ UNCHANGED <<op, meta, cache, dirty, abandoned, nextToken, scope, crashes, acked>>

(* Removal of a backup that is no longer needed; its errors are logged.    *)
DropBak ==
  /\ pc \in {"dropBak", "discard"}
  /\ LET next == IF pc = "discard" THEN "readDone" ELSE op.k IN
     Delete("bak", next, next)
  /\ UNCHANGED <<op, meta, cache, dirty, abandoned, nextToken, scope, crashes, acked>>

(* The records are there: a read returns them (and the client has seen     *)
(* them), a read-modify-write (append, delete) goes on to publish its      *)
(* result, a count validation compares them with the recorded count.       *)
ReadDone ==
  /\ pc = "readDone"
  /\ \/ /\ op.kind = "read" \/ (op.kind = "count" /\ cache.count = CountOf[op.val])
        /\ Return(IF op.kind = "read" THEN {op.val} ELSE acked)
        /\ UNCHANGED nextToken
     \/ /\ op.kind = "count" /\ cache.count # CountOf[op.val]
        /\ pc' = "fixCount"
        /\ UNCHANGED <<op, acked, nextToken>>
     \/ /\ op.kind = "modify"
        /\ \E c \in Content :
             op' = [op EXCEPT !.kind = "write", !.target = c, !.token = nextToken,
                              !.val = Absent, !.k = "writeBody"]
        /\ nextToken' = nextToken + 1
        /\ pc' = "recover"
        /\ UNCHANGED acked
  /\ UNCHANGED <<disk, meta, cache, dirty, abandoned, faults, scope, crashes>>

(* validateCountAsync, verifyCount: the count is corrected, not the token. *)
FixCount ==
  /\ pc = "fixCount"
  /\ cache' = Merge(cache, 0, CountOf[op.val])
  /\ Save(cache', "idle", "idle")
  /\ op' = NoOp
  /\ UNCHANGED <<disk, abandoned, nextToken, scope, crashes, acked>>

-----------------------------------------------------------------------------
(* SingleFileHandler.performRecoverableWrite                               *)

(* Resolve the durable metadata and make sure that the primary is sound,   *)
(* restoring it from a backup if there is one.                             *)
WriteBody ==
  /\ pc = "writeBody"
  /\ LET local == [op EXCEPT !.prevToken = TokenOf(meta),
                             !.prevCount = IF meta = NoTable THEN 0 ELSE meta.count,
                             !.acked = acked, !.retries = 3, !.k = "wTmp"]
     IN  IF Valid("primary") \/ ~(Exists("primary") \/ Exists("bak"))
         THEN /\ pc' = "wTmp" /\ op' = local
              /\ acked' = acked \cup {op.target}
         ELSE IF Valid("bak")
         THEN /\ pc' = "restoreBak" /\ op' = local
              /\ acked' = acked \cup {op.target}
         ELSE FailClosed /\ UNCHANGED acked
  /\ UNCHANGED <<disk, meta, cache, dirty, abandoned, nextToken, faults, scope, crashes>>

NewMarker == [phase |-> "prepared", prevToken |-> op.prevToken, token |-> op.token,
              prev |-> op.prev, target |-> op.target]

(* One attempt: stage the new generation, copy the current one to the      *)
(* backup, publish a prepared marker, then replace the primary.            *)
StageTarget ==
  /\ pc = "wTmp"
  /\ Write("tmp", op.target, IF Exists("primary") THEN "wBakTmp" ELSE "wMarkTmp", "wFail")
  /\ op' = [op EXCEPT !.prev = disk["primary"]]

PublishStep ==
  /\ \/ pc = "wBakTmp" /\ Write("bakTmp", disk["primary"], "wDelBak", "wFail")
     \/ pc = "wDelBak" /\ Delete("bak", "wMvBak", "wFail")
     \/ pc = "wMvBak" /\ Rename("bakTmp", "bak", "wMarkTmp", "wFail")
     \/ pc = "wMarkTmp" /\ Write("markerTmp", NewMarker, "wDelMark", "wFailMarked")
     \/ pc = "wDelMark" /\ Delete("marker", "wMvMark", "wFailMarked")
     \/ pc = "wMvMark" /\ Rename("markerTmp", "marker",
          IF op.prev # Absent THEN "wDelPrimary" ELSE "wMvPrimary", "wFailMarked")
     \/ pc = "wDelPrimary" /\ Delete("primary", "wMvPrimary", "wFailMarked")
     \/ pc = "wMvPrimary" /\ Rename("tmp", "primary", "saveMeta", "wFailMarked")
  /\ UNCHANGED op

Attempt ==
  /\ StageTarget \/ PublishStep
  /\ UNCHANGED <<meta, cache, dirty, abandoned, nextToken, scope, crashes, acked>>

(* The attempt failed: drop the staging files (errors are ignored), then   *)
(* roll the published marker back.                                         *)
AttemptFailed ==
  /\ pc \in {"wFail", "wFailMarked"}
  /\ LET both == [Del("tmp") EXCEPT !["bakTmp"] = Absent]
         next == IF pc = "wFail" THEN "retry" ELSE "rollbackAttempt"
     IN  Call(both, {Del("tmp"), Del("bakTmp")}, next, next)
  /\ UNCHANGED <<op, meta, cache, dirty, abandoned, nextToken, scope, crashes, acked>>

RollbackAttempt ==
  /\ pc = "rollbackAttempt"
  /\ Rollback(NewMarker, op.prevCount, "retry")
  /\ UNCHANGED <<disk, meta, cache, dirty, abandoned, nextToken, faults, scope, crashes, acked>>

(* A "locked" or "busy" error is retried, at most three attempts in all;   *)
(* any other error is final.                                               *)
Retry ==
  /\ pc = "retry"
  /\ op' = [op EXCEPT !.retries = @ - 1]
  /\ \/ op.retries > 1 /\ pc' = "wTmp"
     \/ pc' = "undone"
  /\ UNCHANGED <<disk, meta, cache, dirty, abandoned, nextToken, faults, scope, crashes, acked>>

-----------------------------------------------------------------------------
(* DataWriter: the metadata of the published generation, commit, rollback  *)

(* Mutant of SaveMeta: a failed save is not noticed.                       *)
SaveMeta_Unnoticed ==
  /\ pc = "saveMeta"
  /\ cache' = IF cache = NoTable
              THEN [token |-> op.token, count |-> CountOf[op.target]]
              ELSE Merge(cache, op.token, CountOf[op.target])
  /\ Save(cache', "startCommit", "startCommit")
  /\ UNCHANGED <<disk, abandoned, op, nextToken, scope, crashes, acked>>

(* metadataManager.update and saveImmediately with the new token and count. *)
SaveMeta ==
  /\ pc = "saveMeta"
  /\ \/ /\ cache' = IF cache = NoTable
                    THEN [token |-> op.token, count |-> CountOf[op.target]]
                    ELSE Merge(cache, op.token, CountOf[op.target])
        /\ Save(cache', "startCommit", "undoMeta")
     \/ /\ op.before = NoTable   \* createTable: the column schema is invalid
        /\ pc' = "undoMeta"
        /\ UNCHANGED <<meta, cache, dirty, faults>>
  /\ UNCHANGED <<disk, abandoned, op, nextToken, scope, crashes, acked>>

(* rollbackSingleFileMutation: the metadata first; if that cannot be saved *)
(* the published file is left to the marker recovery.                      *)
UndoMeta ==
  /\ pc = "undoMeta"
  /\ cache' = Restored(op.before)
  /\ Save(cache', "rollbackPending", "failed")
  /\ UNCHANGED <<disk, abandoned, op, nextToken, scope, crashes, acked>>

(* rollbackPendingWrite.  Without a marker the backup, if the write had a  *)
(* previous file, is the only evidence left.                               *)
RollbackPending ==
  /\ pc = "rollbackPending"
  /\ CASE Evidence = "marker" /\ disk["marker"] # Torn -> Rollback(disk["marker"], 0, "undone")
       [] Evidence = "none" /\ op.prev = Absent ->
            pc' = "undoPublish" /\ op' = [op EXCEPT !.k = "undone", !.todo = <<>>]
       [] Evidence = "none" /\ op.prev # Absent /\ Valid("bak") ->
            pc' = "restoreBak" /\ op' = [op EXCEPT !.k = "undone"]
       [] OTHER -> FailClosed
  /\ UNCHANGED <<disk, meta, cache, dirty, abandoned, nextToken, faults, scope, crashes, acked>>

(* commitPendingWrite: replace the prepared marker by a committed one.     *)
StartCommit ==
  /\ pc = "startCommit"
  /\ CASE Evidence = "marker" /\ disk["marker"] # Torn ->
            pc' = "cMarkTmp" /\ op' = [op EXCEPT !.todo = CommittedArtifacts, !.k = "okDone"]
       [] Evidence = "none" -> pc' = "dropBak" /\ op' = [op EXCEPT !.k = "okDone"]
       [] OTHER -> FailClosed
  /\ UNCHANGED <<disk, meta, cache, dirty, abandoned, nextToken, faults, scope, crashes, acked>>

CommitStep ==
  /\ \/ /\ pc = "cMarkTmp"
        /\ Write("markerTmp", [NewMarker EXCEPT !.phase = "committed"], "cDelMark", "cFail")
     \/ pc = "cDelMark" /\ Delete("marker", "cMvMark", "cFail")
     \/ pc = "cMvMark" /\ Rename("markerTmp", "marker", "clean", "cFail")
  /\ UNCHANGED <<op, meta, cache, dirty, abandoned, nextToken, scope, crashes, acked>>

(* The committed marker could not be published: the durable token decides  *)
(* whether the operation has succeeded all the same.                       *)
CommitFailed ==
  /\ pc = "cFail"
  /\ \/ /\ IF TokenOf(meta) = op.token THEN pc' = "okDone" /\ UNCHANGED op
           ELSE Rollback(NewMarker, 0, "undone")
        /\ UNCHANGED faults
     \/ Fault /\ pc' = "failed" /\ UNCHANGED op
  /\ UNCHANGED <<disk, meta, cache, dirty, abandoned, nextToken, scope, crashes, acked>>

OkDone ==
  /\ pc = "okDone"
  /\ Return({op.target})
  /\ UNCHANGED <<disk, meta, cache, dirty, abandoned, nextToken, faults, scope, crashes>>

-----------------------------------------------------------------------------
(* The operations of a table                                               *)

Start(record, next) ==
  /\ pc = "idle"
  /\ pc' = next
  /\ op' = [record EXCEPT !.before = cache, !.acked = acked, !.from = View]

(* A read, or a count validation (validateCountAsync, verifyCount).        *)
BeginRead ==
  /\ cache # NoTable
  /\ \E kind \in {"read", "count"} :
       Start([NoOp EXCEPT !.kind = kind, !.k = "readBody"], "recover")
  /\ UNCHANGED <<disk, meta, cache, dirty, abandoned, nextToken, faults, scope, crashes, acked>>

(* write in append mode and delete(where): read, then publish.             *)
BeginModify ==
  /\ cache # NoTable /\ nextToken <= scope.token
  /\ Start([NoOp EXCEPT !.kind = "modify", !.k = "readBody"], "recover")
  /\ UNCHANGED <<disk, meta, cache, dirty, abandoned, nextToken, faults, scope, crashes, acked>>

NewWrite(c, k) == [NoOp EXCEPT !.kind = "write", !.target = c, !.token = nextToken, !.k = k]

(* write in overwrite mode.                                                *)
BeginOverwrite ==
  /\ cache # NoTable /\ nextToken <= scope.token
  /\ \E c \in Content : Start(NewWrite(c, "writeBody"), "recover")
  /\ nextToken' = nextToken + 1
  /\ UNCHANGED <<disk, meta, cache, dirty, abandoned, faults, scope, crashes, acked>>

(* createTable: remove what an earlier table of this name left behind,     *)
(* then publish the initial data.                                          *)
BeginCreate ==
  /\ cache = NoTable /\ nextToken <= scope.token
  /\ \E c \in Content :
       Start([NewWrite(c, "writeBody") EXCEPT !.todo = PurgeBeforeCreate], "purge")
  /\ nextToken' = nextToken + 1
  /\ UNCHANGED <<disk, meta, cache, dirty, abandoned, faults, scope, crashes, acked>>

(* deleteTable, also of a table that is already absent: the metadata goes  *)
(* first, the files after it.                                              *)
BeginDrop ==
  /\ Start([NoOp EXCEPT !.kind = "drop", !.target = Gone,
                        !.todo = IF cache = NoTable THEN PurgeBeforeCreate
                                 ELSE PurgeAfterDrop], "dropMeta")
  /\ acked' = acked \cup {Gone}
  /\ UNCHANGED <<disk, meta, cache, dirty, abandoned, nextToken, faults, scope, crashes>>

DropMeta ==
  /\ pc = "dropMeta"
  /\ cache' = NoTable
  /\ Save(NoTable, "purge", "undropMeta")
  /\ UNCHANGED <<disk, abandoned, op, nextToken, scope, crashes, acked>>

(* Mutant of UndropMeta: a failed drop reports without restoring.          *)
UndropMeta_Skipped ==
  /\ pc = "undropMeta"
  /\ pc' = "undone"
  /\ UNCHANGED <<disk, meta, cache, dirty, abandoned, op, nextToken, faults, scope, crashes, acked>>

UndropMeta ==
  /\ pc = "undropMeta"
  /\ cache' = Restored(op.before)
  /\ Save(cache', "undone", "failed")
  /\ UNCHANGED <<disk, abandoned, op, nextToken, scope, crashes, acked>>

(* purgeTableArtifacts: every deletion is tried, a failed one makes the    *)
(* operation report an error.  A deletion that misses its deadline is      *)
(* abandoned by withTimeout: it may still be executed at any later time.   *)
Purge ==
  /\ pc = "purge"
  /\ LET f == Head(op.todo)
         rest == Tail(op.todo)
         failed == [op EXCEPT !.todo = rest, !.failed = TRUE]
     IN  /\ \/ /\ disk' = Del(f)
               /\ op' = [op EXCEPT !.todo = rest]
               /\ UNCHANGED <<faults, abandoned>>
            \/ /\ Fault
               /\ disk' \in {disk, Del(f)}
               /\ op' = failed
               /\ UNCHANGED abandoned
            \/ /\ Cardinality(abandoned) < scope.abandoned
               /\ abandoned' = abandoned \cup {f}
               /\ op' = failed
               /\ UNCHANGED <<disk, faults>>
         /\ pc' = IF rest = <<>> THEN "purged" ELSE "purge"
  /\ UNCHANGED <<meta, cache, dirty, nextToken, scope, crashes, acked>>

(* After a drop the table is logically absent, cleanup errors or not.      *)
Purged ==
  /\ pc = "purged"
  /\ pc' = IF op.kind = "drop" THEN "okDone" ELSE IF op.failed THEN "failed" ELSE "recover"
  /\ UNCHANGED <<disk, meta, cache, dirty, abandoned, op, nextToken, faults, scope, crashes, acked>>

-----------------------------------------------------------------------------
(* The environment                                                         *)

(* An abandoned deletion is executed after all.                            *)
AbandonedLands ==
  /\ \E f \in abandoned : disk' = Del(f) /\ abandoned' = abandoned \ {f}
  /\ UNCHANGED <<meta, cache, dirty, pc, op, nextToken, faults, scope, crashes, acked>>

(* The pending mutations are persisted by the timer of the manager or with *)
(* the metadata of another table.                                          *)
Flush ==
  /\ dirty
  /\ meta' = cache
  /\ dirty' = FALSE
  /\ UNCHANGED <<disk, cache, abandoned, pc, op, nextToken, faults, scope, crashes, acked>>

(* The process is killed, possibly in the middle of a file write, and      *)
(* restarts with what is durable.                                          *)
Crash ==
  /\ crashes < scope.crashes
  /\ crashes' = crashes + 1
  /\ disk' \in {disk} \cup IF pc \in DOMAIN Writing THEN {Put(Writing[pc], Torn)} ELSE {}
  /\ pc' = "idle" /\ op' = NoOp
  /\ cache' = meta /\ dirty' = FALSE /\ abandoned' = {}
  /\ UNCHANGED <<scope, meta, nextToken, faults, acked>>

-----------------------------------------------------------------------------
(* Specification                                                           *)

(* The local variables of an operation.                                    *)
Operation ==
  [kind: {"none", "read", "count", "modify", "write", "drop"},
   target: Content \cup {Absent, Gone}, token: Nat, before: Meta \cup {NoTable},
   prevToken: Nat, prevCount: Nat, prev: Content \cup {Absent}, todo: Seq(Files),
   k: {"idle", "readBody", "writeBody", "readDone", "wTmp", "retry", "undone", "okDone"},
   retries: 0..3, failed: BOOLEAN, val: Content \cup {Absent},
   acked: SUBSET (Content \cup {Gone}), from: Content \cup {Gone}]

TypeOK ==
  /\ scope \in Scope
  /\ disk \in [Files -> Content \cup {Absent, Torn} \cup Marker]
  /\ meta \in Meta \cup {NoTable} /\ cache \in Meta \cup {NoTable}
  /\ dirty \in BOOLEAN /\ abandoned \in SUBSET Files
  /\ pc \in {"idle", "recover", "readBody", "writeBody", "clean", "restore", "undoPublish",
             "failed", "undone", "closed", "restoreBak", "dropBak", "discard", "readDone",
             "fixCount", "wTmp", "wBakTmp", "wDelBak", "wMvBak", "wMarkTmp", "wDelMark",
             "wMvMark", "wDelPrimary", "wMvPrimary", "wFail", "wFailMarked",
             "rollbackAttempt", "retry", "saveMeta", "undoMeta", "rollbackPending",
             "startCommit", "cMarkTmp", "cDelMark", "cMvMark", "cFail", "okDone",
             "dropMeta", "undropMeta", "purge", "purged"}
  /\ op \in Operation
  /\ nextToken \in Nat /\ faults \in 0..scope.faults /\ crashes \in 0..scope.crashes
  /\ acked \subseteq Content \cup {Gone}

(* A table folder with this primary file and this backup.                  *)
Found(primary, bak) ==
  [f \in Files |-> CASE f = "primary" -> primary [] f = "bak" -> bak [] OTHER -> Absent]

(* A table of an older version has no token, and its last replacement may  *)
(* have been interrupted when only the backup was sound.                   *)
Init ==
  /\ scope \in Scopes
  /\ \/ /\ cache = NoTable
        /\ disk = [f \in Files |-> Absent]
        /\ acked = {Gone}
     \/ \E c \in Content :
          /\ cache = [token |-> IF scope.legacy THEN 0 ELSE 1, count |-> CountOf[c]]
          /\ disk \in {Found(c, Absent)}
               \cup IF scope.legacy THEN {Found(Absent, c), Found(Torn, c)} ELSE {}
          /\ acked = {c}
  /\ meta = cache /\ dirty = FALSE /\ abandoned = {}
  /\ pc = "idle" /\ op = NoOp
  /\ nextToken = 2 /\ faults = 0 /\ crashes = 0

Step ==
  \/ Recover \/ ReadError \/ Closed \/ Clean \/ Restore \/ UndoPublish \/ Failed \/ Undone
  \/ ReadBody \/ RestoreBak \/ DropBak \/ ReadDone \/ FixCount
  \/ WriteBody \/ Attempt \/ AttemptFailed \/ RollbackAttempt \/ Retry
  \/ SaveMeta \/ UndoMeta \/ RollbackPending \/ StartCommit \/ CommitStep \/ CommitFailed
  \/ OkDone \/ DropMeta \/ UndropMeta \/ Purge \/ Purged

Begin == BeginRead \/ BeginModify \/ BeginOverwrite \/ BeginCreate \/ BeginDrop

Next == Begin \/ Step \/ AbandonedLands \/ Flush \/ Crash

(* Every filesystem promise settles, or its deadline does (withTimeout).   *)
Spec == Init /\ [][Next]_vars /\ WF_vars(Step)

-----------------------------------------------------------------------------
(* Properties                                                              *)

(* A durable state always stands for a generation a client may observe: a  *)
(* write that was acknowledged survives every crash and failure, one that  *)
(* was rolled back never comes back, and once a client has read a          *)
(* generation no recovery replaces it.                                     *)
ViewAcked == View \in acked

(* A read returns the generation of the durable state, whatever artifacts  *)
(* earlier failures left behind (SingleFileHandler.read).                  *)
ReadReturnsView == pc = "readDone" /\ ~dirty => op.val = View

(* One table is an atomic value: no crash, recovery, flush of pending      *)
(* metadata or cleanup of artifacts ever changes what it stands for, and   *)
(* every operation comes to an end.  Not so for a table of an older        *)
(* version, whose record keeps the token of a write that was rolled back.  *)
Atomic == INSTANCE AtomicTable WITH
  Values <- Content \cup {Gone},
  table <- IF scope.legacy THEN Gone ELSE View,
  call <- LET idle == pc = "idle" \/ scope.legacy
              view == IF scope.legacy THEN Gone ELSE View
          IN [status |-> CASE idle -> "idle" [] ~idle /\ pc = "okDone" -> "ok" [] OTHER -> "running",
              from |-> IF idle THEN view ELSE op.from,
              to |-> IF idle THEN view ELSE IF op.target = Absent THEN op.from ELSE op.target]

ImplementsAtomicTable == Atomic!Spec

(* A successful recovery hands out as many records as the durable metadata *)
(* counts: data and count are published, and rolled back, together.        *)
(* False for a table whose record had no token before.                     *)
RecoveredCountAgrees == pc = "readDone" /\ meta # NoTable => meta.count = CountOf[op.val]

(* The recovery refuses to choose a generation only when it has no sound   *)
(* backup.  False after a kill during the publication of the marker.       *)
ClosedOnlyWithoutBackup == pc = "closed" => ~Valid("bak")

(* The durable record count describes the durable generation, at every     *)
(* point of a publication and of its rollback (DataWriter couples the two  *)
(* through the commit token), if the table has had one from the start.     *)
CountAgrees == ~scope.legacy /\ meta # NoTable /\ View \in Content => meta.count = CountOf[View]

(* The state is well formed, and the record describes the generation it  *)
(* is published with.                                                    *)
Consistent == TypeOK /\ CountAgrees
=============================================================================
