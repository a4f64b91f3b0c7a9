------------------------- MODULE SingleFileStoreProofs -------------------------
(***************************************************************************)
(* Proofs about SingleFileStore, for any contents, tokens and kills, and   *)
(* any number of failing calls: the state is well formed; and, as long as  *)
(* no mutation of the metadata outlives the operation that failed to save  *)
(* it (Calm), the files and the record of a table always stand for one     *)
(* generation that a client may observe, and a table is an atomic value.   *)
(* With at most one failing call no such mutation is ever left.            *)
(***************************************************************************)
EXTENDS SingleFileStore, FiniteSetTheorems, TLAPS

-----------------------------------------------------------------------------
(* The type invariant                                                      *)

(* A data file holds a generation, a marker file a marker.                 *)
DiskTyped(d) ==
  /\ d \in [Files -> Content \cup {Absent, Torn} \cup Marker]
  /\ \A f \in DataFiles : d[f] \in Content \cup {Absent, Torn}
  /\ \A f \in MarkFiles : d[f] \in Marker \cup {Absent, Torn}

Publishing == {"wTmp", "wBakTmp", "wDelBak", "wMvBak", "wMarkTmp", "wDelMark", "wMvMark",
               "wDelPrimary", "wMvPrimary", "wFail", "wFailMarked", "rollbackAttempt", "retry"}
Committing == {"saveMeta", "undoMeta", "rollbackPending", "startCommit", "cMarkTmp",
               "cDelMark", "cMvMark", "cFail"}
(* Recovery and restoration, after which the operation goes on at op.k.    *)
Detours == {"clean", "restore", "undoPublish", "restoreBak", "dropBak"}
ReadKinds == {"read", "count", "modify"}

(* What the operation at p is about, and where its detours lead to.        *)
Where(p, o) ==
  /\ o.kind = "write" => o.target \in Content
  /\ o.kind = "drop" => o.target = Gone
  /\ o.kind \notin {"write", "drop"} => o.target = Absent
  /\ p \in Publishing \cup Committing \cup {"writeBody"} => o.kind = "write"
  /\ p \in Detours \cup {"recover"} /\ o.k \in {"writeBody", "retry", "wTmp"} => o.kind = "write"
  /\ p \in {"okDone", "purge", "purged"} => o.kind \in {"write", "drop"}
  /\ p \in {"dropMeta", "undropMeta"} => o.kind = "drop"
  /\ p \in {"cMarkTmp", "cDelMark", "cMvMark"} => o.k = "okDone"
  /\ p \in Detours /\ o.k = "okDone" => o.kind \in {"write", "drop"}
  /\ p \in {"purge", "purged"} /\ o.kind = "write" => o.k = "writeBody"
  /\ p \in {"readBody", "readDone", "discard", "fixCount"} => o.kind \in ReadKinds
  /\ o.k \in {"readBody", "readDone"} => o.kind \in ReadKinds
  /\ p = "recover" => o.k \in {"readBody", "writeBody"}
  /\ p \in {"clean", "restore"} => o.k \in {"readBody", "writeBody", "retry", "undone", "okDone"}
  /\ p = "undoPublish" => o.k \in {"readBody", "writeBody", "retry", "undone"}
  /\ p \in {"restoreBak", "dropBak"} => o.k \in {"readDone", "wTmp", "undone", "okDone"}
  /\ p \in {"readDone", "discard", "fixCount"} => o.val \in Content
  /\ p \in {"restoreBak", "dropBak"} /\ o.k = "readDone" => o.val \in Content
  /\ p \in Publishing => o.retries \in 1..3
  /\ p \in Detours /\ o.k \in {"retry", "wTmp"} => o.retries \in 1..3
  /\ p \in {"clean", "purge", "restore", "cMarkTmp", "cDelMark", "cMvMark", "dropMeta"}
       => o.todo # <<>>

(* The files that a write reads are not torn.                              *)
Sound(p, o, d) ==
  /\ p \in {"wTmp", "wBakTmp", "wDelBak", "wMvBak", "wFail", "retry"}
       => d["primary"] \in Content \cup {Absent}
  /\ p \in {"clean", "dropBak"} /\ o.k \in {"retry", "wTmp"}
       => d["primary"] \in Content \cup {Absent}
  /\ p \in {"restore", "restoreBak"} => d["bak"] \in Content \cup {Absent}

Pcs == {"idle", "recover", "readBody", "failed", "undone", "closed", "discard", "readDone",
        "fixCount", "okDone", "dropMeta", "undropMeta", "purge", "purged", "writeBody"}
       \cup Publishing \cup Committing \cup Detours

VarsOK ==
  /\ scope \in Scope
  /\ meta \in Meta \cup {NoTable} /\ cache \in Meta \cup {NoTable}
  /\ dirty \in BOOLEAN /\ abandoned \in SUBSET Files
  /\ nextToken \in Nat /\ faults \in 0..scope.faults /\ crashes \in 0..scope.crashes
  /\ acked \subseteq Content \cup {Gone}
  /\ op.kind \in ReadKinds => cache # NoTable

TInv ==
  /\ VarsOK
  /\ DiskTyped(disk)
  /\ pc \in Pcs
  /\ op \in Operation
  /\ Where(pc, op)
  /\ Sound(pc, op, disk)

LEMMA TInvTypeOK == TInv => TypeOK
  BY DEF TInv, VarsOK, DiskTyped, TypeOK, Pcs, Publishing, Committing, Detours

LEMMA TypedPut ==
  ASSUME NEW d, DiskTyped(d), NEW f \in Files
  PROVE  /\ DiskTyped([d EXCEPT ![f] = Absent]) /\ DiskTyped([d EXCEPT ![f] = Torn])
         /\ f \in DataFiles => \A v \in Content \cup {Absent} : DiskTyped([d EXCEPT ![f] = v])
         /\ f \in MarkFiles => \A v \in Marker : DiskTyped([d EXCEPT ![f] = v])
  BY DEF DiskTyped, Files, DataFiles, MarkFiles

LEMMA TypedMove ==
  ASSUME NEW d, DiskTyped(d), NEW f \in Files, NEW g \in Files,
         f \in DataFiles <=> g \in DataFiles
  PROVE  DiskTyped([d EXCEPT ![g] = d[f], ![f] = Absent])
  BY DEF DiskTyped, Files, DataFiles, MarkFiles

LEMMA ViewTyped == DiskTyped(disk) => View \in Content \cup {Gone}
<1> SUFFICES ASSUME DiskTyped(disk) PROVE View \in Content \cup {Gone}
  OBVIOUS
<1> DEFINE m == disk["marker"]
           Uncommitted == Evidence = "marker" /\ m # Torn /\ TokenOf(meta) = m.prevToken
<1>1. Uncommitted => m \in Marker
  BY DEF DiskTyped, Evidence, MarkFiles, Files, DataFiles
<1>2. Uncommitted => m.prev \in Content \cup {Absent}
  BY <1>1 DEF Marker
<1>3. IF Valid("primary") THEN disk["primary"] \in Content
      ELSE Valid("bak") => disk["bak"] \in Content
  BY DEF Valid
<1>4. CASE meta = NoTable
  BY <1>4, Zenon DEF View
<1>5. CASE meta # NoTable /\ Uncommitted /\ m.prev = Absent
  BY <1>5, StoreAssumption DEF View
<1>6. CASE meta # NoTable /\ Uncommitted /\ m.prev # Absent /\ m.prev = disk["bak"]
  BY <1>6, <1>2 DEF View
<1>7. CASE meta # NoTable /\ ~(Uncommitted /\ (m.prev = Absent \/ m.prev = disk["bak"]))
  BY <1>7, <1>3, StoreAssumption DEF View
<1> QED
  BY <1>4, <1>5, <1>6, <1>7

LEMMA Artifacts ==
  /\ CommittedArtifacts \in Seq(Files) /\ CommittedArtifacts # <<>>
  /\ RolledBackArtifacts \in Seq(Files) /\ RolledBackArtifacts # <<>>
  /\ PurgeBeforeCreate \in Seq(Files) /\ PurgeBeforeCreate # <<>>
  /\ PurgeAfterDrop \in Seq(Files) /\ PurgeAfterDrop # <<>>
  BY DEF CommittedArtifacts, RolledBackArtifacts, PurgeBeforeCreate, PurgeAfterDrop,
         Files, DataFiles, MarkFiles

LEMMA NoOpTyped == NoOp \in Operation
  BY DEF NoOp, Operation, Gone, Files, DataFiles, MarkFiles

LEMMA MergeTyped ==
  ASSUME NEW m \in Meta, NEW t \in Nat, NEW n \in Nat
  PROVE  Merge(m, t, n) \in Meta
  BY DEF Merge, Meta

LEMMA NewMarkerTyped ==
  ASSUME op \in Operation, op.target \in Content
  PROVE  NewMarker \in Marker /\ [NewMarker EXCEPT !.phase = "committed"] \in Marker
  BY DEF NewMarker, Marker, Operation

LEMMA RestoredTyped ==
  ASSUME NEW m \in Meta \cup {NoTable}, cache \in Meta \cup {NoTable}
  PROVE  Restored(m) \in Meta \cup {NoTable}
<1>1. CASE m = NoTable \/ cache = NoTable
  BY <1>1 DEF Restored
<1>2. CASE ~(m = NoTable \/ cache = NoTable)
  <2>1. m.token \in Nat /\ m.count \in Nat /\ cache \in Meta
    BY <1>2 DEF Meta
  <2> QED
    BY <1>2, <2>1, MergeTyped DEF Restored
<1> QED
  BY <1>1, <1>2

LEMMA TInit == Init => TInv
<1> SUFFICES ASSUME Init PROVE TInv
  OBVIOUS
<1>1. meta \in Meta \cup {NoTable} /\ acked \subseteq Content \cup {Gone}
  BY StoreAssumption DEF Init, Meta, Gone
<1>2. DiskTyped(disk)
  BY StoreAssumption DEF Init, DiskTyped, Found, Files, DataFiles, MarkFiles
<1>3. VarsOK
  <2>1. scope \in Scope
    BY StoreAssumption DEF Init
  <2>2. 0 \in 0..scope.faults /\ 0 \in 0..scope.crashes
    BY <2>1 DEF Scope
  <2>3. op.kind \notin ReadKinds
    BY DEF Init, NoOp, ReadKinds
  <2> QED
    BY <1>1, <2>1, <2>2, <2>3 DEF Init, VarsOK
<1>4. op \in Operation
  BY NoOpTyped DEF Init
<1>5. Where(pc, op) /\ Sound(pc, op, disk) /\ pc \in Pcs
  BY StoreAssumption DEF Init, NoOp, Where, Sound, Pcs, Publishing, Committing, Detours, Gone, ReadKinds
<1> QED
  BY <1>2, <1>3, <1>4, <1>5 DEF TInv

(* The scope of a behaviour is fixed, and a failing call is counted.       *)
LEMMA Counted ==
  ASSUME [Next]_vars
  PROVE  scope' = scope /\ (faults' = faults \/ Fault)
<1>1. scope' = scope
  BY DEF Next, Step, Begin, vars, Recover, ReadError, Closed, Clean, Restore, UndoPublish, Failed,
    Undone, ReadBody, RestoreBak, DropBak, ReadDone, FixCount, WriteBody, Attempt, AttemptFailed,
    RollbackAttempt, Retry, SaveMeta, UndoMeta, RollbackPending, StartCommit, CommitStep,
    CommitFailed, OkDone, DropMeta, UndropMeta, Purge, Purged, BeginRead, BeginModify,
    BeginOverwrite, BeginCreate, BeginDrop, AbandonedLands, Flush, Crash
<1>2. faults' = faults \/ Fault
  BY DEF Next, Step, Begin, vars, Recover, ReadError, Closed, Clean, Restore, UndoPublish, Failed,
    Undone, ReadBody, RestoreBak, DropBak, ReadDone, FixCount, WriteBody, Attempt, AttemptFailed,
    RollbackAttempt, Retry, SaveMeta, UndoMeta, RollbackPending, StartCommit, CommitStep,
    CommitFailed, OkDone, DropMeta, UndropMeta, Purge, Purged, BeginRead, BeginModify,
    BeginOverwrite, BeginCreate, BeginDrop, AbandonedLands, Flush, Crash, Save, Call, Write,
    Delete, Rename, StageTarget, PublishStep
<1> QED
  BY <1>1, <1>2

(* The bounds are kept.                                                    *)
LEMMA TCounters ==
  ASSUME TInv, [Next]_vars
  PROVE  /\ scope' \in Scope /\ dirty' \in BOOLEAN /\ abandoned' \in SUBSET Files
         /\ nextToken' \in Nat
         /\ faults' \in 0..scope'.faults /\ crashes' \in 0..scope'.crashes
<1>1. scope' = scope
  BY Counted
<1>2. dirty' \in {dirty, TRUE, FALSE}
  BY DEF Next, Step, Begin, vars, Recover, ReadError, Closed, Clean, Restore, UndoPublish, Failed,
    Undone, ReadBody, RestoreBak, DropBak, ReadDone, FixCount, WriteBody, Attempt, AttemptFailed,
    RollbackAttempt, Retry, SaveMeta, UndoMeta, RollbackPending, StartCommit, CommitStep,
    CommitFailed, OkDone, DropMeta, UndropMeta, Purge, Purged, BeginRead, BeginModify,
    BeginOverwrite, BeginCreate, BeginDrop, AbandonedLands, Flush, Crash, Save
<1>3. nextToken' \in {nextToken, nextToken + 1}
  BY DEF Next, Step, Begin, vars, Recover, ReadError, Closed, Clean, Restore, UndoPublish, Failed,
    Undone, ReadBody, RestoreBak, DropBak, ReadDone, FixCount, WriteBody, Attempt, AttemptFailed,
    RollbackAttempt, Retry, SaveMeta, UndoMeta, RollbackPending, StartCommit, CommitStep,
    CommitFailed, OkDone, DropMeta, UndropMeta, Purge, Purged, BeginRead, BeginModify,
    BeginOverwrite, BeginCreate, BeginDrop, AbandonedLands, Flush, Crash
<1>4. faults' = faults \/ Fault
  BY Counted
<1>5. crashes' = crashes \/ (crashes < scope.crashes /\ crashes' = crashes + 1)
  BY DEF Next, Step, Begin, vars, Recover, ReadError, Closed, Clean, Restore, UndoPublish, Failed,
    Undone, ReadBody, RestoreBak, DropBak, ReadDone, FixCount, WriteBody, Attempt, AttemptFailed,
    RollbackAttempt, Retry, SaveMeta, UndoMeta, RollbackPending, StartCommit, CommitStep,
    CommitFailed, OkDone, DropMeta, UndropMeta, Purge, Purged, BeginRead, BeginModify,
    BeginOverwrite, BeginCreate, BeginDrop, AbandonedLands, Flush, Crash
<1>6. abandoned' \subseteq abandoned \/ Purge
  BY DEF Next, Step, Begin, vars, Recover, ReadError, Closed, Clean, Restore, UndoPublish, Failed,
    Undone, ReadBody, RestoreBak, DropBak, ReadDone, FixCount, WriteBody, Attempt, AttemptFailed,
    RollbackAttempt, Retry, SaveMeta, UndoMeta, RollbackPending, StartCommit, CommitStep,
    CommitFailed, OkDone, DropMeta, UndropMeta, Purged, BeginRead, BeginModify,
    BeginOverwrite, BeginCreate, BeginDrop, AbandonedLands, Flush, Crash
<1>7. scope \in Scope /\ nextToken \in Nat /\ dirty \in BOOLEAN
      /\ faults \in 0..scope.faults /\ crashes \in 0..scope.crashes
  BY DEF TInv, VarsOK
<1>8. scope.faults \in Nat /\ scope.crashes \in Nat
  BY <1>7 DEF Scope
<1>9. abandoned' \subseteq Files
  <2>1. CASE Purge
    <3>1. op.todo \in Seq(Files) /\ op.todo # <<>>
      BY <2>1 DEF Purge, TInv, Where, Operation
    <3>2. Head(op.todo) \in Files
      BY <3>1
    <3> QED
      BY <2>1, <3>2 DEF Purge, TInv, VarsOK
  <2> QED
    BY <1>6, <2>1 DEF TInv, VarsOK
<1>10. faults' \in 0..scope.faults
  BY <1>4, <1>7, <1>8 DEF Fault
<1>11. crashes' \in 0..scope.crashes
  BY <1>5, <1>7, <1>8
<1>12. nextToken' \in Nat
  BY <1>3, <1>7
<1>13. dirty' \in BOOLEAN
  BY <1>2, <1>7, Zenon
<1> QED
  BY <1>1, <1>7, <1>9, <1>10, <1>11, <1>12, <1>13

(* The metadata after any other step.                                      *)
LEMMA TMeta ==
  ASSUME TInv, [Next]_vars
  PROVE  meta' \in Meta \cup {NoTable} /\ cache' \in Meta \cup {NoTable}
<1>1. meta \in Meta \cup {NoTable} /\ cache \in Meta \cup {NoTable} /\ op \in Operation
  BY DEF TInv, VarsOK
<1>2. \/ meta' \in {meta, cache} /\ cache' \in {cache, meta}
      \/ FixCount \/ SaveMeta \/ UndoMeta \/ DropMeta \/ UndropMeta
  BY DEF Next, Step, Begin, vars, Recover, ReadError, Closed, Clean, Restore, UndoPublish,
    Failed, Undone, ReadBody, RestoreBak, DropBak, ReadDone, WriteBody, Attempt,
    AttemptFailed, RollbackAttempt, Retry, RollbackPending, StartCommit, CommitStep,
    CommitFailed, OkDone, Purge, Purged, BeginRead, BeginModify, BeginOverwrite,
    BeginCreate, BeginDrop, AbandonedLands, Flush, Crash
<1>3. ASSUME cache' \in Meta \cup {NoTable}, meta' \in {meta, cache'}
      PROVE  meta' \in Meta \cup {NoTable} /\ cache' \in Meta \cup {NoTable}
  BY <1>1, <1>3
<1>4. CASE FixCount
  <2>1. cache \in Meta /\ CountOf[op.val] \in Nat
    BY <1>4, <1>1, StoreAssumption DEF FixCount, TInv, VarsOK, Where
  <2>2. cache' \in Meta
    BY <2>1, <1>4, MergeTyped DEF FixCount
  <2> QED
    BY <2>2, <1>3, <1>4 DEF FixCount, Save
<1>5. CASE SaveMeta
  <2>1. op.token \in Nat /\ CountOf[op.target] \in Nat
    BY <1>5, <1>1, StoreAssumption DEF SaveMeta, TInv, Where, Committing, Operation
  <2>2. cache' \in Meta \cup {NoTable}
    <3>1. [token |-> op.token, count |-> CountOf[op.target]] \in Meta
      BY <2>1 DEF Meta
    <3>2. cache # NoTable => Merge(cache, op.token, CountOf[op.target]) \in Meta
      BY <2>1, <1>1, MergeTyped
    <3> QED
      BY <3>1, <3>2, <1>1, <1>5 DEF SaveMeta
  <2> QED
    BY <2>2, <1>3, <1>5 DEF SaveMeta, Save
<1>6. CASE UndoMeta \/ UndropMeta
  <2>1. cache' \in Meta \cup {NoTable}
    BY <1>6, <1>1, RestoredTyped DEF UndoMeta, UndropMeta, Operation
  <2> QED
    BY <2>1, <1>3, <1>6 DEF UndoMeta, UndropMeta, Save
<1>7. CASE DropMeta
  BY <1>7, <1>1 DEF DropMeta, Save
<1> QED
  BY <1>1, <1>2, <1>4, <1>5, <1>6, <1>7

(* What a client may observe after any step.                               *)
LEMMA TAcked ==
  ASSUME TInv, [Next]_vars
  PROVE  acked' \subseteq Content \cup {Gone}
<1>1. acked \subseteq Content \cup {Gone} /\ op \in Operation /\ Where(pc, op)
  BY DEF TInv, VarsOK
<1>2. \/ acked' \in {acked, acked \cup {Gone}, op.acked}
      \/ acked' = acked \cup {op.target} /\ pc = "writeBody"
      \/ acked' = {op.target} /\ pc = "okDone"
      \/ acked' = {op.val} /\ pc = "readDone"
  BY DEF Next, Step, Begin, vars, Recover, ReadError, Closed, Clean, Restore, UndoPublish,
    Failed, Undone, ReadBody, RestoreBak, DropBak, ReadDone, FixCount, WriteBody, Attempt,
    AttemptFailed, RollbackAttempt, Retry, SaveMeta, UndoMeta, RollbackPending, StartCommit,
    CommitStep, CommitFailed, OkDone, DropMeta, UndropMeta, Purge, Purged, BeginRead,
    BeginModify, BeginOverwrite, BeginCreate, BeginDrop, AbandonedLands, Flush, Crash,
    Return
<1>3. /\ pc \in {"writeBody", "okDone"} => op.target \in Content \cup {Gone}
      /\ pc = "readDone" => op.val \in Content
  BY <1>1 DEF Where
<1> QED
  BY <1>1, <1>2, <1>3 DEF Operation

(* The files after any step.                                               *)
LEMMA TDisk ==
  ASSUME TInv, [Next]_vars
  PROVE  DiskTyped(disk')
<1>1. DiskTyped(disk) /\ op \in Operation /\ Where(pc, op) /\ Sound(pc, op, disk)
  BY DEF TInv
<1>2. \A f \in Files : DiskTyped(Del(f))
  BY <1>1, TypedPut DEF Del
<1>3. \A f \in Files : DiskTyped(Put(f, Torn))
  BY <1>1, TypedPut DEF Put
<1>4. \A f \in DataFiles : \A v \in Content \cup {Absent} : DiskTyped(Put(f, v))
  BY <1>1, TypedPut DEF Put, Files
<1>6. \/ disk' = disk
      \/ Clean \/ Restore \/ UndoPublish \/ RestoreBak \/ DropBak \/ Attempt \/ AttemptFailed
      \/ CommitStep \/ Purge \/ AbandonedLands \/ Crash
  BY DEF Next, Step, Begin, vars, Recover, ReadError, Closed, Failed, Undone, ReadBody,
    ReadDone, FixCount, WriteBody, RollbackAttempt, Retry, SaveMeta, UndoMeta,
    RollbackPending, StartCommit, CommitFailed, OkDone, DropMeta, UndropMeta, Purged,
    BeginRead, BeginModify, BeginOverwrite, BeginCreate, BeginDrop, Flush
<1>7. CASE Clean \/ Purge
  <2>1. Head(op.todo) \in Files
    <3>1. op.todo \in Seq(Files) /\ op.todo # <<>>
      BY <1>7, <1>1 DEF Clean, Purge, Where, Operation
    <3> QED
      BY <3>1
  <2>2. disk' \in {disk, Del(Head(op.todo))}
    BY <1>7 DEF Clean, Purge
  <2> QED
    BY <2>1, <2>2, <1>1, <1>2
<1>8. CASE Restore \/ RestoreBak
  <2>1. disk["bak"] \in Content \cup {Absent}
    BY <1>8, <1>1 DEF Restore, RestoreBak, Sound
  <2>2. disk' \in {disk, Put("primary", disk["bak"]), Put("primary", Torn)}
    BY <1>8 DEF Restore, RestoreBak, Write, Call
  <2> QED
    BY <2>1, <2>2, <1>1, <1>3, <1>4 DEF DataFiles, Files
<1>9. CASE UndoPublish \/ DropBak \/ AbandonedLands
  <2>1. \E f \in Files : disk' \in {disk, Del(f)}
    BY <1>9 DEF UndoPublish, DropBak, AbandonedLands, TInv, VarsOK, Delete, Call, Files, DataFiles
  <2> QED
    BY <2>1, <1>1, <1>2
<1>10. CASE Attempt
  <2>1. op.target \in Content /\ NewMarker \in Marker
    BY <1>10, <1>1, NewMarkerTyped DEF Attempt, StageTarget, PublishStep, Where, Publishing
  <2>2. pc = "wBakTmp" => disk["primary"] \in Content \cup {Absent}
    BY <1>1 DEF Sound
  <2>3. DiskTyped(Put("markerTmp", NewMarker)) /\ DiskTyped(Put("tmp", op.target))
    BY <2>1, <1>1, TypedPut DEF Put, Files, MarkFiles, DataFiles
  <2>4. DiskTyped(Move("bakTmp", "bak")) /\ DiskTyped(Move("markerTmp", "marker"))
        /\ DiskTyped(Move("tmp", "primary"))
    BY <1>1, TypedMove DEF Move, Files, MarkFiles, DataFiles
  <2>5. \/ disk' \in {disk, Put("tmp", op.target), Put("tmp", Torn)}
        \/ disk' \in {disk, Put("bakTmp", disk["primary"]), Put("bakTmp", Torn)} /\ pc = "wBakTmp"
        \/ disk' \in {disk, Put("markerTmp", NewMarker), Put("markerTmp", Torn)}
        \/ disk' \in {Del("bak"), Del("marker"), Del("primary"), Move("bakTmp", "bak"),
                     Move("markerTmp", "marker"), Move("tmp", "primary")}
    BY <1>10 DEF Attempt, StageTarget, PublishStep, Write, Delete, Rename, Call
  <2> QED
    BY <2>2, <2>3, <2>4, <2>5, <1>1, <1>2, <1>3, <1>4 DEF Files, MarkFiles, DataFiles
<1>11. CASE AttemptFailed
  <2>1. DiskTyped([Del("tmp") EXCEPT !["bakTmp"] = Absent])
    BY <1>2, TypedPut DEF Files, DataFiles
  <2> QED
    BY <1>11, <2>1, <1>1, <1>2 DEF AttemptFailed, Call, Files, DataFiles
<1>12. CASE CommitStep
  <2>1. [NewMarker EXCEPT !.phase = "committed"] \in Marker
    BY <1>12, <1>1, NewMarkerTyped DEF CommitStep, Where, Committing
  <2>2. DiskTyped(Put("markerTmp", [NewMarker EXCEPT !.phase = "committed"]))
    BY <2>1, <1>1, TypedPut DEF Put, Files, MarkFiles
  <2>3. DiskTyped(Move("markerTmp", "marker"))
    BY <1>1, TypedMove DEF Move, Files, MarkFiles, DataFiles
  <2>4. disk' \in {disk, Put("markerTmp", [NewMarker EXCEPT !.phase = "committed"]),
                  Put("markerTmp", Torn), Del("marker"), Move("markerTmp", "marker")}
    BY <1>12 DEF CommitStep, Write, Delete, Rename, Call
  <2> QED
    BY <2>2, <2>3, <2>4, <1>1, <1>2, <1>3 DEF Files, MarkFiles
<1>13. CASE Crash
  <2>1. pc \in DOMAIN Writing => Writing[pc] \in Files
    BY DEF Writing, Files, DataFiles, MarkFiles
  <2> QED
    BY <1>13, <2>1, <1>1, <1>3 DEF Crash
<1> QED
  BY <1>1, <1>6, <1>7, <1>8, <1>9, <1>10, <1>11, <1>12, <1>13

LEMMA TStart ==
  ASSUME TInv, NEW r \in Operation, NEW next, Start(r, next)
  PROVE  op' \in Operation
<1>1. View \in Content \cup {Gone} /\ cache \in Meta \cup {NoTable} /\ acked \in SUBSET (Content \cup {Gone})
  BY ViewTyped DEF TInv, VarsOK
<1>2. op' = [r EXCEPT !.before = cache, !.acked = acked, !.from = View]
  BY DEF Start
<1> HIDE DEF View
<1> QED
  BY <1>1, <1>2 DEF Operation

(* The local variables of the operation after any step.                    *)
LEMMA TOp ==
  ASSUME TInv, [Next]_vars
  PROVE  op' \in Operation
<1>1. /\ DiskTyped(disk) /\ op \in Operation /\ Where(pc, op)
      /\ meta \in Meta \cup {NoTable} /\ cache \in Meta \cup {NoTable} /\ nextToken \in Nat
      /\ acked \subseteq Content \cup {Gone}
  BY DEF TInv, VarsOK
<1> DEFINE Target(c) == c \in Content \cup {Absent, Gone}
<1>2. \/ op' = op \/ op' = NoOp
      \/ Recover \/ Clean \/ ReadBody \/ ReadDone \/ WriteBody \/ StageTarget \/ Retry
      \/ RollbackAttempt \/ RollbackPending \/ StartCommit \/ CommitFailed \/ Begin \/ Purge
  BY DEF Next, Step, vars, ReadError, Closed, Restore, UndoPublish, Failed, Undone,
    RestoreBak, DropBak, FixCount, Attempt, AttemptFailed, SaveMeta, UndoMeta, CommitStep,
    OkDone, DropMeta, UndropMeta, Purged, AbandonedLands, Flush, Crash, PublishStep, Return
<1>3. \A k \in {"idle", "readBody", "writeBody", "readDone", "wTmp", "retry", "undone", "okDone"} :
        \A todo \in Seq(Files) : [op EXCEPT !.k = k, !.todo = todo] \in Operation
  BY <1>1 DEF Operation
<1>4. CASE Recover \/ RollbackAttempt \/ RollbackPending \/ CommitFailed \/ StartCommit
  <2>1. \E k \in {op.k, "retry", "undone", "okDone"} :
           op' \in {op, [op EXCEPT !.k = k]} \cup
                   {[op EXCEPT !.k = k, !.todo = todo] :
                        todo \in {CommittedArtifacts, RolledBackArtifacts, <<>>}}
    BY <1>4 DEF Recover, RollbackAttempt, RollbackPending, CommitFailed, StartCommit, Rollback,
      StartClean, FailClosed
  <2>2. op.k \in {"idle", "readBody", "writeBody", "readDone", "wTmp", "retry", "undone", "okDone"}
    BY <1>1 DEF Operation
  <2>3. <<>> \in Seq(Files)
    OBVIOUS
  <2>4. \A k \in {op.k, "retry", "undone", "okDone"} : [op EXCEPT !.k = k] \in Operation
    BY <1>1, <2>2 DEF Operation
  <2>5. \A k \in {op.k, "retry", "undone", "okDone"} :
          \A todo \in {CommittedArtifacts, RolledBackArtifacts, <<>>} :
            [op EXCEPT !.k = k, !.todo = todo] \in Operation
    BY <2>2, <2>3, <1>3, Artifacts
  <2> QED
    BY <2>1, <2>4, <2>5, <1>1
<1>5. CASE Clean \/ Purge
  <2>1. op.todo \in Seq(Files) /\ op.todo # <<>>
    BY <1>5, <1>1 DEF Clean, Purge, Where, Operation
  <2>2. Tail(op.todo) \in Seq(Files) /\ <<>> \in Seq(Files)
    BY <2>1
  <2>3. op' \in {[op EXCEPT !.todo = Tail(op.todo)], [op EXCEPT !.todo = <<>>],
                [op EXCEPT !.todo = Tail(op.todo), !.failed = TRUE]}
    BY <1>5 DEF Clean, Purge
  <2>4. \A todo \in Seq(Files) : [op EXCEPT !.todo = todo] \in Operation
    BY <1>1 DEF Operation
  <2>5. \A todo \in Seq(Files) : [op EXCEPT !.todo = todo, !.failed = TRUE] \in Operation
    BY <1>1 DEF Operation
  <2> QED
    BY <2>2, <2>3, <2>4, <2>5
<1>6. CASE ReadBody
  <2>1. \/ op' = op
        \/ op' = [op EXCEPT !.val = disk["primary"]] /\ Valid("primary")
        \/ op' = [op EXCEPT !.val = Empty]
        \/ op' = [op EXCEPT !.val = disk["bak"], !.k = "readDone"] /\ Valid("bak")
    BY <1>6 DEF ReadBody, FailClosed
  <2>2. \A v \in Content : [op EXCEPT !.val = v] \in Operation
    BY <1>1 DEF Operation
  <2>3. \A v \in Content : [op EXCEPT !.val = v, !.k = "readDone"] \in Operation
    BY <1>1 DEF Operation
  <2> QED
    BY <2>1, <2>2, <2>3, <1>1, StoreAssumption DEF Valid
<1>7. CASE ReadDone
  <2>1. \/ op' \in {op, NoOp}
        \/ \E c \in Content : op' = [op EXCEPT !.kind = "write", !.target = c, !.token = nextToken,
                                               !.val = Absent, !.k = "writeBody"]
    BY <1>7 DEF ReadDone, Return
  <2>2. \A c \in Content : [op EXCEPT !.kind = "write", !.target = c, !.token = nextToken]
                            \in Operation
    BY <1>1 DEF Operation
  <2>3. \A o \in Operation : [o EXCEPT !.val = Absent, !.k = "writeBody"] \in Operation
    BY ZenonT(60) DEF Operation
  <2>4. \A c \in Content : [op EXCEPT !.kind = "write", !.target = c, !.token = nextToken,
                                       !.val = Absent, !.k = "writeBody"] \in Operation
    BY <2>2, <2>3
  <2> QED
    BY <2>1, <2>4, <1>1, NoOpTyped
<1>8. CASE WriteBody
  <2> DEFINE count == IF meta = NoTable THEN 0 ELSE meta.count
             local == [op EXCEPT !.prevToken = TokenOf(meta), !.prevCount = count,
                                 !.acked = acked, !.retries = 3, !.k = "wTmp"]
  <2>1. op' \in {op, local}
    BY <1>8 DEF WriteBody, FailClosed
  <2>2. TokenOf(meta) \in Nat /\ count \in Nat
    BY <1>1 DEF TokenOf, Meta
  <2> HIDE DEF count
  <2>4. [op EXCEPT !.prevToken = TokenOf(meta), !.prevCount = count] \in Operation
    BY <2>2, <1>1 DEF Operation
  <2>5. \A o \in Operation : [o EXCEPT !.acked = acked] \in Operation
    BY <1>1 DEF Operation
  <2>6. 3 \in 0..3
    OBVIOUS
  <2>7. \A o \in Operation : [o EXCEPT !.retries = 3] \in Operation
    BY <2>6 DEF Operation
  <2>8. \A o \in Operation : [o EXCEPT !.k = "wTmp"] \in Operation
    BY DEF Operation
  <2>3. local \in Operation
    BY <2>4, <2>5, <2>7, <2>8
  <2> QED
    BY <2>1, <2>3, <1>1
<1>9. CASE StageTarget
  <2>1. op' = [op EXCEPT !.prev = disk["primary"]] /\ disk["primary"] \in Content \cup {Absent}
    BY <1>9 DEF StageTarget, TInv, Sound
  <2> QED
    BY <2>1, <1>1 DEF Operation
<1>10. CASE Retry
  <2>1. op' = [op EXCEPT !.retries = @ - 1] /\ op.retries \in 1..3
    BY <1>10, <1>1 DEF Retry, Where, Publishing
  <2>2. op.retries - 1 \in 0..3
    BY <2>1
  <2> QED
    BY <2>1, <2>2, <1>1 DEF Operation
<1>11. CASE Begin
  <2>1. [NoOp EXCEPT !.kind = "modify", !.k = "readBody"] \in Operation
    BY NoOpTyped DEF Operation
  <2>2. \A kind \in {"read", "count"} : [NoOp EXCEPT !.kind = kind, !.k = "readBody"] \in Operation
    BY NoOpTyped DEF Operation
  <2>3. \A c \in Content : NewWrite(c, "writeBody") \in Operation
    BY <1>1, NoOpTyped DEF Operation, NewWrite
  <2>4. \A c \in Content : [NewWrite(c, "writeBody") EXCEPT !.todo = PurgeBeforeCreate] \in Operation
    <3>1. \A o \in Operation : \A todo \in Seq(Files) : [o EXCEPT !.todo = todo] \in Operation
      BY DEF Operation
    <3> QED
      BY <2>3, <3>1, Artifacts
  <2>5. \A todo \in Seq(Files) :
          [NoOp EXCEPT !.kind = "drop", !.target = Gone, !.todo = todo] \in Operation
    BY NoOpTyped DEF Operation
  <2>6. CASE BeginRead
    BY <2>6, <2>2, TStart DEF BeginRead
  <2>7. CASE BeginModify
    BY <2>7, <2>1, TStart DEF BeginModify
  <2>8. CASE BeginOverwrite
    BY <2>8, <2>3, TStart DEF BeginOverwrite
  <2>9. CASE BeginCreate
    BY <2>9, <2>4, TStart DEF BeginCreate
  <2>10. CASE BeginDrop
    BY <2>10, <2>5, Artifacts, TStart DEF BeginDrop
  <2> QED
    BY <1>11, <2>6, <2>7, <2>8, <2>9, <2>10 DEF Begin
<1> QED
  BY <1>1, <1>2, <1>4, <1>5, <1>6, <1>7, <1>8, <1>9, <1>10, <1>11, NoOpTyped

Fields == {"kind", "target", "token", "before", "prevToken", "prevCount", "prev", "todo", "k",
           "retries", "failed", "val", "acked", "from"}

LEMMA OpFields == \A o \in Operation : DOMAIN o = Fields /\ o = [f \in Fields |-> o[f]]
  BY DEF Operation, Fields

SameOperation ==
  /\ op'.kind = op.kind /\ op'.target = op.target /\ op'.token = op.token
  /\ op'.before = op.before /\ op'.prevToken = op.prevToken /\ op'.prevCount = op.prevCount
  /\ op'.prev = op.prev /\ op'.retries = op.retries /\ op'.val = op.val
  /\ op'.acked = op.acked /\ op'.from = op.from

LEMMA DetourFields ==
  ASSUME op \in Operation
  PROVE  /\ op' = op => SameOperation /\ op'.k = op.k /\ op'.todo = op.todo
         /\ \A k : op' = [op EXCEPT !.k = k] => SameOperation /\ op'.k = k /\ op'.todo = op.todo
         /\ \A k, todo : op' = [op EXCEPT !.k = k, !.todo = todo]
              => SameOperation /\ op'.k = k /\ op'.todo = todo
         /\ \A k, todo : op' = [op EXCEPT !.todo = todo, !.k = k]
              => SameOperation /\ op'.k = k /\ op'.todo = todo
         /\ \A todo : op' = [op EXCEPT !.todo = todo]
              => SameOperation /\ op'.k = op.k /\ op'.todo = todo
<1>1. DOMAIN op = Fields /\ op = [f \in Fields |-> op[f]]
  BY OpFields
<1> QED
  BY <1>1 DEF SameOperation, Fields

(* What the recovery may decide.                                           *)
LEMMA RecoverEffect ==
  ASSUME TInv, Recover
  PROVE  \/ Evidence = "none" /\ pc' = op.k /\ op' = op
         \/ pc' = "closed" /\ op' = op
         \/ /\ Evidence # "none" /\ disk[Evidence] \in Marker
            /\ meta # NoTable /\ meta.token = disk[Evidence].token
            /\ disk["primary"] = disk[Evidence].target
            /\ pc' = "clean" /\ op' = [op EXCEPT !.todo = CommittedArtifacts, !.k = op.k]
         \/ /\ Evidence = "marker" /\ disk["marker"] \in Marker
            /\ TokenOf(meta) = disk["marker"].prevToken
            /\ TokenOf(meta) # disk["marker"].token
            /\ Rollback(disk["marker"], IF meta = NoTable THEN 0 ELSE meta.count, op.k)
<1>1. Evidence # "none" /\ disk[Evidence] # Torn => disk[Evidence] \in Marker
  BY DEF TInv, DiskTyped, Evidence, MarkFiles
<1>2. Evidence \in {"none", "marker", "markerTmp"}
  BY DEF Evidence
<1> QED
  BY <1>1, <1>2 DEF Recover, FailClosed, StartClean, TokenOf

LEMMA RollbackEffect ==
  ASSUME NEW m \in Marker, NEW count, NEW k, Rollback(m, count, k)
  PROVE  /\ pc' \in {"closed", "undoPublish"} \/ (pc' = "restore" /\ disk["bak"] \in Content)
         /\ \/ op' = op /\ pc' = "closed"
            \/ op' = [op EXCEPT !.k = k, !.todo = RolledBackArtifacts] /\ pc' # "closed"
<1>1. m.prev \in Content \cup {Absent}
  BY DEF Marker
<1> QED
  BY <1>1 DEF Rollback, FailClosed

(* Every step leads to a place that fits the operation.                    *)
LEMMA TWhere ==
  ASSUME TInv, Next
  PROVE  /\ pc' \in Pcs /\ Where(pc', op') /\ Sound(pc', op', disk')
         /\ op'.kind \in ReadKinds => cache' # NoTable
<1>1. CASE Recover
  <2>0. op \in Operation /\ DOMAIN op = Fields /\ op = [f \in Fields |-> op[f]]
        /\ pc = "recover" /\ disk' = disk /\ cache' = cache
    BY <1>1, OpFields DEF TInv, Recover
  <2>1. op.k \in {"readBody", "writeBody"}
    BY <2>0 DEF TInv, Where
  <2>2. \/ pc' \in {op.k, "closed"} /\ op' = op
        \/ pc' = "clean" /\ op' = [op EXCEPT !.todo = CommittedArtifacts, !.k = op.k]
        \/ /\ pc' = "undoPublish" \/ (pc' = "restore" /\ disk["bak"] \in Content)
           /\ op' = [op EXCEPT !.k = op.k, !.todo = RolledBackArtifacts]
    <3>1. ASSUME NEW m \in Marker, NEW count, Rollback(m, count, op.k)
          PROVE  \/ pc' = "closed" /\ op' = op
                 \/ /\ pc' = "undoPublish" \/ (pc' = "restore" /\ disk["bak"] \in Content)
                    /\ op' = [op EXCEPT !.k = op.k, !.todo = RolledBackArtifacts]
      BY <3>1, RollbackEffect
    <3> QED
      BY <1>1, <3>1, RecoverEffect
  <2>6. /\ SameOperation /\ op'.k = op.k
        /\ pc' \notin {op.k, "closed"} => op'.todo # <<>>
    BY ZenonT(60), <2>0, <2>1, <2>2, Artifacts, DetourFields
  <2>7. pc' \in {op.k, "closed", "clean", "undoPublish", "restore"}
    BY <2>2
  <2>3. Where(pc', op')
    BY <2>0, <2>1, <2>6, <2>7 DEF TInv, Where, SameOperation, Publishing, Committing, Detours
  <2>4. pc' \in Pcs /\ Sound(pc', op', disk')
    BY <2>0, <2>1, <2>2 DEF Sound, Fields, Pcs, Publishing, Committing, Detours
  <2>5. op'.kind \in ReadKinds => cache' # NoTable
    BY <2>0, <2>2 DEF TInv, VarsOK, Fields
  <2> QED
    BY <2>3, <2>4, <2>5
<1>2. CASE ReadError
  BY <1>2, StoreAssumption, Artifacts DEF TInv, VarsOK, DiskTyped, Where, Sound, Pcs,
    Publishing, Committing, Detours, ReadKinds, Files, DataFiles, MarkFiles, Operation,
    ReadError, Fault, Gone, NoOp, Return
<1>3. CASE Closed
  BY <1>3, StoreAssumption, Artifacts DEF TInv, VarsOK, DiskTyped, Where, Sound, Pcs,
    Publishing, Committing, Detours, ReadKinds, Files, DataFiles, MarkFiles, Operation,
    Closed, Gone, NoOp, Return
<1>4. CASE Clean
  <2>0. op \in Operation /\ DOMAIN op = Fields /\ op = [f \in Fields |-> op[f]]
    BY OpFields DEF TInv
  <2>1. pc' \in Pcs
    BY <1>4, <2>0 DEF TInv, Pcs, Fields, Publishing, Committing, Detours, Where, Clean, Del,
      Fault
  <2>2. Where(pc', op')
    BY <1>4, <2>0, StoreAssumption, Artifacts DEF TInv, DiskTyped, Where, Fields,
      Publishing, Committing, Detours, ReadKinds, Clean, Del, Fault
  <2>3. Sound(pc', op', disk')
    BY <1>4, <2>0, StoreAssumption DEF TInv, DiskTyped, Where, Sound, Fields, Publishing,
      Committing, Detours, ReadKinds, Files, DataFiles, MarkFiles, Clean, Del, Fault
  <2>4. op'.kind \in ReadKinds => cache' # NoTable
    BY <1>4, <2>0 DEF TInv, VarsOK, Where, Fields, Publishing, Committing, Detours,
      ReadKinds, Clean, Del, Fault
  <2> QED
    BY <2>1, <2>2, <2>3, <2>4
<1>5. CASE Restore
  <2>1. /\ pc = "restore" /\ op' = op /\ cache' = cache
        /\ \/ pc' = "clean" /\ disk' = Put("primary", disk["bak"])
           \/ pc' = "failed"
    BY <1>5 DEF Restore, Write, Call
  <2>2. /\ op.k \in {"readBody", "writeBody", "retry", "undone", "okDone"}
        /\ disk["bak"] \in Content \cup {Absent}
    BY <2>1 DEF TInv, Where, Sound
  <2>3. pc' \in Pcs /\ Where(pc', op')
    BY <2>1, <2>2 DEF TInv, Where, Publishing, Committing, Detours, Pcs
  <2>4. pc' = "clean" => disk'["primary"] = disk["bak"]
    BY <2>1 DEF Put, TInv, DiskTyped, Files, DataFiles
  <2>5. Sound(pc', op', disk')
    BY <2>1, <2>2, <2>4 DEF Sound
  <2> QED
    BY <2>1, <2>3, <2>5 DEF TInv, VarsOK
<1>6. CASE UndoPublish
  <2>1. /\ pc = "undoPublish" /\ op' = op /\ cache' = cache
        /\ disk' \in {disk, Del("primary")}
        /\ pc' \in {op.k, "failed"} \/ (pc' = "clean" /\ op.todo # <<>>)
    BY <1>6 DEF UndoPublish, Delete, Call
  <2>2. op.k \in {"readBody", "writeBody", "retry", "undone"}
    BY <2>1 DEF TInv, Where
  <2>3. pc' \in Pcs /\ Where(pc', op')
    BY <2>1, <2>2 DEF TInv, Where, Publishing, Committing, Detours, Pcs
  <2>4. disk'["primary"] = Absent \/ pc' = "failed"
    BY <1>6 DEF UndoPublish, Delete, Call, Del, TInv, DiskTyped, Files, DataFiles
  <2>5. Sound(pc', op', disk')
    BY <2>1, <2>2, <2>4 DEF Sound
  <2> QED
    BY <2>1, <2>3, <2>5 DEF TInv, VarsOK
<1>7. CASE Failed
  BY <1>7, StoreAssumption, Artifacts DEF TInv, VarsOK, DiskTyped, Where, Sound, Pcs,
    Publishing, Committing, Detours, ReadKinds, Files, DataFiles, MarkFiles, Operation,
    Failed, Gone, NoOp, Return
<1>8. CASE Undone
  BY <1>8, StoreAssumption, Artifacts DEF TInv, VarsOK, DiskTyped, Where, Sound, Pcs,
    Publishing, Committing, Detours, ReadKinds, Files, DataFiles, MarkFiles, Operation,
    Undone, Gone, NoOp, Return
<1>9. CASE ReadBody
  <2>0. op \in Operation /\ DOMAIN op = Fields /\ op = [f \in Fields |-> op[f]]
    BY OpFields DEF TInv
  <2>1. pc' \in Pcs
    BY <1>9, <2>0 DEF TInv, Pcs, Fields, Publishing, Committing, Detours, Where, ReadBody,
      FailClosed, Valid
  <2>2. Where(pc', op')
    <3>1. \/ pc' = "closed" /\ op' = op
          \/ pc' \in {"readDone", "discard"} /\ op' = [op EXCEPT !.val = disk["primary"]] /\ Valid("primary")
          \/ pc' = "readDone" /\ op' = [op EXCEPT !.val = Empty]
          \/ pc' = "restoreBak" /\ op' = [op EXCEPT !.val = disk["bak"], !.k = "readDone"] /\ Valid("bak")
      BY <1>9 DEF ReadBody, FailClosed
    <3>2. pc = "readBody"
      BY <1>9 DEF ReadBody
    <3> QED
      BY ZenonT(60), <2>0, <3>1, <3>2, StoreAssumption
      DEF Valid, TInv, Where, Fields, Publishing, Committing, Detours, ReadKinds
  <2>3. Sound(pc', op', disk')
    BY <1>9, <2>0, StoreAssumption DEF TInv, DiskTyped, Where, Sound, Fields, Publishing,
      Committing, Detours, ReadKinds, Files, DataFiles, MarkFiles, ReadBody, FailClosed,
      Valid
  <2>4. op'.kind \in ReadKinds => cache' # NoTable
    BY <1>9, <2>0 DEF TInv, VarsOK, Where, Fields, Publishing, Committing, Detours,
      ReadKinds, ReadBody, FailClosed, Valid
  <2> QED
    BY <2>1, <2>2, <2>3, <2>4
<1>10. CASE RestoreBak
  <2>1. /\ pc = "restoreBak" /\ op' = op /\ cache' = cache
        /\ \/ pc' = "dropBak" /\ disk' = Put("primary", disk["bak"])
           \/ pc' = "failed"
    BY <1>10 DEF RestoreBak, Write, Call
  <2>2. /\ op.k \in {"readDone", "wTmp", "undone", "okDone"}
        /\ disk["bak"] \in Content \cup {Absent}
    BY <2>1 DEF TInv, Where, Sound
  <2>3. pc' \in Pcs /\ Where(pc', op')
    BY <2>1, <2>2 DEF TInv, Where, Publishing, Committing, Detours, Pcs
  <2>4. pc' = "dropBak" => disk'["primary"] = disk["bak"]
    BY <2>1 DEF Put, TInv, DiskTyped, Files, DataFiles
  <2>5. Sound(pc', op', disk')
    BY <2>1, <2>2, <2>4 DEF Sound
  <2> QED
    BY <2>1, <2>3, <2>5 DEF TInv, VarsOK
<1>11. CASE DropBak
  BY ZenonT(60), <1>11, StoreAssumption, Artifacts DEF TInv, VarsOK, DiskTyped, Where, Sound, Pcs,
    Publishing, Committing, Detours, ReadKinds, Files, DataFiles, MarkFiles, Operation,
    DropBak, Call, Del, Delete, Fault
<1>12. CASE ReadDone
  <2>0. op \in Operation /\ DOMAIN op = Fields /\ op = [f \in Fields |-> op[f]]
    BY OpFields DEF TInv
  <2>1. pc' \in Pcs
    BY <1>12, <2>0 DEF TInv, Pcs, Fields, Publishing, Committing, Detours, Where, ReadDone,
      Gone, NoOp, Return
  <2>2. Where(pc', op')
    <3>1. \/ pc' = "idle" /\ op' = NoOp
          \/ pc' = "fixCount" /\ op' = op
          \/ /\ pc' = "recover"
             /\ \E c \in Content :
                  op' = [op EXCEPT !.kind = "write", !.target = c, !.token = nextToken,
                                   !.val = Absent, !.k = "writeBody"]
      BY <1>12 DEF ReadDone, Return
    <3>2. pc = "readDone"
      BY <1>12 DEF ReadDone
    <3>3. CASE pc' = "idle" /\ op' = NoOp
      BY <3>3 DEF NoOp, Where, Publishing, Committing, Detours, ReadKinds
    <3>4. CASE pc' = "fixCount" /\ op' = op
      BY <3>2, <3>4 DEF TInv, Where, Publishing, Committing, Detours, ReadKinds
    <3>5. ASSUME NEW c \in Content, pc' = "recover",
                 op' = [op EXCEPT !.kind = "write", !.target = c, !.token = nextToken,
                                  !.val = Absent, !.k = "writeBody"]
          PROVE  Where(pc', op')
      <4>1. op'.kind = "write" /\ op'.target = c /\ op'.k = "writeBody"
        BY <2>0, <3>5 DEF Fields
      <4> QED
        BY <3>5, <4>1 DEF Where, Publishing, Committing, Detours
    <3> QED
      BY <3>1, <3>3, <3>4, <3>5
  <2>3. Sound(pc', op', disk')
    BY <1>12, <2>0, StoreAssumption DEF TInv, DiskTyped, Where, Sound, Fields, Publishing,
      Committing, Detours, ReadKinds, Files, DataFiles, MarkFiles, ReadDone, Gone, NoOp,
      Return
  <2>4. op'.kind \in ReadKinds => cache' # NoTable
    BY <1>12, <2>0 DEF TInv, VarsOK, Where, Fields, Publishing, Committing, Detours,
      ReadKinds, ReadDone, Gone, NoOp, Return
  <2> QED
    BY <2>1, <2>2, <2>3, <2>4
<1>13. CASE FixCount
  BY <1>13, StoreAssumption, Artifacts DEF TInv, VarsOK, DiskTyped, Where, Sound, Pcs,
    Publishing, Committing, Detours, ReadKinds, Files, DataFiles, MarkFiles, Operation,
    FixCount, Fault, Gone, Merge, NoOp, Save
<1>14. CASE WriteBody
  <2>0. op \in Operation /\ DOMAIN op = Fields /\ op = [f \in Fields |-> op[f]]
    BY OpFields DEF TInv
  <2>1. pc' \in Pcs
    BY <1>14, <2>0 DEF TInv, Pcs, Fields, Publishing, Committing, Detours, Where, WriteBody,
      Exists, FailClosed, TokenOf, Valid
  <2>2. Where(pc', op')
    <3>1. pc = "writeBody" /\ pc' \in {"wTmp", "restoreBak", "closed"}
      BY <1>14 DEF WriteBody, FailClosed
    <3>2. \/ op' = op /\ pc' = "closed"
          \/ op' = [op EXCEPT !.prevToken = TokenOf(meta),
                              !.prevCount = IF meta = NoTable THEN 0 ELSE meta.count,
                              !.acked = acked, !.retries = 3, !.k = "wTmp"]
      BY <1>14 DEF WriteBody, FailClosed
    <3>3. op.kind = "write" /\ op.target \in Content
      BY <3>1 DEF TInv, Where
    <3>4. \/ op' = op /\ pc' = "closed"
          \/ op'.kind = "write" /\ op'.target = op.target /\ op'.k = "wTmp" /\ op'.retries = 3
      BY <3>2, <2>0, <3>3 DEF Fields
    <3>5. 3 \in 1..3
      OBVIOUS
    <3> QED
      BY <3>1, <3>3, <3>4, <3>5 DEF TInv, Where, Publishing, Committing, Detours
  <2>3. Sound(pc', op', disk')
    BY <1>14, <2>0, StoreAssumption DEF TInv, DiskTyped, Where, Sound, Fields, Publishing,
      Committing, Detours, ReadKinds, Files, DataFiles, MarkFiles, WriteBody, Exists,
      FailClosed, TokenOf, Valid
  <2>4. op'.kind \in ReadKinds => cache' # NoTable
    BY ZenonT(60), <1>14, <2>0 DEF TInv, VarsOK, Where, Fields, Publishing, Committing, Detours,
      ReadKinds, WriteBody, Exists, FailClosed, TokenOf, Valid
  <2> QED
    BY <2>1, <2>2, <2>3, <2>4
<1>15. CASE Attempt
  <2>0. op \in Operation /\ DOMAIN op = Fields /\ op = [f \in Fields |-> op[f]]
    BY OpFields DEF TInv
  <2>1. pc' \in Pcs
    BY <1>15, <2>0 DEF TInv, Pcs, Fields, Publishing, Committing, Detours, Where, Attempt,
      Call, Del, Delete, Exists, Fault, Move, NewMarker, PublishStep, Put, Rename,
      StageTarget, Write
  <2>2. Where(pc', op')
    BY <1>15, <2>0, StoreAssumption, Artifacts DEF TInv, DiskTyped, Where, Fields,
      Publishing, Committing, Detours, ReadKinds, Attempt, Call, Del, Delete, Exists, Fault,
      Move, NewMarker, PublishStep, Put, Rename, StageTarget, Write
  <2>3. Sound(pc', op', disk')
    BY <1>15, <2>0, StoreAssumption DEF TInv, DiskTyped, Where, Sound, Fields, Publishing,
      Committing, Detours, ReadKinds, Files, DataFiles, MarkFiles, Attempt, Call, Del,
      Delete, Exists, Fault, Move, NewMarker, PublishStep, Put, Rename, StageTarget, Write
  <2>4. op'.kind \in ReadKinds => cache' # NoTable
    BY <1>15, <2>0 DEF TInv, VarsOK, Where, Fields, Publishing, Committing, Detours,
      ReadKinds, Attempt, Call, Del, Delete, Exists, Fault, Move, NewMarker, PublishStep,
      Put, Rename, StageTarget, Write
  <2> QED
    BY <2>1, <2>2, <2>3, <2>4
<1>16. CASE AttemptFailed
  BY ZenonT(60), <1>16, StoreAssumption, Artifacts DEF TInv, VarsOK, DiskTyped, Where, Sound, Pcs,
    Publishing, Committing, Detours, ReadKinds, Files, DataFiles, MarkFiles, Operation,
    AttemptFailed, Call, Del, Fault
<1>17. CASE RollbackAttempt
  <2>0. op \in Operation /\ DOMAIN op = Fields /\ op = [f \in Fields |-> op[f]]
    BY OpFields DEF TInv
  <2>1. pc' \in Pcs
    BY <1>17, <2>0 DEF TInv, Pcs, Fields, Publishing, Committing, Detours, Where,
      RollbackAttempt, FailClosed, NewMarker, Rollback
  <2>2. Where(pc', op')
    BY ZenonT(60), <1>17, <2>0, StoreAssumption, Artifacts DEF TInv, DiskTyped, Where, Fields,
      Publishing, Committing, Detours, ReadKinds, RollbackAttempt, FailClosed, NewMarker,
      Rollback
  <2>3. Sound(pc', op', disk')
    <3>1. NewMarker \in Marker
      BY <1>17, <2>0, NewMarkerTyped DEF RollbackAttempt, TInv, Where, Publishing, Committing
    <3>2. pc' \in {"closed", "undoPublish", "failed", "okDone"}
          \/ (pc' = "restore" /\ disk["bak"] \in Content)
      BY <1>17, <3>1, RollbackEffect DEF RollbackAttempt, FailClosed
    <3> QED
      BY <1>17, <3>2 DEF RollbackAttempt, Sound
  <2>4. op'.kind \in ReadKinds => cache' # NoTable
    BY <1>17, <2>0 DEF TInv, VarsOK, Where, Fields, Publishing, Committing, Detours,
      ReadKinds, RollbackAttempt, FailClosed, NewMarker, Rollback
  <2> QED
    BY <2>1, <2>2, <2>3, <2>4
<1>18. CASE Retry
  <2>0. op \in Operation /\ DOMAIN op = Fields /\ op = [f \in Fields |-> op[f]]
    BY OpFields DEF TInv
  <2>1. pc' \in Pcs
    BY <1>18, <2>0 DEF TInv, Pcs, Fields, Publishing, Committing, Detours, Where, Retry
  <2>2. Where(pc', op')
    BY <1>18, <2>0, StoreAssumption, Artifacts DEF TInv, DiskTyped, Where, Fields,
      Publishing, Committing, Detours, ReadKinds, Retry
  <2>3. Sound(pc', op', disk')
    BY <1>18, <2>0, StoreAssumption DEF TInv, DiskTyped, Where, Sound, Fields, Publishing,
      Committing, Detours, ReadKinds, Files, DataFiles, MarkFiles, Retry
  <2>4. op'.kind \in ReadKinds => cache' # NoTable
    BY <1>18, <2>0 DEF TInv, VarsOK, Where, Fields, Publishing, Committing, Detours,
      ReadKinds, Retry
  <2> QED
    BY <2>1, <2>2, <2>3, <2>4
<1>19. CASE SaveMeta
  BY <1>19, StoreAssumption, Artifacts DEF TInv, VarsOK, DiskTyped, Where, Sound, Pcs,
    Publishing, Committing, Detours, ReadKinds, Files, DataFiles, MarkFiles, Operation,
    SaveMeta, Fault, Merge, Save
<1>20. CASE UndoMeta
  BY <1>20, StoreAssumption, Artifacts DEF TInv, VarsOK, DiskTyped, Where, Sound, Pcs,
    Publishing, Committing, Detours, ReadKinds, Files, DataFiles, MarkFiles, Operation,
    UndoMeta, Fault, Merge, Restored, Save
<1>21. CASE RollbackPending
  <2>0. op \in Operation /\ DOMAIN op = Fields /\ op = [f \in Fields |-> op[f]]
    BY OpFields DEF TInv
  <2>1. pc' \in Pcs
    BY <1>21, <2>0 DEF TInv, Pcs, Fields, Publishing, Committing, Detours, Where,
      RollbackPending, FailClosed, Rollback, Valid
  <2>2. Where(pc', op')
    <3>1. \/ pc' = "closed" /\ op' = op
          \/ pc' = "restoreBak" /\ op' = [op EXCEPT !.k = "undone"]
          \/ pc' = "undoPublish" /\ op' = [op EXCEPT !.k = "undone", !.todo = <<>>]
          \/ /\ pc' \in {"undoPublish", "restore"}
             /\ op' = [op EXCEPT !.k = "undone", !.todo = RolledBackArtifacts]
      BY <1>21 DEF RollbackPending, FailClosed, Rollback
    <3>2. /\ SameOperation /\ pc' \in {"closed", "restoreBak", "undoPublish", "restore"}
          /\ pc' = "closed" \/ op'.k = "undone"
          /\ pc' = "closed" => op'.k = op.k
          /\ pc' = "restore" => op'.todo # <<>>
      BY ZenonT(60), <2>0, <3>1, Artifacts, DetourFields
    <3>3. pc = "rollbackPending"
      BY <1>21 DEF RollbackPending
    <3> QED
      BY <3>2, <3>3 DEF TInv, Where, SameOperation, Publishing, Committing, Detours
  <2>3. Sound(pc', op', disk')
    <3>1. Evidence = "marker" /\ disk["marker"] # Torn => disk["marker"] \in Marker
      BY DEF TInv, DiskTyped, Evidence, MarkFiles
    <3>2. pc' \in {"closed", "undoPublish"}
          \/ (pc' \in {"restore", "restoreBak"} /\ disk["bak"] \in Content)
      BY <1>21, <3>1, RollbackEffect DEF RollbackPending, Valid, FailClosed
    <3>3. op' = op \/ op' = [op EXCEPT !.k = "undone"] \/ \E todo \in {RolledBackArtifacts, <<>>} :
            op' = [op EXCEPT !.k = "undone", !.todo = todo]
      BY <1>21 DEF RollbackPending, Rollback, FailClosed
    <3> QED
      BY <1>21, <3>2 DEF RollbackPending, Sound
  <2>4. op'.kind \in ReadKinds => cache' # NoTable
    BY ZenonT(60), <1>21, <2>0 DEF TInv, VarsOK, Where, Fields, Publishing, Committing, Detours,
      ReadKinds, RollbackPending, FailClosed, Rollback, Valid
  <2> QED
    BY <2>1, <2>2, <2>3, <2>4
<1>22. CASE StartCommit
  <2>0. op \in Operation /\ DOMAIN op = Fields /\ op = [f \in Fields |-> op[f]]
    BY OpFields DEF TInv
  <2>1. pc' \in Pcs
    BY <1>22, <2>0 DEF TInv, Pcs, Fields, Publishing, Committing, Detours, Where,
      StartCommit, FailClosed
  <2>2. Where(pc', op')
    BY ZenonT(60), <1>22, <2>0, StoreAssumption, Artifacts DEF TInv, DiskTyped, Where, Fields,
      Publishing, Committing, Detours, ReadKinds, StartCommit, FailClosed
  <2>3. Sound(pc', op', disk')
    BY <1>22, <2>0, StoreAssumption DEF TInv, DiskTyped, Where, Sound, Fields, Publishing,
      Committing, Detours, ReadKinds, Files, DataFiles, MarkFiles, StartCommit, FailClosed
  <2>4. op'.kind \in ReadKinds => cache' # NoTable
    BY <1>22, <2>0 DEF TInv, VarsOK, Where, Fields, Publishing, Committing, Detours,
      ReadKinds, StartCommit, FailClosed
  <2> QED
    BY <2>1, <2>2, <2>3, <2>4
<1>23. CASE CommitStep
  <2>0. op \in Operation /\ DOMAIN op = Fields /\ op = [f \in Fields |-> op[f]]
    BY OpFields DEF TInv
  <2>1. pc' \in Pcs
    BY <1>23, <2>0 DEF TInv, Pcs, Fields, Publishing, Committing, Detours, Where,
      CommitStep, Call, Del, Delete, Fault, Move, NewMarker, Put, Rename, Write
  <2>2. Where(pc', op')
    BY <1>23, <2>0, StoreAssumption, Artifacts DEF TInv, DiskTyped, Where, Fields,
      Publishing, Committing, Detours, ReadKinds, CommitStep, Call, Del, Delete, Fault,
      Move, NewMarker, Put, Rename, Write
  <2>3. Sound(pc', op', disk')
    <3>1. pc' \in {"cDelMark", "cMvMark", "cFail"} \/ (pc' = "clean" /\ pc = "cMvMark")
      BY <1>23 DEF CommitStep, Write, Delete, Rename, Call
    <3>2. op.k = "okDone" /\ op' = op
      BY <1>23 DEF CommitStep, TInv, Where
    <3> QED
      BY <3>1, <3>2 DEF Sound
  <2>4. op'.kind \in ReadKinds => cache' # NoTable
    BY <1>23, <2>0 DEF TInv, VarsOK, Where, Fields, Publishing, Committing, Detours,
      ReadKinds, CommitStep, Call, Del, Delete, Fault, Move, NewMarker, Put, Rename, Write
  <2> QED
    BY <2>1, <2>2, <2>3, <2>4
<1>24. CASE CommitFailed
  <2>0. op \in Operation /\ DOMAIN op = Fields /\ op = [f \in Fields |-> op[f]]
    BY OpFields DEF TInv
  <2>1. pc' \in Pcs
    BY <1>24, <2>0 DEF TInv, Pcs, Fields, Publishing, Committing, Detours, Where,
      CommitFailed, FailClosed, Fault, NewMarker, Rollback, TokenOf
  <2>2. Where(pc', op')
    BY ZenonT(60), <1>24, <2>0, StoreAssumption, Artifacts DEF TInv, DiskTyped, Where, Fields,
      Publishing, Committing, Detours, ReadKinds, CommitFailed, FailClosed, Fault,
      NewMarker, Rollback, TokenOf
  <2>3. Sound(pc', op', disk')
    <3>1. NewMarker \in Marker
      BY <1>24, <2>0, NewMarkerTyped DEF CommitFailed, TInv, Where, Publishing, Committing
    <3>2. pc' \in {"closed", "undoPublish", "failed", "okDone"}
          \/ (pc' = "restore" /\ disk["bak"] \in Content)
      BY <1>24, <3>1, RollbackEffect DEF CommitFailed, FailClosed
    <3> QED
      BY <1>24, <3>2 DEF CommitFailed, Sound
  <2>4. op'.kind \in ReadKinds => cache' # NoTable
    BY <1>24, <2>0 DEF TInv, VarsOK, Where, Fields, Publishing, Committing, Detours,
      ReadKinds, CommitFailed, FailClosed, Fault, NewMarker, Rollback, TokenOf
  <2> QED
    BY <2>1, <2>2, <2>3, <2>4
<1>25. CASE OkDone
  BY <1>25, StoreAssumption, Artifacts DEF TInv, VarsOK, DiskTyped, Where, Sound, Pcs,
    Publishing, Committing, Detours, ReadKinds, Files, DataFiles, MarkFiles, Operation,
    OkDone, Gone, NoOp, Return
<1>26. CASE DropMeta
  <2>0. op \in Operation /\ DOMAIN op = Fields /\ op = [f \in Fields |-> op[f]]
    BY OpFields DEF TInv
  <2>1. pc' \in Pcs
    BY <1>26, <2>0 DEF TInv, Pcs, Fields, Publishing, Committing, Detours, Where, DropMeta,
      Fault, Save
  <2>2. Where(pc', op')
    BY <1>26, <2>0, StoreAssumption, Artifacts DEF TInv, DiskTyped, Where, Fields,
      Publishing, Committing, Detours, ReadKinds, DropMeta, Fault, Save
  <2>3. Sound(pc', op', disk')
    BY <1>26, <2>0, StoreAssumption DEF TInv, DiskTyped, Where, Sound, Fields, Publishing,
      Committing, Detours, ReadKinds, Files, DataFiles, MarkFiles, DropMeta, Fault, Save
  <2>4. op'.kind \in ReadKinds => cache' # NoTable
    BY <1>26, <2>0 DEF TInv, VarsOK, Where, Fields, Publishing, Committing, Detours,
      ReadKinds, DropMeta, Fault, Save
  <2> QED
    BY <2>1, <2>2, <2>3, <2>4
<1>27. CASE UndropMeta
  BY <1>27, StoreAssumption, Artifacts DEF TInv, VarsOK, DiskTyped, Where, Sound, Pcs,
    Publishing, Committing, Detours, ReadKinds, Files, DataFiles, MarkFiles, Operation,
    UndropMeta, Fault, Merge, Restored, Save
<1>28. CASE Purge
  <2>0. op \in Operation /\ DOMAIN op = Fields /\ op = [f \in Fields |-> op[f]]
    BY OpFields DEF TInv
  <2>1. pc' \in Pcs
    BY <1>28, <2>0 DEF TInv, Pcs, Fields, Publishing, Committing, Detours, Where, Purge,
      Del, Fault
  <2>2. Where(pc', op')
    <3>1. /\ op' = [op EXCEPT !.todo = Tail(op.todo)]
             \/ op' = [op EXCEPT !.todo = Tail(op.todo), !.failed = TRUE]
          /\ pc = "purge" /\ pc' = (IF Tail(op.todo) = <<>> THEN "purged" ELSE "purge")
      BY <1>28 DEF Purge
    <3>2. /\ op'.kind = op.kind /\ op'.target = op.target /\ op'.k = op.k
          /\ op'.val = op.val /\ op'.retries = op.retries /\ op'.todo = Tail(op.todo)
      BY <2>0, <3>1 DEF Fields
    <3> QED
      BY <3>1, <3>2 DEF TInv, Where, Publishing, Committing, Detours
  <2>3. Sound(pc', op', disk')
    BY <1>28, <2>0, StoreAssumption DEF TInv, DiskTyped, Where, Sound, Fields, Publishing,
      Committing, Detours, ReadKinds, Files, DataFiles, MarkFiles, Purge, Del, Fault
  <2>4. op'.kind \in ReadKinds => cache' # NoTable
    BY <1>28, <2>0 DEF TInv, VarsOK, Where, Fields, Publishing, Committing, Detours,
      ReadKinds, Purge, Del, Fault
  <2> QED
    BY <2>1, <2>2, <2>3, <2>4
<1>29. CASE Purged
  BY <1>29, StoreAssumption, Artifacts DEF TInv, VarsOK, DiskTyped, Where, Sound, Pcs,
    Publishing, Committing, Detours, ReadKinds, Files, DataFiles, MarkFiles, Operation,
    Purged
<1>30. CASE BeginRead
  BY SMTT(60), <1>30, StoreAssumption, Artifacts DEF TInv, VarsOK, DiskTyped, Where, Sound, Pcs,
    Publishing, Committing, Detours, ReadKinds, Files, DataFiles, MarkFiles, Operation,
    BeginRead, Gone, NoOp, Start, TokenOf, Valid
<1>31. CASE BeginModify
  BY <1>31, StoreAssumption, Artifacts DEF TInv, VarsOK, DiskTyped, Where, Sound, Pcs,
    Publishing, Committing, Detours, ReadKinds, Files, DataFiles, MarkFiles, Operation,
    BeginModify, Gone, NoOp, Start, TokenOf, Valid
<1>32. CASE BeginOverwrite
  BY <1>32, StoreAssumption, Artifacts DEF TInv, VarsOK, DiskTyped, Where, Sound, Pcs,
    Publishing, Committing, Detours, ReadKinds, Files, DataFiles, MarkFiles, Operation,
    BeginOverwrite, Gone, NewWrite, NoOp, Start, TokenOf, Valid
<1>33. CASE BeginCreate
  BY <1>33, StoreAssumption, Artifacts DEF TInv, VarsOK, DiskTyped, Where, Sound, Pcs,
    Publishing, Committing, Detours, ReadKinds, Files, DataFiles, MarkFiles, Operation,
    BeginCreate, Gone, NewWrite, NoOp, Start, TokenOf, Valid
<1>34. CASE BeginDrop
  BY <1>34, StoreAssumption, Artifacts DEF TInv, VarsOK, DiskTyped, Where, Sound, Pcs,
    Publishing, Committing, Detours, ReadKinds, Files, DataFiles, MarkFiles, Operation,
    BeginDrop, Gone, NoOp, Start, TokenOf, Valid
<1>35. CASE AbandonedLands
  BY <1>35, StoreAssumption, Artifacts DEF TInv, VarsOK, DiskTyped, Where, Sound, Pcs,
    Publishing, Committing, Detours, ReadKinds, Files, DataFiles, MarkFiles, Operation,
    AbandonedLands, Del
<1>36. CASE Flush
  BY <1>36, StoreAssumption, Artifacts DEF TInv, VarsOK, DiskTyped, Where, Sound, Pcs,
    Publishing, Committing, Detours, ReadKinds, Files, DataFiles, MarkFiles, Operation,
    Flush
<1>37. CASE Crash
  BY <1>37, StoreAssumption, Artifacts DEF TInv, VarsOK, DiskTyped, Where, Sound, Pcs,
    Publishing, Committing, Detours, ReadKinds, Files, DataFiles, MarkFiles, Operation,
    Crash, Gone, NoOp, Put, Writing
<1> QED
  BY <1>1, <1>2, <1>3, <1>4, <1>5, <1>6, <1>7, <1>8, <1>9, <1>10, <1>11, <1>12, <1>13,
    <1>14, <1>15, <1>16, <1>17, <1>18, <1>19, <1>20, <1>21, <1>22, <1>23, <1>24, <1>25,
    <1>26, <1>27, <1>28, <1>29, <1>30, <1>31, <1>32, <1>33, <1>34, <1>35, <1>36, <1>37 DEF
    Next, Step, Begin


LEMMA TStep == TInv /\ [Next]_vars => TInv'
<1> SUFFICES ASSUME TInv, [Next]_vars PROVE TInv'
  OBVIOUS
<1>1. CASE Next
  <2>1. [Next]_vars
    BY <1>1
  <2>2. VarsOK'
    BY <2>1, <1>1, TCounters, TMeta, TAcked, TWhere DEF VarsOK
  <2> QED
    BY <2>1, <2>2, <1>1, TDisk, TOp, TWhere DEF TInv
<1>2. CASE UNCHANGED vars
  BY <1>2 DEF vars, TInv, VarsOK, Where, Sound
<1> QED
  BY <1>1, <1>2

(* The state of a table, its files and its record, and the local variables *)
(* of the running operation are well formed, for a table of any version.   *)
THEOREM TypeCorrect == Spec => []TypeOK
<1>1. Init => TInv
  BY TInit
<1>2. TInv /\ [Next]_vars => TInv'
  BY TStep
<1>3. TInv => TypeOK
  BY TInvTypeOK
<1> QED
  BY <1>1, <1>2, <1>3, PTL DEF Spec

-----------------------------------------------------------------------------
(* The consistency of disk and metadata                                    *)

(* No deletion is outstanding, the table has had tokens from the start,    *)
(* and no metadata mutation that a failed operation left behind is pending *)
(* (saving it, later, would change the table behind everybody's back).     *)
Settled == dirty /\ cache # meta => pc \in {"undoMeta", "undropMeta"}
Calm == ~scope.legacy /\ abandoned = {} /\ Settled

(* The marker, if there is one, is whole, and its tokens are in order.     *)
Marked(d) ==
  d["marker"] # Absent => d["marker"] \in Marker /\ d["marker"].prevToken < d["marker"].token

(* The current generation is v: the primary file, or the backup as long as *)
(* there is no sound primary file.                                         *)
Copy(d, v) == d["primary"] = v \/ (d["primary"] \notin Content /\ d["bak"] = v)

(* The files d stand for generation v of the table with record m: by the   *)
(* commit evidence of a write that m knows, or of one it does not know.    *)
StandsFor(d, m, v) ==
  IF m = NoTable THEN v = Gone
  ELSE /\ v \in Content /\ m.count = CountOf[v] /\ m.token >= 1
       /\ \/ d["marker"] = Absent /\ Copy(d, v)
          \/ /\ d["marker"] # Absent /\ d["marker"].token = m.token
             /\ d["marker"].target = v /\ Copy(d, v)
          \/ /\ d["marker"] # Absent /\ d["marker"].prevToken = m.token
             /\ d["marker"].prev = v
             /\ d["bak"] = v \/ d["primary"] = v

(* View, for any files and record.                                         *)
ViewOf(d, m) ==
  LET k == d["marker"]
      Uncommitted == k # Absent /\ k # Torn /\ TokenOf(m) = k.prevToken
  IN  IF m = NoTable THEN Gone
      ELSE IF Uncommitted /\ k.prev = Absent THEN Empty
      ELSE IF Uncommitted /\ k.prev = d["bak"] THEN d["bak"]
      ELSE IF d["primary"] \in Content THEN d["primary"]
      ELSE IF d["bak"] \in Content THEN d["bak"] ELSE Empty

LEMMA ViewIs == View = ViewOf(disk, meta)
<1> DEFINE m == disk["marker"]
           Uncommitted == Evidence = "marker" /\ m # Torn /\ TokenOf(meta) = m.prevToken
           Other == IF Valid("primary") THEN disk["primary"]
                    ELSE IF Valid("bak") THEN disk["bak"] ELSE Empty
<1>0. Uncommitted <=> m # Absent /\ m # Torn /\ TokenOf(meta) = m.prevToken
  BY DEF Evidence
<1>1. CASE meta = NoTable
  <2>1. View = Gone
    BY <1>1, Zenon DEF View
  <2> QED
    BY <2>1, <1>1 DEF ViewOf
<1>2. CASE meta # NoTable /\ Uncommitted /\ m.prev = Absent
  <2>1. View = Empty
    BY <1>2 DEF View
  <2> QED
    BY <2>1, <1>0, <1>2 DEF ViewOf
<1>3. CASE meta # NoTable /\ Uncommitted /\ m.prev # Absent /\ m.prev = disk["bak"]
  <2>1. View = disk["bak"]
    BY <1>3 DEF View
  <2> QED
    BY <2>1, <1>0, <1>3 DEF ViewOf
<1>4. CASE meta # NoTable /\ ~(Uncommitted /\ (m.prev = Absent \/ m.prev = disk["bak"]))
  <2>1. View = Other
    BY <1>4 DEF View
  <2> QED
    BY <2>1, <1>0, <1>4 DEF ViewOf, Valid
<1> QED
  BY <1>1, <1>2, <1>3, <1>4

LEMMA ViewUnique ==
  ASSUME NEW d, DiskTyped(d), Marked(d), NEW m \in Meta \cup {NoTable}, NEW v,
         StandsFor(d, m, v)
  PROVE  ViewOf(d, m) = v
<1>1. CASE m = NoTable
  BY <1>1 DEF ViewOf, StandsFor
<1>2. CASE m # NoTable
  <2>1. /\ v \in Content /\ m.token \in Nat /\ TokenOf(m) = m.token
        /\ v # Absent
        /\ d["marker"] # Absent => d["marker"] # Torn
    BY <1>2, StoreAssumption DEF StandsFor, Meta, Marked, TokenOf
  <2>2. d["marker"] # Absent => d["marker"].token \in Nat /\ d["marker"].prevToken \in Nat
    BY DEF Marked, Marker
  <2> QED
    BY <1>2, <2>1, <2>2 DEF ViewOf, StandsFor, Marked, Copy
<1> QED
  BY <1>1, <1>2

(* What is on disk, with the record, stands for an acknowledged value.     *)
Durable ==
  /\ Marked(disk)
  /\ StandsFor(disk, meta, View)
  /\ View \in acked
  /\ TokenOf(meta) < nextToken
  /\ ~dirty => cache = meta

LEMMA DurableKept ==
  ASSUME TInv', Marked(disk'), NEW v, StandsFor(disk', meta', v)
  PROVE  View' = v
<1>1. View' = ViewOf(disk', meta')
  <2>1. (View = ViewOf(disk, meta))'
    BY ViewIs, PTL
  <2> QED
    BY <2>1
<1>2. DiskTyped(disk') /\ meta' \in Meta \cup {NoTable}
  BY DEF TInv, VarsOK
<1> QED
  BY <1>1, <1>2, ViewUnique

LEMMA ViewKept ==
  ASSUME disk' = disk, meta' = meta
  PROVE  View' = View
<1>1. (View = ViewOf(disk, meta))'
  BY ViewIs, PTL
<1> QED
  BY <1>1, ViewIs

(* The staging files do not matter.                                        *)
LEMMA StandsSame ==
  ASSUME NEW d, NEW e, NEW m, NEW v, StandsFor(d, m, v),
         \A f \in {"primary", "bak", "marker"} : e[f] = d[f]
  PROVE  StandsFor(e, m, v)
  BY DEF StandsFor, Copy

Exist == meta # NoTable
Clear == \A f \in Files : disk[f] = Absent
Unmarked == disk["marker"] = Absent
Known == disk["marker"] # Absent => disk["marker"].token = TokenOf(meta)

(* What an operation found when it began is still there.                   *)
Before == op.before = meta /\ View = op.from
Fresh == op.token \in 1..nextToken - 1 /\ TokenOf(op.before) < op.token
Writes ==
  /\ Before /\ Fresh /\ op.prevToken = TokenOf(meta)
  /\ op.prevCount = (IF Exist THEN meta.count ELSE 0)
  /\ op.target \in acked
New == [token |-> op.token, count |-> CountOf[op.target]]

(* What the operation relies on at k.                                      *)
Knows(k) ==
  /\ k \in {"readBody", "readDone", "writeBody"} => Before
  /\ k \in {"readBody", "readDone"} => Exist
  /\ k = "readDone" => op.val = View
  /\ k = "writeBody" => Fresh
  /\ k \in {"wTmp", "retry"} => Writes
  /\ k = "undone" => View = op.from
  /\ k = "okDone" => View = op.target

Committed == {"startCommit", "cMarkTmp", "cDelMark", "cMvMark", "cFail"}

OpAt ==
  /\ pc # "idle" => op.from \in op.acked /\ op.acked \subseteq acked
  /\ pc # "fixCount"
  /\ pc \in Detours \cup {"recover"} => Knows(op.k)
  /\ pc \in {"readBody", "writeBody", "readDone", "undone", "okDone"} => Knows(pc)
  /\ pc = "discard" => Knows("readDone")
  /\ pc \in Publishing \cup {"saveMeta"} => Writes
  /\ pc \in {"rollbackPending", "dropMeta"} => Before
  /\ pc \in Publishing \cup {"saveMeta", "undoMeta", "rollbackPending"}
       /\ pc \notin {"wTmp", "wFail", "retry"}
       => op.prev = IF op.before = NoTable THEN Absent ELSE op.from
  /\ pc = "undoMeta" => /\ Fresh /\ op.prevToken = TokenOf(op.before) /\ op.target \in acked
                        /\ meta \in {op.before, New}
                        /\ cache = New \/ (op.before = NoTable /\ cache = NoTable)
  /\ pc \in Committed => View = op.target /\ Exist /\ TokenOf(meta) = op.token
                         /\ op.prevToken < op.token
  /\ pc \in {"dropMeta", "undropMeta"} => Gone \in acked
  /\ pc = "undropMeta" => /\ cache = NoTable /\ meta \in {op.before, NoTable}
                          /\ TokenOf(op.before) < nextToken
  /\ pc \in {"purge", "purged"} => ~Exist /\ (op.kind = "write" => Before /\ Fresh)

DiskAt ==
  /\ pc \in {"recover", "readBody", "writeBody"} /\ ~Exist => Clear
  /\ pc \in {"readBody", "writeBody"} /\ Exist =>
       IF Valid("primary") THEN disk["primary"] = View ELSE Evidence = "none"
  /\ pc \in {"clean", "wTmp", "wBakTmp", "wDelBak", "wMvBak", "wMarkTmp", "wDelMark",
             "wMvMark", "wFail", "retry"}
       => disk["primary"] = IF Exist THEN View ELSE Absent
  /\ pc = "clean" => /\ \A i \in 1..Len(op.todo) : op.todo[i] # "primary"
                     /\ Exist => Known \/ op.todo = RolledBackArtifacts
                     /\ ~Exist => op.k \in {"retry", "undone"}
  /\ pc \in {"restore", "restoreBak"} => Exist /\ disk["bak"] = View
  /\ pc \in {"restore", "undoPublish"} => op.todo = RolledBackArtifacts
  /\ pc = "undoPublish" => ~Exist /\ op.k \in {"retry", "undone"}
  /\ pc \in {"restoreBak", "dropBak", "discard"} => Unmarked
  /\ pc \in {"dropBak", "discard"} => Exist /\ disk["primary"] = View
  /\ pc \in {"wBakTmp", "wDelBak", "wMvBak"} => Exist
  /\ pc \in {"wBakTmp", "wDelBak", "wMvBak", "wMarkTmp", "wDelMark", "wMvMark",
             "wDelPrimary", "wMvPrimary"} => disk["tmp"] = op.target
  /\ pc \in {"wDelBak", "wMvBak"} => disk["bakTmp"] = op.prev
  /\ pc \in {"wMarkTmp", "wDelMark", "wMvMark", "wDelPrimary", "wMvPrimary", "wFailMarked",
             "rollbackAttempt", "saveMeta", "undoMeta", "rollbackPending"}
       => (op.before # NoTable => disk["bak"] = op.prev)
  /\ pc \in {"wDelMark", "wMvMark"} => disk["markerTmp"] = NewMarker
  /\ pc \in {"wDelPrimary", "wMvPrimary", "saveMeta", "undoMeta", "rollbackPending"}
       => disk["marker"] = NewMarker
  /\ pc \in {"saveMeta", "undoMeta"} \cup Committed => disk["primary"] = op.target
  /\ pc \in {"undoMeta", "undropMeta"} => StandsFor(disk, op.before, op.from)
  /\ pc \in Committed => Known
  /\ pc \in {"cMarkTmp", "cDelMark", "cMvMark"} => op.todo = CommittedArtifacts
  /\ pc \in {"cDelMark", "cMvMark"}
       => disk["markerTmp"] = [NewMarker EXCEPT !.phase = "committed"]
  /\ pc \in {"purge", "purged"} /\ op.kind = "write" =>
       op.failed \/ \A f \in Files : disk[f] = Absent \/ \E i \in 1..Len(op.todo) : op.todo[i] = f
  /\ pc = "purged" => op.todo = <<>>

CInv == Durable /\ OpAt /\ DiskAt

-----------------------------------------------------------------------------
(* Steps that change neither files nor metadata                            *)

LEMMA CReadError ==
  ASSUME CInv, TInv, TInv', Calm, ReadError
  PROVE  CInv'
<1>1. disk' = disk /\ meta' = meta /\ cache' = cache /\ dirty' = dirty
  BY DEF ReadError
<1>2. View' = View
  BY <1>1, ViewKept
<1>0. /\ op \in Operation /\ DOMAIN op = Fields /\ op = [f \in Fields |-> op[f]]
      /\ meta \in Meta \cup {NoTable} /\ nextToken \in Nat /\ (pc \notin {"undoMeta", "undropMeta"} => cache = meta)
  BY OpFields DEF TInv, VarsOK, Calm, Settled, CInv, Durable
<1>3. Durable'
  BY <1>0, <1>1, <1>2 DEF CInv, Durable, Fields, OpAt, Knows, TInv, Where, ReadError, Fault,
    Gone, NoOp, Return
<1>4. OpAt'
  BY <1>0, <1>1, <1>2, StoreAssumption DEF CInv, Durable, Fields, OpAt, Knows, Before,
    Fresh, Writes, Exist, New, Committed, Publishing, Detours, TInv, Where, Rollback,
    TokenOf, Meta, Operation, ReadError, Fault, Gone, NoOp, Return
<1>5. DiskAt'
  BY <1>0, <1>1, <1>2, StoreAssumption DEF CInv, Durable, Fields, DiskAt, OpAt, Knows,
    Committed, Publishing, Detours, TInv, Where, Rollback, Exist, Clear, Unmarked, Known,
    Valid, Evidence, NewMarker, ReadError, Fault, Gone, NoOp, Return
<1> QED
  BY <1>3, <1>4, <1>5 DEF CInv

LEMMA CClosed ==
  ASSUME CInv, TInv, TInv', Calm, Closed
  PROVE  CInv'
<1>1. disk' = disk /\ meta' = meta /\ cache' = cache /\ dirty' = dirty
  BY DEF Closed
<1>2. View' = View
  BY <1>1, ViewKept
<1>0. /\ op \in Operation /\ DOMAIN op = Fields /\ op = [f \in Fields |-> op[f]]
      /\ meta \in Meta \cup {NoTable} /\ nextToken \in Nat /\ (pc \notin {"undoMeta", "undropMeta"} => cache = meta)
  BY OpFields DEF TInv, VarsOK, Calm, Settled, CInv, Durable
<1>3. Durable'
  BY <1>0, <1>1, <1>2 DEF CInv, Durable, Fields, OpAt, Knows, TInv, Where, Closed, Gone,
    NoOp, Return
<1>4. OpAt'
  BY <1>0, <1>1, <1>2, StoreAssumption DEF CInv, Durable, Fields, OpAt, Knows, Before,
    Fresh, Writes, Exist, New, Committed, Publishing, Detours, TInv, Where, Rollback,
    TokenOf, Meta, Operation, Closed, Gone, NoOp, Return
<1>5. DiskAt'
  BY <1>0, <1>1, <1>2, StoreAssumption DEF CInv, Durable, Fields, DiskAt, OpAt, Knows,
    Committed, Publishing, Detours, TInv, Where, Rollback, Exist, Clear, Unmarked, Known,
    Valid, Evidence, NewMarker, Closed, Gone, NoOp, Return
<1> QED
  BY <1>3, <1>4, <1>5 DEF CInv

LEMMA CFailed ==
  ASSUME CInv, TInv, TInv', Calm, Failed
  PROVE  CInv'
<1>1. disk' = disk /\ meta' = meta /\ cache' = cache /\ dirty' = dirty
  BY DEF Failed
<1>2. View' = View
  BY <1>1, ViewKept
<1>0. /\ op \in Operation /\ DOMAIN op = Fields /\ op = [f \in Fields |-> op[f]]
      /\ meta \in Meta \cup {NoTable} /\ nextToken \in Nat /\ (pc \notin {"undoMeta", "undropMeta"} => cache = meta)
  BY OpFields DEF TInv, VarsOK, Calm, Settled, CInv, Durable
<1>3. Durable'
  BY <1>0, <1>1, <1>2 DEF CInv, Durable, Fields, OpAt, Knows, TInv, Where, Failed, Gone,
    NoOp, Return
<1>4. OpAt'
  BY <1>0, <1>1, <1>2, StoreAssumption DEF CInv, Durable, Fields, OpAt, Knows, Before,
    Fresh, Writes, Exist, New, Committed, Publishing, Detours, TInv, Where, Rollback,
    TokenOf, Meta, Operation, Failed, Gone, NoOp, Return
<1>5. DiskAt'
  BY <1>0, <1>1, <1>2, StoreAssumption DEF CInv, Durable, Fields, DiskAt, OpAt, Knows,
    Committed, Publishing, Detours, TInv, Where, Rollback, Exist, Clear, Unmarked, Known,
    Valid, Evidence, NewMarker, Failed, Gone, NoOp, Return
<1> QED
  BY <1>3, <1>4, <1>5 DEF CInv

LEMMA CUndone ==
  ASSUME CInv, TInv, TInv', Calm, Undone
  PROVE  CInv'
<1>1. disk' = disk /\ meta' = meta /\ cache' = cache /\ dirty' = dirty
  BY DEF Undone
<1>2. View' = View
  BY <1>1, ViewKept
<1>0. /\ op \in Operation /\ DOMAIN op = Fields /\ op = [f \in Fields |-> op[f]]
      /\ meta \in Meta \cup {NoTable} /\ nextToken \in Nat /\ (pc \notin {"undoMeta", "undropMeta"} => cache = meta)
  BY OpFields DEF TInv, VarsOK, Calm, Settled, CInv, Durable
<1>3. Durable'
  BY <1>0, <1>1, <1>2 DEF CInv, Durable, Fields, OpAt, Knows, TInv, Where, Undone, Gone,
    NoOp, Return
<1>4. OpAt'
  BY <1>0, <1>1, <1>2, StoreAssumption DEF CInv, Durable, Fields, OpAt, Knows, Before,
    Fresh, Writes, Exist, New, Committed, Publishing, Detours, TInv, Where, Rollback,
    TokenOf, Meta, Operation, Undone, Gone, NoOp, Return
<1>5. DiskAt'
  BY <1>0, <1>1, <1>2, StoreAssumption DEF CInv, Durable, Fields, DiskAt, OpAt, Knows,
    Committed, Publishing, Detours, TInv, Where, Rollback, Exist, Clear, Unmarked, Known,
    Valid, Evidence, NewMarker, Undone, Gone, NoOp, Return
<1> QED
  BY <1>3, <1>4, <1>5 DEF CInv

LEMMA CRetry ==
  ASSUME CInv, TInv, TInv', Calm, Retry
  PROVE  CInv'
<1>1. disk' = disk /\ meta' = meta /\ cache' = cache /\ dirty' = dirty
  BY DEF Retry
<1>2. View' = View
  BY <1>1, ViewKept
<1>0. /\ op \in Operation /\ DOMAIN op = Fields /\ op = [f \in Fields |-> op[f]]
      /\ meta \in Meta \cup {NoTable} /\ nextToken \in Nat /\ (pc \notin {"undoMeta", "undropMeta"} => cache = meta)
  BY OpFields DEF TInv, VarsOK, Calm, Settled, CInv, Durable
<1>3. Durable'
  BY <1>0, <1>1, <1>2 DEF CInv, Durable, Fields, OpAt, Knows, TInv, Where, Retry
<1>4. OpAt'
  BY ZenonT(60), <1>0, <1>1, <1>2, StoreAssumption DEF CInv, Durable, Fields, OpAt, Knows, Before,
    Fresh, Writes, Exist, New, Committed, Publishing, Detours, TInv, Where, Rollback,
    TokenOf, Meta, Operation, Retry
<1>5. DiskAt'
  BY <1>0, <1>1, <1>2, StoreAssumption DEF CInv, Durable, Fields, DiskAt, OpAt, Knows,
    Committed, Publishing, Detours, TInv, Where, Rollback, Exist, Clear, Unmarked, Known,
    Valid, Evidence, NewMarker, Retry
<1> QED
  BY <1>3, <1>4, <1>5 DEF CInv

LEMMA CCommitFailed ==
  ASSUME CInv, TInv, TInv', Calm, CommitFailed
  PROVE  CInv'
<1>1. disk' = disk /\ meta' = meta /\ cache' = cache /\ dirty' = dirty
  BY DEF CommitFailed
<1>2. View' = View
  BY <1>1, ViewKept
<1>0. /\ op \in Operation /\ DOMAIN op = Fields /\ op = [f \in Fields |-> op[f]]
      /\ meta \in Meta \cup {NoTable} /\ nextToken \in Nat /\ (pc \notin {"undoMeta", "undropMeta"} => cache = meta)
  BY OpFields DEF TInv, VarsOK, Calm, Settled, CInv, Durable
<1>3. Durable'
  BY <1>0, <1>1, <1>2 DEF CInv, Durable, Fields, OpAt, Knows, TInv, Where, CommitFailed,
    FailClosed, Fault, TokenOf
<1>4. OpAt'
  BY SMTT(60), <1>0, <1>1, <1>2, StoreAssumption DEF CInv, Durable, Fields, OpAt, Knows, Before,
    Fresh, Writes, Exist, New, Committed, Publishing, Detours, TInv, Where, Rollback,
    TokenOf, Meta, Operation, CommitFailed, FailClosed, Fault
<1>5. DiskAt'
  BY <1>0, <1>1, <1>2, StoreAssumption DEF CInv, Durable, Fields, DiskAt, OpAt, Knows,
    Committed, Publishing, Detours, TInv, Where, Rollback, Exist, Clear, Unmarked, Known,
    Valid, Evidence, NewMarker, CommitFailed, FailClosed, Fault, TokenOf
<1> QED
  BY <1>3, <1>4, <1>5 DEF CInv

LEMMA COkDone ==
  ASSUME CInv, TInv, TInv', Calm, OkDone
  PROVE  CInv'
<1>1. disk' = disk /\ meta' = meta /\ cache' = cache /\ dirty' = dirty
  BY DEF OkDone
<1>2. View' = View
  BY <1>1, ViewKept
<1>0. /\ op \in Operation /\ DOMAIN op = Fields /\ op = [f \in Fields |-> op[f]]
      /\ meta \in Meta \cup {NoTable} /\ nextToken \in Nat /\ (pc \notin {"undoMeta", "undropMeta"} => cache = meta)
  BY OpFields DEF TInv, VarsOK, Calm, Settled, CInv, Durable
<1>3. Durable'
  BY <1>0, <1>1, <1>2 DEF CInv, Durable, Fields, OpAt, Knows, TInv, Where, OkDone, Gone,
    NoOp, Return
<1>4. OpAt'
  BY <1>0, <1>1, <1>2, StoreAssumption DEF CInv, Durable, Fields, OpAt, Knows, Before,
    Fresh, Writes, Exist, New, Committed, Publishing, Detours, TInv, Where, Rollback,
    TokenOf, Meta, Operation, OkDone, Gone, NoOp, Return
<1>5. DiskAt'
  BY <1>0, <1>1, <1>2, StoreAssumption DEF CInv, Durable, Fields, DiskAt, OpAt, Knows,
    Committed, Publishing, Detours, TInv, Where, Rollback, Exist, Clear, Unmarked, Known,
    Valid, Evidence, NewMarker, OkDone, Gone, NoOp, Return
<1> QED
  BY <1>3, <1>4, <1>5 DEF CInv

LEMMA CBeginRead ==
  ASSUME CInv, TInv, TInv', Calm, BeginRead
  PROVE  CInv'
<1>1. disk' = disk /\ meta' = meta /\ cache' = cache /\ dirty' = dirty
  BY DEF BeginRead
<1>2. View' = View
  BY <1>1, ViewKept
<1>0. /\ op \in Operation /\ DOMAIN op = Fields /\ op = [f \in Fields |-> op[f]]
      /\ meta \in Meta \cup {NoTable} /\ nextToken \in Nat /\ (pc \notin {"undoMeta", "undropMeta"} => cache = meta)
  BY OpFields DEF TInv, VarsOK, Calm, Settled, CInv, Durable
<1>3. Durable'
  BY <1>0, <1>1, <1>2 DEF CInv, Durable, Fields, OpAt, Knows, TInv, Where, BeginRead, Gone,
    NoOp, Start, TokenOf
<1>4. OpAt'
  BY <1>0, <1>1, <1>2, StoreAssumption DEF CInv, Durable, Fields, OpAt, Knows, Before,
    Fresh, Writes, Exist, New, Committed, Publishing, Detours, TInv, Where, Rollback,
    TokenOf, Meta, Operation, BeginRead, Gone, NoOp, Start
<1>5. DiskAt'
  BY <1>0, <1>1, <1>2, StoreAssumption DEF CInv, Durable, Fields, DiskAt, OpAt, Knows,
    Committed, Publishing, Detours, TInv, Where, Rollback, Exist, Clear, Unmarked, Known,
    Valid, Evidence, NewMarker, BeginRead, Gone, NoOp, Start, TokenOf
<1> QED
  BY <1>3, <1>4, <1>5 DEF CInv

LEMMA CBeginModify ==
  ASSUME CInv, TInv, TInv', Calm, BeginModify
  PROVE  CInv'
<1>1. disk' = disk /\ meta' = meta /\ cache' = cache /\ dirty' = dirty
  BY DEF BeginModify
<1>2. View' = View
  BY <1>1, ViewKept
<1>0. /\ op \in Operation /\ DOMAIN op = Fields /\ op = [f \in Fields |-> op[f]]
      /\ meta \in Meta \cup {NoTable} /\ nextToken \in Nat /\ (pc \notin {"undoMeta", "undropMeta"} => cache = meta)
  BY OpFields DEF TInv, VarsOK, Calm, Settled, CInv, Durable
<1>3. Durable'
  BY <1>0, <1>1, <1>2 DEF CInv, Durable, Fields, OpAt, Knows, TInv, Where, BeginModify,
    Gone, NoOp, Start, TokenOf
<1>4. OpAt'
  BY <1>0, <1>1, <1>2, StoreAssumption DEF CInv, Durable, Fields, OpAt, Knows, Before,
    Fresh, Writes, Exist, New, Committed, Publishing, Detours, TInv, Where, Rollback,
    TokenOf, Meta, Operation, BeginModify, Gone, NoOp, Start
<1>5. DiskAt'
  BY <1>0, <1>1, <1>2, StoreAssumption DEF CInv, Durable, Fields, DiskAt, OpAt, Knows,
    Committed, Publishing, Detours, TInv, Where, Rollback, Exist, Clear, Unmarked, Known,
    Valid, Evidence, NewMarker, BeginModify, Gone, NoOp, Start, TokenOf
<1> QED
  BY <1>3, <1>4, <1>5 DEF CInv

LEMMA CBeginDrop ==
  ASSUME CInv, TInv, TInv', Calm, BeginDrop
  PROVE  CInv'
<1>1. disk' = disk /\ meta' = meta /\ cache' = cache /\ dirty' = dirty
  BY DEF BeginDrop
<1>2. View' = View
  BY <1>1, ViewKept
<1>0. /\ op \in Operation /\ DOMAIN op = Fields /\ op = [f \in Fields |-> op[f]]
      /\ meta \in Meta \cup {NoTable} /\ nextToken \in Nat /\ (pc \notin {"undoMeta", "undropMeta"} => cache = meta)
  BY OpFields DEF TInv, VarsOK, Calm, Settled, CInv, Durable
<1>3. Durable'
  BY <1>0, <1>1, <1>2 DEF CInv, Durable, Fields, OpAt, Knows, TInv, Where, BeginDrop, Gone,
    NoOp, Start, TokenOf
<1>4. OpAt'
  BY <1>0, <1>1, <1>2, StoreAssumption DEF CInv, Durable, Fields, OpAt, Knows, Before,
    Fresh, Writes, Exist, New, Committed, Publishing, Detours, TInv, Where, Rollback,
    TokenOf, Meta, Operation, BeginDrop, Gone, NoOp, Start
<1>5. DiskAt'
  BY <1>0, <1>1, <1>2, StoreAssumption DEF CInv, Durable, Fields, DiskAt, OpAt, Knows,
    Committed, Publishing, Detours, TInv, Where, Rollback, Exist, Clear, Unmarked, Known,
    Valid, Evidence, NewMarker, BeginDrop, Gone, NoOp, Start, TokenOf
<1> QED
  BY <1>3, <1>4, <1>5 DEF CInv

(* What the durable state of an existing table says about its files.       *)
LEMMA Evidences ==
  ASSUME TInv, Durable, Exist
  PROVE  /\ View \in Content /\ View # Absent /\ meta.count = CountOf[View]
         /\ meta \in Meta /\ TokenOf(meta) = meta.token /\ meta.token \in Nat /\ meta.token >= 1
         /\ Known => Copy(disk, View)
         /\ ~Unmarked => /\ disk["marker"] \in Marker /\ disk["marker"] # Torn
                         /\ disk["marker"].prevToken \in Nat /\ disk["marker"].token \in Nat
                         /\ disk["marker"].prevToken < disk["marker"].token
         /\ ~Unmarked /\ Known => disk["marker"].target = View
         /\ ~Unmarked /\ disk["marker"].prevToken = meta.token => disk["marker"].prev = View
         /\ ~Unmarked /\ ~Known => /\ disk["marker"].prevToken = meta.token
                                   /\ disk["bak"] = View \/ disk["primary"] = View
<1>1. /\ View \in Content /\ meta.count = CountOf[View] /\ meta.token >= 1
      /\ \/ Unmarked /\ Copy(disk, View)
         \/ /\ ~Unmarked /\ disk["marker"].token = meta.token
            /\ disk["marker"].target = View /\ Copy(disk, View)
         \/ /\ ~Unmarked /\ disk["marker"].prevToken = meta.token
            /\ disk["marker"].prev = View
            /\ disk["bak"] = View \/ disk["primary"] = View
  BY DEF Durable, StandsFor, Exist, Unmarked
<1>2. meta \in Meta /\ TokenOf(meta) = meta.token /\ meta.token \in Nat
  BY DEF TInv, VarsOK, Exist, TokenOf, Meta
<1>3. ~Unmarked => /\ disk["marker"] \in Marker
                   /\ disk["marker"].prevToken < disk["marker"].token
  BY DEF Durable, Marked, Unmarked
<1>4. ~Unmarked => /\ disk["marker"].prevToken \in Nat /\ disk["marker"].token \in Nat
                   /\ disk["marker"] # Torn
  BY <1>3, StoreAssumption DEF Marker
<1>5. View # Absent
  BY <1>1, StoreAssumption
<1> QED
  BY <1>1, <1>2, <1>3, <1>4, <1>5 DEF Known, Unmarked

LEMMA RecoverOutcome ==
  ASSUME CInv, TInv, Recover
  PROVE  \/ Evidence = "none" /\ pc' = op.k /\ op' = op
         \/ pc' = "closed" /\ op' = op
         \/ /\ Exist /\ disk["primary"] = View /\ Known /\ pc' = "clean"
            /\ op' = [op EXCEPT !.todo = CommittedArtifacts, !.k = op.k]
         \/ /\ Exist /\ disk["bak"] = View /\ pc' = "restore"
            /\ op' = [op EXCEPT !.k = op.k, !.todo = RolledBackArtifacts]
<1>0. pc = "recover" /\ Durable /\ (~Exist => Clear)
  BY DEF Recover, CInv, DiskAt
<1>1. CASE ~Exist
  <2>1. Evidence = "none"
    BY <1>0, <1>1 DEF Clear, Evidence, Files, MarkFiles
  <2> QED
    BY <2>1, RecoverEffect
<1>2. CASE Exist
  <2>0. /\ Evidence = "marker" <=> ~Unmarked
        /\ Evidence \in {"marker", "markerTmp", "none"}
    BY DEF Evidence, Unmarked
  <2>1. ASSUME Evidence # "none", disk[Evidence] \in Marker, meta.token = disk[Evidence].token,
               disk["primary"] = disk[Evidence].target
        PROVE  disk["primary"] = View /\ Known
    <3>1. CASE Evidence = "marker"
      BY <3>1, <2>0, <2>1, <1>0, <1>2, Evidences DEF Known
    <3>2. CASE Evidence = "markerTmp"
      <4>1. Known /\ disk["primary"] \in Content
        BY <3>2, <2>0, <2>1 DEF Known, Unmarked, Marker
      <4> QED
        BY <4>1, <1>0, <1>2, Evidences DEF Copy
    <3> QED
      BY <3>1, <3>2, <2>0, <2>1
  <2>2. ASSUME Evidence = "marker", TokenOf(meta) = disk["marker"].prevToken,
               NEW count, Rollback(disk["marker"], count, op.k)
        PROVE  \/ pc' = "closed" /\ op' = op
               \/ /\ disk["bak"] = View /\ pc' = "restore"
                  /\ op' = [op EXCEPT !.k = op.k, !.todo = RolledBackArtifacts]
    <3>1. disk["marker"].prev = View /\ View # Absent
      BY <2>0, <2>2, <1>0, <1>2, Evidences
    <3> QED
      BY <3>1, <2>2 DEF Rollback, FailClosed
  <2> QED
    BY <1>2, <2>1, <2>2, RecoverEffect
<1> QED
  BY <1>1, <1>2

LEMMA CRecover ==
  ASSUME CInv, TInv, TInv', Recover
  PROVE  CInv'
<1>1. /\ disk' = disk /\ meta' = meta /\ cache' = cache /\ dirty' = dirty /\ acked' = acked
      /\ nextToken' = nextToken /\ pc = "recover" /\ op.k \in {"readBody", "writeBody"}
  BY DEF Recover, TInv, Where
<1>2. View' = View
  BY <1>1, ViewKept
<1>3. Durable'
  BY <1>1, <1>2 DEF CInv, Durable
<1>4. /\ SameOperation /\ op'.k = op.k
      /\ \/ Evidence = "none" /\ pc' = op.k
         \/ pc' = "closed"
         \/ /\ Exist /\ disk["primary"] = View /\ Known /\ pc' = "clean"
            /\ op'.todo = CommittedArtifacts
         \/ Exist /\ disk["bak"] = View /\ pc' = "restore" /\ op'.todo = RolledBackArtifacts
  BY RecoverOutcome, DetourFields DEF TInv
<1>5. Knows(op.k) /\ op.from \in op.acked /\ op.acked \subseteq acked
  BY <1>1 DEF CInv, OpAt
<1>6. Knows(op.k)'
  BY <1>1, <1>2, <1>4, <1>5
  DEF Knows, Before, Fresh, Writes, SameOperation, Exist
<1>7. OpAt'
  BY <1>1, <1>2, <1>4, <1>5, <1>6 DEF OpAt, SameOperation, Publishing, Committed, Detours
<1>8. pc' \in {"readBody", "writeBody"} =>
        /\ ~Exist => Clear
        /\ Exist => IF Valid("primary") THEN disk["primary"] = View ELSE Evidence = "none"
  <2>1. CASE ~Exist
    BY <2>1, <1>1 DEF CInv, DiskAt
  <2>2. CASE Exist /\ pc' \in {"readBody", "writeBody"}
    <3>1. Evidence = "none" /\ Known
      BY <1>1, <1>4, <2>2 DEF Evidence, Known
    <3> QED
      BY <3>1, <2>2, Evidences DEF Copy, Valid, CInv
  <2> QED
    BY <2>1, <2>2
<1>9. \A i \in 1..Len(CommittedArtifacts) : CommittedArtifacts[i] # "primary"
  BY DEF CommittedArtifacts
<1>10. DiskAt'
  BY <1>1, <1>2, <1>4, <1>8, <1>9
  DEF DiskAt, Committed, Exist, Clear, Valid, Evidence, Known, Unmarked
<1> QED
  BY <1>3, <1>7, <1>10 DEF CInv

LEMMA CReadBody ==
  ASSUME CInv, TInv, TInv', ReadBody
  PROVE  CInv'
<1>1. /\ disk' = disk /\ meta' = meta /\ cache' = cache /\ dirty' = dirty /\ acked' = acked
      /\ nextToken' = nextToken /\ pc = "readBody"
      /\ op \in Operation /\ DOMAIN op = Fields /\ op = [f \in Fields |-> op[f]]
  BY OpFields DEF ReadBody, TInv
<1>2. View' = View
  BY <1>1, ViewKept
<1>3. Durable'
  BY <1>1, <1>2 DEF CInv, Durable
<1>4. /\ Before /\ Exist /\ op.from \in op.acked /\ op.acked \subseteq acked
      /\ IF Valid("primary") THEN disk["primary"] = View ELSE Evidence = "none"
  BY <1>1 DEF CInv, OpAt, DiskAt, Knows
<1>5. Evidence = "none" => Unmarked /\ Known
  BY DEF Evidence, Unmarked, Known
<1>6. ~Valid("primary") => disk["bak"] = View /\ Valid("bak") /\ disk["bak"] # Torn
  BY <1>4, <1>5, Evidences, StoreAssumption DEF CInv, Copy, Valid
<1>7. \/ pc' = "closed" /\ op' = op
      \/ /\ pc' = "readDone" \/ (pc' = "discard" /\ Unmarked /\ disk["primary"] = View)
         /\ op' = [op EXCEPT !.val = View]
      \/ /\ pc' = "restoreBak" /\ Unmarked /\ disk["bak"] = View
         /\ op' = [op EXCEPT !.val = View, !.k = "readDone"]
  BY <1>4, <1>5, <1>6 DEF ReadBody, FailClosed
<1>8. /\ op'.from = op.from /\ op'.before = op.before /\ op'.acked = op.acked
      /\ pc' # "closed" => op'.val = View
      /\ pc' = "restoreBak" => op'.k = "readDone"
      /\ pc' \in {"closed", "readDone", "discard", "restoreBak"}
  BY <1>1, <1>7 DEF Fields
<1>9. OpAt'
  BY <1>1, <1>2, <1>4, <1>8
  DEF OpAt, Knows, Before, Exist, Committed, Publishing, Detours
<1>10. DiskAt'
  BY <1>1, <1>2, <1>4, <1>7, <1>8 DEF DiskAt, Committed, Exist, Unmarked
<1> QED
  BY <1>3, <1>9, <1>10 DEF CInv

LEMMA CReadDone ==
  ASSUME CInv, TInv, TInv', Calm, ReadDone
  PROVE  CInv'
<1>1. /\ disk' = disk /\ meta' = meta /\ cache' = cache /\ dirty' = dirty
      /\ pc = "readDone" /\ meta = cache
      /\ op \in Operation /\ DOMAIN op = Fields /\ op = [f \in Fields |-> op[f]]
      /\ nextToken \in Nat
  BY OpFields DEF ReadDone, TInv, VarsOK, Calm, Settled, CInv, Durable
<1>2. View' = View
  BY <1>1, ViewKept
<1>3. /\ Before /\ Exist /\ op.val = View /\ op.from \in op.acked /\ op.acked \subseteq acked
      /\ meta.count = CountOf[View] /\ Durable
  BY <1>1, Evidences DEF CInv, OpAt, Knows
<1>4. \/ pc' = "idle" /\ View \in acked' /\ nextToken' = nextToken
      \/ /\ pc' = "recover" /\ acked' = acked /\ nextToken' = nextToken + 1
         /\ \E c \in Content :
              op' = [op EXCEPT !.kind = "write", !.target = c, !.token = nextToken,
                               !.val = Absent, !.k = "writeBody"]
  BY <1>1, <1>3 DEF ReadDone, Return, Durable
<1>5. View' \in acked' /\ TokenOf(meta) < nextToken'
  <2>1. TokenOf(meta) \in Nat
    BY <1>3, Evidences
  <2>2. View \in acked /\ TokenOf(meta) < nextToken
    BY <1>3 DEF Durable
  <2>3. TokenOf(meta) < nextToken'
    <3>1. \A t, n \in Nat : t < n => t < n + 1
      OBVIOUS
    <3>2. TokenOf(meta) < nextToken + 1
      BY <2>1, <2>2, <3>1, <1>1
    <3>3. nextToken' = nextToken \/ nextToken' = nextToken + 1
      BY <1>4
    <3> QED
      BY <2>2, <3>2, <3>3
  <2> QED
    BY <2>2, <2>3, <1>2, <1>4
<1>6. Durable'
  BY <1>1, <1>2, <1>3, <1>5 DEF Durable, TokenOf
<1>7. pc' = "recover" => /\ op'.from = op.from /\ op'.before = op.before /\ op'.acked = op.acked
                         /\ op'.token = nextToken /\ op'.k = "writeBody"
  BY <1>1, <1>4 DEF Fields
<1>8. OpAt'
  <2>1. CASE pc' = "idle"
    BY <2>1 DEF OpAt, Committed, Publishing, Detours
  <2>2. CASE pc' = "recover"
    <3>1. Before'
      BY <1>1, <1>2, <1>3, <1>7, <2>2 DEF Before
    <3>2. Fresh'
      <4>1. TokenOf(op'.before) < nextToken /\ nextToken' = nextToken + 1
        BY <1>3, <1>4, <1>7, <2>2 DEF Durable, Before
      <4>2. TokenOf(op'.before) \in Nat
        BY <1>3, <1>7, <2>2, Evidences DEF Before
      <4> QED
        BY <1>1, <1>7, <2>2, <4>1, <4>2 DEF Fresh, TokenOf
    <3> QED
      BY <1>3, <1>4, <1>7, <2>2, <3>1, <3>2 DEF OpAt, Knows, Committed, Publishing, Detours
  <2> QED
    BY <1>4, <2>1, <2>2
<1>9. DiskAt'
  BY <1>1, <1>3, <1>4 DEF DiskAt, Committed, Exist
<1> QED
  BY <1>6, <1>8, <1>9 DEF CInv

LEMMA CWriteBody ==
  ASSUME CInv, TInv, TInv', WriteBody
  PROVE  CInv'
<1>1. /\ disk' = disk /\ meta' = meta /\ cache' = cache /\ dirty' = dirty
      /\ nextToken' = nextToken /\ pc = "writeBody"
      /\ op \in Operation /\ DOMAIN op = Fields /\ op = [f \in Fields |-> op[f]]
  BY OpFields DEF WriteBody, TInv
<1>2. View' = View
  BY <1>1, ViewKept
<1>3. /\ Before /\ Fresh /\ Durable
      /\ ~Exist => Clear
      /\ Exist => IF Valid("primary") THEN disk["primary"] = View ELSE Evidence = "none"
  BY <1>1 DEF CInv, OpAt, DiskAt, Knows
<1>4. acked \subseteq acked' /\ (pc' # "closed" => op.target \in acked')
  BY <1>1 DEF WriteBody, FailClosed
<1>5. Durable'
  BY <1>1, <1>2, <1>3, <1>4 DEF Durable
<1>6. Evidence = "none" => Unmarked /\ Known
  BY DEF Evidence, Unmarked, Known
<1>7. Exist /\ ~Valid("primary") => disk["bak"] = View /\ Exists("bak") /\ Unmarked
  BY <1>3, <1>6, Evidences DEF Copy, Valid, Exists
<1>8. ~Exist => disk["primary"] = Absent /\ ~Exists("primary") /\ ~Exists("bak")
                /\ ~Valid("primary")
  BY <1>3, StoreAssumption DEF Clear, Files, DataFiles, Exists, Valid
<1>9. \/ pc' = "closed" /\ op' = op
      \/ /\ pc' = "wTmp" /\ disk["primary"] = (IF Exist THEN View ELSE Absent)
         /\ op' = [op EXCEPT !.prevToken = TokenOf(meta),
                             !.prevCount = IF meta = NoTable THEN 0 ELSE meta.count,
                             !.acked = acked, !.retries = 3, !.k = "wTmp"]
      \/ /\ pc' = "restoreBak" /\ Exist /\ disk["bak"] = View /\ Unmarked
         /\ op' = [op EXCEPT !.prevToken = TokenOf(meta),
                             !.prevCount = IF meta = NoTable THEN 0 ELSE meta.count,
                             !.acked = acked, !.retries = 3, !.k = "wTmp"]
  BY <1>3, <1>7, <1>8 DEF WriteBody, FailClosed
<1>10. pc' # "closed" =>
         /\ op'.from = op.from /\ op'.before = op.before /\ op'.token = op.token
         /\ op'.target = op.target /\ op'.k = "wTmp" /\ op'.acked = acked
         /\ op'.prevToken = TokenOf(meta)
         /\ op'.prevCount = (IF meta = NoTable THEN 0 ELSE meta.count)
  BY <1>1, <1>9 DEF Fields
<1>11. pc' # "closed" => Writes'
  BY <1>1, <1>2, <1>3, <1>4, <1>10 DEF Writes, Before, Fresh, Exist, TokenOf
<1>12. op'.from \in op'.acked /\ op'.acked \subseteq acked'
  <2>1. op.from \in op.acked /\ op.acked \subseteq acked
    BY <1>1 DEF CInv, OpAt
  <2> QED
    BY <2>1, <1>3, <1>4, <1>9, <1>10 DEF Before, Durable
<1>13. OpAt'
  BY <1>9, <1>10, <1>11, <1>12 DEF OpAt, Knows, Committed, Publishing, Detours
<1>14. DiskAt'
  BY <1>1, <1>2, <1>9 DEF DiskAt, Committed, Exist, Unmarked
<1> QED
  BY <1>5, <1>13, <1>14 DEF CInv

LEMMA CRollbackAttempt ==
  ASSUME CInv, TInv, TInv', RollbackAttempt
  PROVE  CInv'
<1>1. /\ disk' = disk /\ meta' = meta /\ cache' = cache /\ dirty' = dirty /\ acked' = acked
      /\ nextToken' = nextToken /\ pc = "rollbackAttempt"
      /\ op \in Operation /\ DOMAIN op = Fields /\ op = [f \in Fields |-> op[f]]
  BY OpFields DEF RollbackAttempt, TInv
<1>2. View' = View
  BY <1>1, ViewKept
<1>3. Durable'
  BY <1>1, <1>2 DEF CInv, Durable
<1>4. /\ Writes /\ op.from \in op.acked /\ op.acked \subseteq acked /\ Durable
      /\ op.prev = (IF op.before = NoTable THEN Absent ELSE op.from)
      /\ op.before # NoTable => disk["bak"] = op.prev
  BY <1>1 DEF CInv, OpAt, DiskAt, Publishing
<1>5. /\ NewMarker.prev = op.prev
      /\ Exist => op.prev = View /\ View # Absent /\ disk["bak"] = View
      /\ ~Exist => op.prev = Absent /\ op.prevCount = 0
  BY <1>4, Evidences DEF NewMarker, Writes, Before, Exist
<1>6. \/ pc' = "closed" /\ op' = op
      \/ /\ pc' = "restore" /\ Exist /\ disk["bak"] = View
         /\ op' = [op EXCEPT !.k = "retry", !.todo = RolledBackArtifacts]
      \/ /\ pc' = "undoPublish" /\ ~Exist
         /\ op' = [op EXCEPT !.k = "retry", !.todo = RolledBackArtifacts]
  BY <1>5 DEF RollbackAttempt, Rollback, FailClosed
<1>7. /\ SameOperation /\ pc' \in {"closed", "restore", "undoPublish"}
      /\ pc' # "closed" => op'.k = "retry" /\ op'.todo = RolledBackArtifacts
  BY <1>1, <1>6, DetourFields
<1>8. OpAt'
  BY <1>1, <1>2, <1>4, <1>7
  DEF OpAt, Knows, Writes, Before, Fresh, Exist, SameOperation, Committed, Publishing, Detours, TokenOf
<1>9. DiskAt'
  BY <1>1, <1>2, <1>6, <1>7 DEF DiskAt, Committed, Exist
<1> QED
  BY <1>3, <1>8, <1>9 DEF CInv

LEMMA CRollbackPending ==
  ASSUME CInv, TInv, TInv', RollbackPending
  PROVE  CInv'
<1>1. /\ disk' = disk /\ meta' = meta /\ cache' = cache /\ dirty' = dirty /\ acked' = acked
      /\ nextToken' = nextToken /\ pc = "rollbackPending"
      /\ op \in Operation /\ DOMAIN op = Fields /\ op = [f \in Fields |-> op[f]]
  BY OpFields DEF RollbackPending, TInv
<1>2. View' = View
  BY <1>1, ViewKept
<1>3. Durable'
  BY <1>1, <1>2 DEF CInv, Durable
<1>4. /\ Before /\ op.from \in op.acked /\ op.acked \subseteq acked /\ Durable
      /\ op.prev = (IF op.before = NoTable THEN Absent ELSE op.from)
      /\ op.before # NoTable => disk["bak"] = op.prev
      /\ disk["marker"] = NewMarker
  BY <1>1 DEF CInv, OpAt, DiskAt, Publishing
<1>5. op.target \in Content
  BY <1>1 DEF TInv, Where, Committing
<1>6. NewMarker # Absent /\ NewMarker # Torn
  BY <1>1, <1>5, NewMarkerTyped, StoreAssumption
<1>7. Evidence = "marker" /\ disk["marker"] # Torn
  BY <1>4, <1>6 DEF Evidence
<1>8. /\ disk["marker"].prev = op.prev
      /\ Exist => op.prev = View /\ View # Absent /\ disk["bak"] = View
      /\ ~Exist => op.prev = Absent
  BY <1>4, Evidences DEF NewMarker, Before, Exist
<1>9. Rollback(disk["marker"], 0, "undone")
  BY <1>7 DEF RollbackPending
<1>10. \/ pc' = "closed" /\ op' = op
       \/ /\ pc' = "restore" /\ Exist /\ disk["bak"] = View
          /\ op' = [op EXCEPT !.k = "undone", !.todo = RolledBackArtifacts]
       \/ /\ pc' = "undoPublish" /\ ~Exist
          /\ op' = [op EXCEPT !.k = "undone", !.todo = RolledBackArtifacts]
  BY <1>8, <1>9 DEF Rollback, FailClosed
<1>11. /\ SameOperation /\ pc' \in {"closed", "restore", "undoPublish"}
       /\ pc' # "closed" => op'.k = "undone" /\ op'.todo = RolledBackArtifacts
  BY <1>1, <1>10, DetourFields
<1>12. OpAt'
  BY <1>1, <1>2, <1>4, <1>11
  DEF OpAt, Knows, Before, SameOperation, Committed, Publishing, Detours
<1>13. DiskAt'
  BY <1>1, <1>2, <1>10, <1>11 DEF DiskAt, Committed, Exist
<1> QED
  BY <1>3, <1>12, <1>13 DEF CInv

LEMMA CStartCommit ==
  ASSUME CInv, TInv, TInv', StartCommit
  PROVE  CInv'
<1>1. /\ disk' = disk /\ meta' = meta /\ cache' = cache /\ dirty' = dirty /\ acked' = acked
      /\ nextToken' = nextToken /\ pc = "startCommit" /\ op \in Operation
  BY DEF StartCommit, TInv
<1>2. View' = View
  BY <1>1, ViewKept
<1>3. Durable'
  BY <1>1, <1>2 DEF CInv, Durable
<1>4. \/ pc' = "closed" /\ op' = op
      \/ pc' = "cMarkTmp" /\ op' = [op EXCEPT !.todo = CommittedArtifacts, !.k = "okDone"]
      \/ pc' = "dropBak" /\ Evidence = "none" /\ op' = [op EXCEPT !.k = "okDone"]
  BY DEF StartCommit, FailClosed
<1>5. /\ SameOperation /\ pc' \in {"closed", "cMarkTmp", "dropBak"}
      /\ pc' = "dropBak" => op'.k = "okDone" /\ Unmarked
      /\ pc' = "cMarkTmp" => op'.todo = CommittedArtifacts
  BY <1>1, <1>4, DetourFields DEF Evidence, Unmarked
<1>6. OpAt'
  BY <1>1, <1>2, <1>5
  DEF CInv, OpAt, Knows, Exist, SameOperation, Committed, Publishing, Detours
<1>7. DiskAt'
  BY <1>1, <1>2, <1>5 DEF CInv, OpAt, DiskAt, SameOperation, Committed, Exist, Unmarked, Known
<1> QED
  BY <1>3, <1>6, <1>7 DEF CInv

LEMMA CPurged ==
  ASSUME CInv, TInv, TInv', Purged
  PROVE  CInv'
<1>1. /\ disk' = disk /\ meta' = meta /\ cache' = cache /\ dirty' = dirty /\ acked' = acked
      /\ nextToken' = nextToken /\ op' = op /\ pc = "purged"
      /\ pc' = (IF op.kind = "drop" THEN "okDone" ELSE IF op.failed THEN "failed" ELSE "recover")
  BY DEF Purged
<1>2. View' = View
  BY <1>1, ViewKept
<1>3. Durable'
  BY <1>1, <1>2 DEF CInv, Durable
<1>4. /\ op.kind \in {"write", "drop"} /\ ~Exist /\ (op.kind = "write" => Before /\ Fresh)
      /\ op.kind = "write" => op.k = "writeBody"
      /\ op.kind = "drop" => op.target = Gone
      /\ op.from \in op.acked /\ op.acked \subseteq acked
  BY <1>1 DEF CInv, OpAt, TInv, Where
<1>5. View = Gone
  BY <1>4 DEF CInv, Durable, StandsFor, Exist
<1>6. OpAt'
  BY <1>1, <1>2, <1>4, <1>5
  DEF OpAt, Knows, Before, Fresh, Committed, Publishing, Detours, TokenOf
<1>7. op.kind = "write" /\ ~op.failed => Clear
  BY <1>1 DEF CInv, DiskAt, Clear
<1>8. DiskAt'
  BY <1>1, <1>4, <1>7 DEF DiskAt, Committed, Exist, Clear
<1> QED
  BY <1>3, <1>6, <1>8 DEF CInv

LEMMA NewOperation ==
  ASSUME NEW r \in Operation, NEW next, Start(r, next)
  PROVE  /\ pc = "idle" /\ pc' = next
         /\ op'.kind = r.kind /\ op'.target = r.target /\ op'.token = r.token /\ op'.k = r.k
         /\ op'.todo = r.todo /\ op'.failed = r.failed
         /\ op'.before = cache /\ op'.acked = acked /\ op'.from = View
<1>1. DOMAIN r = Fields /\ r = [f \in Fields |-> r[f]]
  BY OpFields
<1> QED
  BY <1>1 DEF Start, Fields

LEMMA CBeginWrite ==
  ASSUME CInv, TInv, TInv', Calm, BeginOverwrite \/ BeginCreate
  PROVE  CInv'
<1>1. /\ disk' = disk /\ meta' = meta /\ cache' = cache /\ dirty' = dirty /\ acked' = acked
      /\ nextToken' = nextToken + 1 /\ nextToken \in Nat /\ Durable
  BY DEF BeginOverwrite, BeginCreate, TInv, VarsOK, CInv
<1>2. View' = View
  BY <1>1, ViewKept
<1>3. PICK c \in Content :
        \/ Start(NewWrite(c, "writeBody"), "recover") /\ cache # NoTable
        \/ /\ Start([NewWrite(c, "writeBody") EXCEPT !.todo = PurgeBeforeCreate], "purge")
           /\ cache = NoTable
  BY DEF BeginOverwrite, BeginCreate
<1>4. /\ NewWrite(c, "writeBody") \in Operation
      /\ [NewWrite(c, "writeBody") EXCEPT !.todo = PurgeBeforeCreate] \in Operation
  <2>1. NewWrite(c, "writeBody") \in Operation
    BY <1>1, NoOpTyped DEF Operation, NewWrite
  <2>2. \A o \in Operation : \A todo \in Seq(Files) : [o EXCEPT !.todo = todo] \in Operation
    BY DEF Operation
  <2> QED
    BY <2>1, <2>2, Artifacts
<1>5. /\ NewWrite(c, "writeBody").kind = "write" /\ NewWrite(c, "writeBody").k = "writeBody"
      /\ NewWrite(c, "writeBody").token = nextToken
  BY DEF NewWrite, NoOp
<1>6. DOMAIN NewWrite(c, "writeBody") = Fields
  BY <1>4, OpFields
<1>7. /\ pc = "idle" /\ op'.kind = "write" /\ op'.k = "writeBody" /\ op'.token = nextToken
      /\ op'.before = cache /\ op'.acked = acked /\ op'.from = View
      /\ \/ pc' = "recover" /\ cache # NoTable
         \/ pc' = "purge" /\ cache = NoTable /\ op'.todo = PurgeBeforeCreate
  <2>1. CASE Start(NewWrite(c, "writeBody"), "recover") /\ cache # NoTable
    BY <2>1, <1>4, <1>5, NewOperation
  <2>2. CASE /\ Start([NewWrite(c, "writeBody") EXCEPT !.todo = PurgeBeforeCreate], "purge")
             /\ cache = NoTable
    <3> DEFINE r == [NewWrite(c, "writeBody") EXCEPT !.todo = PurgeBeforeCreate]
    <3>1. r.kind = "write" /\ r.k = "writeBody" /\ r.token = nextToken /\ r.todo = PurgeBeforeCreate
      BY <1>5, <1>6 DEF Fields
    <3> HIDE DEF r
    <3> QED
      BY <2>2, <3>1, <1>4, NewOperation DEF r
  <2> QED
    BY <1>3, <2>1, <2>2
<1>8. cache = meta
  BY <1>7 DEF Calm, Settled, CInv, Durable
<1>9. TokenOf(meta) \in Nat /\ TokenOf(meta) < nextToken /\ View \in acked
  BY <1>1 DEF Durable, TInv, VarsOK, TokenOf, Meta
<1>10. Durable'
  BY <1>1, <1>2, <1>9 DEF Durable, TokenOf
<1>11. Before' /\ Fresh'
  BY <1>1, <1>2, <1>7, <1>8, <1>9 DEF Before, Fresh, TokenOf
<1>12. OpAt'
  BY <1>1, <1>7, <1>8, <1>9, <1>11 DEF OpAt, Knows, Exist, Committed, Publishing, Detours
<1>13. \A f \in Files : \E i \in 1..Len(PurgeBeforeCreate) : PurgeBeforeCreate[i] = f
  <2>1. Len(PurgeBeforeCreate) = 6
    BY DEF PurgeBeforeCreate
  <2>2. /\ PurgeBeforeCreate[1] = "tmp" /\ PurgeBeforeCreate[2] = "bak"
        /\ PurgeBeforeCreate[3] = "bakTmp" /\ PurgeBeforeCreate[4] = "marker"
        /\ PurgeBeforeCreate[5] = "markerTmp" /\ PurgeBeforeCreate[6] = "primary"
    BY DEF PurgeBeforeCreate
  <2>3. 1 \in 1..6 /\ 2 \in 1..6 /\ 3 \in 1..6 /\ 4 \in 1..6 /\ 5 \in 1..6 /\ 6 \in 1..6
    OBVIOUS
  <2> QED
    BY <2>1, <2>2, <2>3 DEF Files, DataFiles, MarkFiles
<1>14. DiskAt'
  BY <1>1, <1>7, <1>8, <1>13 DEF DiskAt, Committed, Exist
<1> QED
  BY <1>10, <1>12, <1>14 DEF CInv

-----------------------------------------------------------------------------
(* Steps that change files                                                 *)

(* A step that changes only files.                                         *)
LEMMA DiskStep ==
  ASSUME TInv', Durable, UNCHANGED <<meta, cache, dirty, acked, nextToken>>,
         Marked(disk'), StandsFor(disk', meta, View)
  PROVE  View' = View /\ Durable'
<1>1. View' = View
  BY DurableKept
<1> QED
  BY <1>1 DEF Durable

(* The files may change as they like while there is no table, ...          *)
LEMMA StandsByNothing ==
  ASSUME Durable, ~Exist, NEW d, d["marker"] \in {disk["marker"], Absent}
  PROVE  StandsFor(d, meta, View) /\ Marked(d)
  BY DEF Durable, StandsFor, Exist, Marked

(* ... and all but the primary file while that one is sound, ...           *)
LEMMA StandsByPrimary ==
  ASSUME Durable, NEW d, d["marker"] \in {disk["marker"], Absent},
         Exist => d["primary"] = View
  PROVE  StandsFor(d, meta, View) /\ Marked(d)
<1>1. CASE Exist
  BY <1>1 DEF Durable, StandsFor, Exist, Marked, Copy
<1>2. CASE ~Exist
  BY <1>2, StandsByNothing
<1> QED
  BY <1>1, <1>2

(* ... or while the backup is, and the primary file is not, ...            *)
LEMMA StandsByBackup ==
  ASSUME Durable, NEW d, d["marker"] = disk["marker"],
         d["bak"] = View, d["primary"] \notin Content
  PROVE  StandsFor(d, meta, View) /\ Marked(d)
  BY DEF Durable, StandsFor, Marked, Copy

(* ... or while a marker that the record does not know tells how to undo.  *)
LEMMA StandsByMarker ==
  ASSUME TInv, Durable, Writes, op.target \in Content,
         op.prev = (IF op.before = NoTable THEN Absent ELSE op.from),
         NEW d, d["marker"] = NewMarker, op.before # NoTable => d["bak"] = op.prev
  PROVE  StandsFor(d, meta, View) /\ Marked(d)
<1>1. NewMarker \in Marker /\ op \in Operation
  BY NewMarkerTyped DEF TInv
<1>2. /\ NewMarker.prevToken = TokenOf(meta) /\ NewMarker.prevToken < NewMarker.token
      /\ NewMarker.prev = op.prev
  BY DEF NewMarker, Writes, Before, Fresh
<1>3. NewMarker # Absent
  BY <1>1, StoreAssumption
<1>4. Marked(d)
  BY <1>1, <1>2 DEF Marked
<1>5. CASE ~Exist
  BY <1>4, <1>5 DEF Durable, StandsFor, Exist
<1>6. CASE Exist
  <2>1. op.prev = View /\ d["bak"] = View
    BY <1>6 DEF Writes, Before, Exist
  <2>2. /\ View \in Content /\ meta.count = CountOf[View] /\ meta.token >= 1
        /\ TokenOf(meta) = meta.token
    BY <1>6, Evidences
  <2> QED
    BY <1>2, <1>3, <1>4, <1>6, <2>1, <2>2 DEF StandsFor, Exist
<1> QED
  BY <1>5, <1>6

LEMMA CClean ==
  ASSUME CInv, TInv, TInv', Clean
  PROVE  CInv' /\ View' = View
<1> DEFINE f == Head(op.todo)
<1>1. /\ UNCHANGED <<meta, cache, dirty, acked, nextToken>> /\ pc = "clean"
      /\ op \in Operation /\ op.todo \in Seq(Files) /\ op.todo # <<>>
      /\ op.k \in {"readBody", "writeBody", "retry", "undone", "okDone"}
      /\ DiskTyped(disk)
  BY DEF Clean, TInv, Where, Operation
<1>2. /\ Durable /\ Knows(op.k) /\ op.from \in op.acked /\ op.acked \subseteq acked
      /\ disk["primary"] = (IF Exist THEN View ELSE Absent)
      /\ \A i \in 1..Len(op.todo) : op.todo[i] # "primary"
      /\ Exist => Known \/ op.todo = RolledBackArtifacts
      /\ ~Exist => op.k \in {"retry", "undone"}
  BY <1>1 DEF CInv, OpAt, DiskAt, Detours
<1>3. f \in Files /\ f # "primary"
  <2>1. Len(op.todo) \in Nat /\ Len(op.todo) >= 1 /\ f = op.todo[1]
    BY <1>1
  <2>2. 1 \in 1..Len(op.todo)
    BY <2>1
  <2> QED
    BY <2>1, <2>2, <1>1, <1>2
<1>4. \/ /\ disk' = Del(f) /\ op' = [op EXCEPT !.todo = Tail(op.todo)]
         /\ pc' = (IF Tail(op.todo) = <<>> THEN op.k ELSE "clean")
      \/ disk' \in {disk, Del(f)} /\ op' = [op EXCEPT !.todo = <<>>] /\ pc' = op.k
  BY DEF Clean
<1> HIDE DEF f
<1>5. /\ \A g \in Files : g # f => Del(f)[g] = disk[g]
      /\ Del(f)[f] = Absent
  BY <1>1, <1>3 DEF Del, DiskTyped
<1>6. /\ disk'["primary"] = disk["primary"]
      /\ disk'["marker"] \in {disk["marker"], Absent}
      /\ disk' = Del(f) \/ pc' = op.k
  BY <1>3, <1>4, <1>5 DEF Files, DataFiles, MarkFiles
<1>7. Marked(disk') /\ StandsFor(disk', meta, View)
  BY <1>2, <1>6, StandsByPrimary
<1>8. View' = View /\ Durable'
  BY <1>1, <1>2, <1>7, DiskStep
<1>9. /\ SameOperation /\ op'.k = op.k
      /\ op'.todo \in {Tail(op.todo), <<>>}
  BY <1>1, <1>4, DetourFields
<1>10. Knows(op.k)'
  BY <1>1, <1>2, <1>8, <1>9 DEF Knows, Before, Fresh, Writes, SameOperation, Exist, TokenOf
<1>11. OpAt'
  <2>1. pc' \in {op.k, "clean"}
    BY <1>4
  <2>2. /\ op'.from \in op'.acked /\ op'.acked \subseteq acked' /\ op'.k = op.k
        /\ Knows(op.k)'
    BY <1>1, <1>2, <1>9, <1>10 DEF SameOperation
  <2>3. CASE pc' = "clean"
    BY <2>2, <2>3 DEF OpAt, Publishing, Committed, Detours
  <2>4. CASE pc' = op.k
    BY <1>1, <2>2, <2>4 DEF OpAt, Knows, Publishing, Committed, Detours
  <2> QED
    BY <2>1, <2>3, <2>4
<1>12. \A i \in 1..Len(op'.todo) : op'.todo[i] # "primary"
  <2>1. Len(Tail(op.todo)) = Len(op.todo) - 1 /\ Len(op.todo) \in Nat
    BY <1>1
  <2>2. \A i \in 1..Len(Tail(op.todo)) : Tail(op.todo)[i] = op.todo[i + 1]
    BY <1>1
  <2>3. \A i \in 1..Len(Tail(op.todo)) : Tail(op.todo)[i] # "primary"
    BY <2>1, <2>2, <1>2
  <2>4. CASE op'.todo = Tail(op.todo)
    BY <2>3, <2>4
  <2>5. CASE op'.todo = <<>>
    <3>1. \A q : q = <<>> => Len(q) = 0
      OBVIOUS
    <3>2. Len(op'.todo) = 0
      BY <2>5, <3>1
    <3>3. 1..0 = {}
      OBVIOUS
    <3> QED
      BY <3>2, <3>3
  <2> QED
    BY <2>4, <2>5, <1>9
<1>13. Exist /\ disk' = Del(f) => (Known)'
  <2>1. CASE Known
    BY <2>1, <1>1, <1>3, <1>5, <1>6 DEF Known, TokenOf
  <2>2. CASE op.todo = RolledBackArtifacts
    <3>1. f = "marker"
      BY <2>2 DEF f, RolledBackArtifacts
    <3> QED
      BY <3>1, <1>5 DEF Known
  <2> QED
    BY <2>1, <2>2, <1>2
<1>14. Exist /\ pc' \in {"readBody", "writeBody"} => (Valid("primary"))' /\ disk'["primary"] = View
  BY <1>2, <1>6, Evidences DEF Valid
<1>15. DiskAt'
  BY <1>1, <1>2, <1>4, <1>6, <1>8, <1>9, <1>12, <1>13, <1>14
  DEF DiskAt, Committed, Exist
<1> QED
  BY <1>8, <1>11, <1>15 DEF CInv

(* What a filesystem call leaves in each file.                             *)
LEMMA Calls ==
  ASSUME DiskTyped(disk)
  PROVE  /\ \A f \in Files : \A v : Put(f, v)[f] = v /\ \A g \in Files \ {f} : Put(f, v)[g] = disk[g]
         /\ \A f \in Files : Del(f)[f] = Absent /\ \A g \in Files \ {f} : Del(f)[g] = disk[g]
         /\ \A f, g \in Files : f # g => /\ Move(f, g)[g] = disk[f] /\ Move(f, g)[f] = Absent
                                         /\ \A h \in Files \ {f, g} : Move(f, g)[h] = disk[h]
  BY DEF DiskTyped, Put, Del, Move

LEMMA CRestore ==
  ASSUME CInv, TInv, TInv', Restore
  PROVE  CInv' /\ View' = View
<1>1. /\ UNCHANGED <<meta, cache, dirty, acked, nextToken>> /\ op' = op /\ pc = "restore"
      /\ DiskTyped(disk)
      /\ op.k \in {"readBody", "writeBody", "retry", "undone", "okDone"}
  BY DEF Restore, TInv, Where
<1>2. /\ Durable /\ Knows(op.k) /\ op.from \in op.acked /\ op.acked \subseteq acked
      /\ Exist /\ disk["bak"] = View /\ op.todo = RolledBackArtifacts
  BY <1>1 DEF CInv, OpAt, DiskAt, Detours
<1>3. /\ disk' \in {disk, Put("primary", View), Put("primary", Torn)}
      /\ \/ pc' = "clean" /\ disk' = Put("primary", View)
         \/ pc' = "failed"
  BY <1>2 DEF Restore, Write, Call
<1>4. /\ \A v : /\ Put("primary", v)["primary"] = v
                /\ Put("primary", v)["bak"] = disk["bak"]
                /\ Put("primary", v)["marker"] = disk["marker"]
  BY <1>1, Calls DEF Files, DataFiles, MarkFiles
<1>5. Marked(disk') /\ StandsFor(disk', meta, View)
  <2>1. CASE disk' = disk
    BY <2>1, <1>2 DEF Durable
  <2>2. CASE disk' = Put("primary", View)
    BY <2>2, <1>2, <1>4, StandsByPrimary
  <2>3. CASE disk' = Put("primary", Torn)
    BY <2>3, <1>2, <1>4, StandsByBackup, StoreAssumption
  <2> QED
    BY <1>3, <2>1, <2>2, <2>3
<1>6. View' = View /\ Durable'
  BY <1>1, <1>2, <1>5, DiskStep
<1>7. Knows(op.k)'
  BY <1>1, <1>2, <1>6 DEF Knows, Before, Fresh, Writes, Exist, TokenOf
<1>8. OpAt'
  BY <1>1, <1>2, <1>3, <1>7 DEF OpAt, Publishing, Committed, Detours
<1>9. \A i \in 1..Len(RolledBackArtifacts) : RolledBackArtifacts[i] # "primary"
  BY DEF RolledBackArtifacts
<1>10. DiskAt'
  BY <1>1, <1>2, <1>3, <1>4, <1>6, <1>9 DEF DiskAt, Committed, Exist
<1> QED
  BY <1>6, <1>8, <1>10 DEF CInv

LEMMA CRestoreBak ==
  ASSUME CInv, TInv, TInv', RestoreBak
  PROVE  CInv' /\ View' = View
<1>1. /\ UNCHANGED <<meta, cache, dirty, acked, nextToken>> /\ op' = op /\ pc = "restoreBak"
      /\ DiskTyped(disk)
      /\ op.k \in {"readDone", "wTmp", "undone", "okDone"}
  BY DEF RestoreBak, TInv, Where
<1>2. /\ Durable /\ Knows(op.k) /\ op.from \in op.acked /\ op.acked \subseteq acked
      /\ Exist /\ disk["bak"] = View /\ Unmarked
  BY <1>1 DEF CInv, OpAt, DiskAt, Detours
<1>3. /\ disk' \in {disk, Put("primary", View), Put("primary", Torn)}
      /\ \/ pc' = "dropBak" /\ disk' = Put("primary", View)
         \/ pc' = "failed"
  BY <1>2 DEF RestoreBak, Write, Call
<1>4. /\ \A v : /\ Put("primary", v)["primary"] = v
                /\ Put("primary", v)["bak"] = disk["bak"]
                /\ Put("primary", v)["marker"] = disk["marker"]
  BY <1>1, Calls DEF Files, DataFiles, MarkFiles
<1>5. Marked(disk') /\ StandsFor(disk', meta, View)
  <2>1. CASE disk' = disk
    BY <2>1, <1>2 DEF Durable
  <2>2. CASE disk' = Put("primary", View)
    BY <2>2, <1>2, <1>4, StandsByPrimary
  <2>3. CASE disk' = Put("primary", Torn)
    BY <2>3, <1>2, <1>4, StandsByBackup, StoreAssumption
  <2> QED
    BY <1>3, <2>1, <2>2, <2>3
<1>6. View' = View /\ Durable'
  BY <1>1, <1>2, <1>5, DiskStep
<1>7. Knows(op.k)'
  BY <1>1, <1>2, <1>6 DEF Knows, Before, Fresh, Writes, Exist, TokenOf
<1>8. OpAt'
  BY <1>1, <1>2, <1>3, <1>7 DEF OpAt, Publishing, Committed, Detours
<1>10. DiskAt'
  BY <1>1, <1>2, <1>3, <1>4, <1>6 DEF DiskAt, Committed, Exist, Unmarked
<1> QED
  BY <1>6, <1>8, <1>10 DEF CInv

LEMMA CUndoPublish ==
  ASSUME CInv, TInv, TInv', UndoPublish
  PROVE  CInv' /\ View' = View
<1>1. /\ UNCHANGED <<meta, cache, dirty, acked, nextToken>> /\ op' = op /\ pc = "undoPublish"
      /\ DiskTyped(disk)
  BY DEF UndoPublish, TInv
<1>2. /\ Durable /\ Knows(op.k) /\ op.from \in op.acked /\ op.acked \subseteq acked
      /\ ~Exist /\ op.k \in {"retry", "undone"} /\ op.todo = RolledBackArtifacts
  BY <1>1 DEF CInv, OpAt, DiskAt, Detours
<1>3. /\ disk' \in {disk, Del("primary")}
      /\ \/ pc' = "clean" /\ disk' = Del("primary")
         \/ pc' = "failed"
  BY <1>2, Artifacts DEF UndoPublish, Delete, Call
<1>4. Del("primary")["primary"] = Absent /\ Del("primary")["marker"] = disk["marker"]
  BY <1>1, Calls DEF Files, DataFiles, MarkFiles
<1>5. Marked(disk') /\ StandsFor(disk', meta, View)
  BY <1>2, <1>3, <1>4, StandsByNothing
<1>6. View' = View /\ Durable'
  BY <1>1, <1>2, <1>5, DiskStep
<1>7. Knows(op.k)'
  BY <1>1, <1>2, <1>6 DEF Knows, Before, Fresh, Writes, Exist, TokenOf
<1>8. OpAt'
  BY <1>1, <1>2, <1>3, <1>7 DEF OpAt, Publishing, Committed, Detours
<1>9. \A i \in 1..Len(RolledBackArtifacts) : RolledBackArtifacts[i] # "primary"
  BY DEF RolledBackArtifacts
<1>10. DiskAt'
  BY <1>1, <1>2, <1>3, <1>4, <1>6, <1>9 DEF DiskAt, Committed, Exist
<1> QED
  BY <1>6, <1>8, <1>10 DEF CInv

LEMMA CDropBak ==
  ASSUME CInv, TInv, TInv', DropBak
  PROVE  CInv' /\ View' = View
<1>1. /\ UNCHANGED <<meta, cache, dirty, acked, nextToken>> /\ op' = op
      /\ pc \in {"dropBak", "discard"} /\ DiskTyped(disk)
      /\ pc = "dropBak" => op.k \in {"readDone", "wTmp", "undone", "okDone"}
  BY DEF DropBak, TInv, Where
<1> DEFINE next == IF pc = "discard" THEN "readDone" ELSE op.k
<1>2. /\ Durable /\ Knows(next) /\ op.from \in op.acked /\ op.acked \subseteq acked
      /\ Exist /\ disk["primary"] = View
      /\ next \in {"readDone", "wTmp", "undone", "okDone"}
  BY <1>1 DEF CInv, OpAt, DiskAt, Detours
<1>3. disk' \in {disk, Del("bak")} /\ pc' = next
  BY DEF DropBak, Delete, Call
<1>4. Del("bak")["primary"] = disk["primary"] /\ Del("bak")["marker"] = disk["marker"]
  BY <1>1, Calls DEF Files, DataFiles, MarkFiles
<1>5. Marked(disk') /\ StandsFor(disk', meta, View)
  BY <1>2, <1>3, <1>4, StandsByPrimary
<1>6. View' = View /\ Durable'
  BY <1>1, <1>2, <1>5, DiskStep
<1> HIDE DEF next
<1>7. OpAt'
  BY <1>1, <1>2, <1>3, <1>6
  DEF OpAt, Knows, Before, Fresh, Writes, Exist, TokenOf, Publishing, Committed, Detours
<1>8. DiskAt'
  BY <1>1, <1>2, <1>3, <1>4, <1>6 DEF DiskAt, Committed, Exist
<1> QED
  BY <1>6, <1>7, <1>8 DEF CInv

LEMMA CStageTarget ==
  ASSUME CInv, TInv, TInv', Attempt, StageTarget
  PROVE  CInv' /\ View' = View
<1>1. /\ UNCHANGED <<meta, cache, dirty, acked, nextToken>> /\ pc = "wTmp"
      /\ op' = [op EXCEPT !.prev = disk["primary"]]
      /\ op \in Operation /\ DOMAIN op = Fields /\ op = [f \in Fields |-> op[f]]
      /\ DiskTyped(disk)
  BY OpFields DEF Attempt, StageTarget, TInv
<1>2. /\ Durable /\ Writes /\ op.from \in op.acked /\ op.acked \subseteq acked
      /\ disk["primary"] = (IF Exist THEN View ELSE Absent)
  BY <1>1 DEF CInv, OpAt, DiskAt, Publishing
<1>3. Exists("primary") <=> Exist
  BY <1>2, Evidences DEF Exists
<1>4. /\ disk' \in {disk, Put("tmp", op.target), Put("tmp", Torn)}
      /\ \/ /\ pc' = (IF Exist THEN "wBakTmp" ELSE "wMarkTmp")
            /\ disk' = Put("tmp", op.target)
         \/ pc' = "wFail"
  BY <1>3 DEF StageTarget, Write, Call
<1>5. \A v : /\ Put("tmp", v)["primary"] = disk["primary"]
             /\ Put("tmp", v)["marker"] = disk["marker"]
             /\ Put("tmp", v)["tmp"] = v
  BY <1>1, Calls DEF Files, DataFiles, MarkFiles
<1>6. disk'["primary"] = disk["primary"] /\ disk'["marker"] = disk["marker"]
  BY <1>4, <1>5
<1>7. Marked(disk') /\ StandsFor(disk', meta, View)
  BY <1>2, <1>6, StandsByPrimary
<1>8. View' = View /\ Durable'
  BY <1>1, <1>2, <1>7, DiskStep
<1>9. /\ op'.from = op.from /\ op'.before = op.before /\ op'.token = op.token
      /\ op'.target = op.target /\ op'.acked = op.acked /\ op'.prevToken = op.prevToken
      /\ op'.prevCount = op.prevCount /\ op'.prev = disk["primary"]
  BY <1>1 DEF Fields
<1>10. /\ Writes'
       /\ op'.prev = (IF op'.before = NoTable THEN Absent ELSE op'.from)
  BY <1>1, <1>2, <1>8, <1>9 DEF Writes, Before, Fresh, Exist, TokenOf
<1>11. OpAt'
  BY <1>1, <1>2, <1>4, <1>9, <1>10 DEF OpAt, Publishing, Committed, Detours
<1>12. DiskAt'
  BY <1>1, <1>2, <1>4, <1>5, <1>6, <1>8, <1>9 DEF DiskAt, Committed, Exist, Writes, Before
<1> QED
  BY <1>8, <1>11, <1>12 DEF CInv

(* A step within a publication leaves what the operation knows.            *)
LEMMA PublishOp ==
  ASSUME OpAt, View' = View, UNCHANGED <<op, meta, acked, nextToken>>,
         pc \in Publishing, pc' \in Publishing \cup {"saveMeta"}, pc' # "wTmp",
         pc \in {"wTmp", "wFail", "retry"} => pc' \in {"wFail", "retry"}
  PROVE  OpAt'
<1>1. Writes /\ op.from \in op.acked /\ op.acked \subseteq acked
  BY DEF OpAt, Publishing
<1>2. Writes'
  BY <1>1 DEF Writes, Before, Fresh, Exist, TokenOf
<1> QED
  BY <1>1, <1>2 DEF OpAt, Publishing, Committed, Detours

LEMMA CPublishStep ==
  ASSUME CInv, TInv, TInv', Attempt, PublishStep
  PROVE  CInv' /\ View' = View
<1>1. /\ UNCHANGED <<meta, cache, dirty, acked, nextToken>> /\ op' = op
      /\ pc \in {"wBakTmp", "wDelBak", "wMvBak", "wMarkTmp", "wDelMark", "wMvMark",
                 "wDelPrimary", "wMvPrimary"}
      /\ op \in Operation /\ op.target \in Content
      /\ DiskTyped(disk)
  BY DEF Attempt, PublishStep, TInv, Where, Publishing
<1>2. /\ Durable /\ Writes /\ op.from \in op.acked /\ op.acked \subseteq acked /\ OpAt
      /\ op.prev = (IF op.before = NoTable THEN Absent ELSE op.from)
      /\ disk["tmp"] = op.target
  BY <1>1 DEF CInv, OpAt, DiskAt, Publishing
<1>3. /\ Exist <=> op.before # NoTable
      /\ Exist => op.prev = View
  BY <1>2 DEF Writes, Before, Exist
<1>4. /\ pc \in {"wBakTmp", "wDelBak", "wMvBak", "wMarkTmp", "wDelMark", "wMvMark"}
           => disk["primary"] = (IF Exist THEN View ELSE Absent)
      /\ pc \in {"wDelBak", "wMvBak"} => disk["bakTmp"] = op.prev
      /\ pc \in {"wBakTmp", "wDelBak", "wMvBak"} => Exist
      /\ pc \in {"wMarkTmp", "wDelMark", "wMvMark", "wDelPrimary", "wMvPrimary"} /\ Exist
           => disk["bak"] = op.prev
      /\ pc \in {"wDelMark", "wMvMark"} => disk["markerTmp"] = NewMarker
      /\ pc \in {"wDelPrimary", "wMvPrimary"} => disk["marker"] = NewMarker
  BY <1>1, <1>3 DEF CInv, DiskAt
<1>5. NewMarker' = NewMarker
  BY <1>1 DEF NewMarker
<1>6. pc' \in Publishing \cup {"saveMeta"} /\ pc' \notin {"wTmp", "retry"}
      /\ pc \notin {"wTmp", "wFail", "retry"} /\ pc \in Publishing
  BY <1>1 DEF PublishStep, Write, Delete, Rename, Call, Publishing
<1>7. ASSUME disk'["marker"] \in {disk["marker"], Absent},
             disk'["primary"] = (IF Exist THEN View ELSE Absent)
      PROVE  View' = View /\ Durable' /\ OpAt'
  <2>1. Marked(disk') /\ StandsFor(disk', meta, View)
    BY <1>2, <1>7, StandsByPrimary
  <2>2. View' = View /\ Durable'
    BY <1>1, <1>2, <2>1, DiskStep
  <2> QED
    BY <1>1, <1>2, <1>6, <2>2, PublishOp
<1>8. ASSUME disk'["marker"] = NewMarker, Exist => disk'["bak"] = op.prev
      PROVE  View' = View /\ Durable' /\ OpAt'
  <2>1. Marked(disk') /\ StandsFor(disk', meta, View)
    BY <1>1, <1>2, <1>3, <1>8, StandsByMarker
  <2>2. View' = View /\ Durable'
    BY <1>1, <1>2, <2>1, DiskStep
  <2> QED
    BY <1>1, <1>2, <1>6, <2>2, PublishOp
<1>9. \A f \in Files : /\ \A v : Put(f, v)[f] = v /\ \A g \in Files \ {f} : Put(f, v)[g] = disk[g]
                       /\ Del(f)[f] = Absent /\ \A g \in Files \ {f} : Del(f)[g] = disk[g]
  BY <1>1, Calls
<1>10. /\ {"primary", "tmp", "bak", "bakTmp", "marker", "markerTmp"} = Files
  BY DEF Files, DataFiles, MarkFiles
<1>11. CASE pc = "wBakTmp"
  <2>1. /\ disk' \in {disk, Put("bakTmp", disk["primary"]), Put("bakTmp", Torn)}
        /\ (pc' = "wDelBak" /\ disk' = Put("bakTmp", disk["primary"])) \/ pc' = "wFail"
    BY <1>11 DEF PublishStep, Write, Call
  <2>2. /\ disk'["primary"] = disk["primary"]
        /\ disk'["marker"] = disk["marker"]
        /\ disk'["bak"] = disk["bak"]
        /\ disk'["tmp"] = disk["tmp"]
        /\ pc' = "wDelBak" => disk'["bakTmp"] = op.prev
    BY <2>1, <1>2, <1>3, <1>4, <1>9, <1>10, <1>11
  <2>3. View' = View /\ Durable' /\ OpAt'
    BY <2>2, <1>3, <1>4, <1>11, <1>7
  <2>4. DiskAt'
    BY <1>1, <1>2, <1>3, <1>5, <2>1, <2>2, <2>3, <1>4, <1>9, <1>10, <1>11 DEF DiskAt, Committed, Exist, Publishing
  <2> QED
    BY <2>3, <2>4 DEF CInv
<1>12. CASE pc = "wDelBak"
  <2>1. /\ disk' \in {disk, Del("bak")}
        /\ (pc' = "wMvBak" /\ disk' = Del("bak")) \/ pc' = "wFail"
    BY <1>12 DEF PublishStep, Delete, Call
  <2>2. /\ disk'["primary"] = disk["primary"]
        /\ disk'["marker"] = disk["marker"]
        /\ disk'["bakTmp"] = disk["bakTmp"]
        /\ disk'["tmp"] = disk["tmp"]
    BY <2>1, <1>2, <1>3, <1>4, <1>9, <1>10, <1>12
  <2>3. View' = View /\ Durable' /\ OpAt'
    BY <2>2, <1>3, <1>4, <1>12, <1>7
  <2>4. DiskAt'
    BY <1>1, <1>2, <1>3, <1>5, <2>1, <2>2, <2>3, <1>4, <1>9, <1>10, <1>12 DEF DiskAt, Committed, Exist, Publishing
  <2> QED
    BY <2>3, <2>4 DEF CInv
<1>13. CASE pc = "wMvBak"
  <2>1. /\ disk' \in {disk, Move("bakTmp", "bak")}
        /\ (pc' = "wMarkTmp" /\ disk' = Move("bakTmp", "bak")) \/ pc' = "wFail"
    BY <1>13 DEF PublishStep, Rename, Call
  <2>2. /\ disk'["primary"] = disk["primary"]
        /\ disk'["marker"] = disk["marker"]
        /\ disk'["tmp"] = disk["tmp"]
        /\ pc' = "wMarkTmp" => disk'["bak"] = op.prev
    BY <2>1, <1>2, <1>3, <1>4, <1>9, <1>10, <1>13, Calls, <1>1
  <2>3. View' = View /\ Durable' /\ OpAt'
    BY <2>2, <1>3, <1>4, <1>13, <1>7
  <2>4. DiskAt'
    BY <1>1, <1>2, <1>3, <1>5, <2>1, <2>2, <2>3, <1>4, <1>9, <1>10, <1>13 DEF DiskAt, Committed, Exist, Publishing
  <2> QED
    BY <2>3, <2>4 DEF CInv
<1>14. CASE pc = "wMarkTmp"
  <2>1. /\ disk' \in {disk, Put("markerTmp", NewMarker), Put("markerTmp", Torn)}
        /\ (pc' = "wDelMark" /\ disk' = Put("markerTmp", NewMarker)) \/ pc' = "wFailMarked"
    BY <1>14 DEF PublishStep, Write, Call
  <2>2. /\ disk'["primary"] = disk["primary"]
        /\ disk'["marker"] = disk["marker"]
        /\ disk'["bak"] = disk["bak"]
        /\ disk'["tmp"] = disk["tmp"]
        /\ pc' = "wDelMark" => disk'["markerTmp"] = NewMarker
    BY <2>1, <1>2, <1>3, <1>4, <1>9, <1>10, <1>14
  <2>3. View' = View /\ Durable' /\ OpAt'
    BY <2>2, <1>3, <1>4, <1>14, <1>7
  <2>4. DiskAt'
    BY <1>1, <1>2, <1>3, <1>5, <2>1, <2>2, <2>3, <1>4, <1>9, <1>10, <1>14 DEF DiskAt, Committed, Exist, Publishing
  <2> QED
    BY <2>3, <2>4 DEF CInv
<1>15. CASE pc = "wDelMark"
  <2>1. /\ disk' \in {disk, Del("marker")}
        /\ (pc' = "wMvMark" /\ disk' = Del("marker")) \/ pc' = "wFailMarked"
    BY <1>15 DEF PublishStep, Delete, Call
  <2>2. /\ disk'["primary"] = disk["primary"]
        /\ disk'["bak"] = disk["bak"]
        /\ disk'["tmp"] = disk["tmp"]
        /\ disk'["markerTmp"] = disk["markerTmp"]
        /\ disk'["marker"] \in {disk["marker"], Absent}
    BY <2>1, <1>2, <1>3, <1>4, <1>9, <1>10, <1>15
  <2>3. View' = View /\ Durable' /\ OpAt'
    BY <2>2, <1>3, <1>4, <1>15, <1>7
  <2>4. DiskAt'
    BY <1>1, <1>2, <1>3, <1>5, <2>1, <2>2, <2>3, <1>4, <1>9, <1>10, <1>15 DEF DiskAt, Committed, Exist, Publishing
  <2> QED
    BY <2>3, <2>4 DEF CInv
<1>16. CASE pc = "wMvMark"
  <2>1. /\ disk' \in {disk, Move("markerTmp", "marker")}
        /\ (pc' \in {"wDelPrimary", "wMvPrimary"} /\ disk' = Move("markerTmp", "marker")) \/ pc' = "wFailMarked"
    BY <1>16 DEF PublishStep, Rename, Call
  <2>2. /\ disk'["primary"] = disk["primary"]
        /\ disk'["bak"] = disk["bak"]
        /\ disk'["tmp"] = disk["tmp"]
        /\ disk'["marker"] \in {disk["marker"], NewMarker}
        /\ pc' # "wFailMarked" => disk'["marker"] = NewMarker
    BY <2>1, <1>2, <1>3, <1>4, <1>9, <1>10, <1>16, Calls, <1>1
  <2>3. View' = View /\ Durable' /\ OpAt'
    BY <2>2, <1>3, <1>4, <1>16, <1>7, <1>8
  <2>4. DiskAt'
    BY <1>1, <1>2, <1>3, <1>5, <2>1, <2>2, <2>3, <1>4, <1>9, <1>10, <1>16 DEF DiskAt, Committed, Exist, Publishing
  <2> QED
    BY <2>3, <2>4 DEF CInv
<1>17. CASE pc = "wDelPrimary"
  <2>1. /\ disk' \in {disk, Del("primary")}
        /\ (pc' = "wMvPrimary" /\ disk' = Del("primary")) \/ pc' = "wFailMarked"
    BY <1>17 DEF PublishStep, Delete, Call
  <2>2. /\ disk'["marker"] = disk["marker"]
        /\ disk'["bak"] = disk["bak"]
        /\ disk'["tmp"] = disk["tmp"]
    BY <2>1, <1>2, <1>3, <1>4, <1>9, <1>10, <1>17
  <2>3. View' = View /\ Durable' /\ OpAt'
    BY <2>2, <1>3, <1>4, <1>17, <1>8
  <2>4. DiskAt'
    BY <1>1, <1>2, <1>3, <1>5, <2>1, <2>2, <2>3, <1>4, <1>9, <1>10, <1>17 DEF DiskAt, Committed, Exist, Publishing
  <2> QED
    BY <2>3, <2>4 DEF CInv
<1>18. CASE pc = "wMvPrimary"
  <2>1. /\ disk' \in {disk, Move("tmp", "primary")}
        /\ (pc' = "saveMeta" /\ disk' = Move("tmp", "primary")) \/ pc' = "wFailMarked"
    BY <1>18 DEF PublishStep, Rename, Call
  <2>2. /\ disk'["marker"] = disk["marker"]
        /\ disk'["bak"] = disk["bak"]
        /\ pc' = "saveMeta" => disk'["primary"] = op.target
    BY <2>1, <1>2, <1>3, <1>4, <1>9, <1>10, <1>18, Calls, <1>1
  <2>3. View' = View /\ Durable' /\ OpAt'
    BY <2>2, <1>3, <1>4, <1>18, <1>8
  <2>4. DiskAt'
    BY <1>1, <1>2, <1>3, <1>5, <2>1, <2>2, <2>3, <1>4, <1>9, <1>10, <1>18 DEF DiskAt, Committed, Exist, Publishing
  <2> QED
    BY <2>3, <2>4 DEF CInv
<1> QED
  BY <1>1, <1>11, <1>12, <1>13, <1>14, <1>15, <1>16, <1>17, <1>18

LEMMA CAttemptFailed ==
  ASSUME CInv, TInv, TInv', AttemptFailed
  PROVE  CInv' /\ View' = View
<1>1. /\ UNCHANGED <<meta, cache, dirty, acked, nextToken>> /\ op' = op
      /\ pc \in {"wFail", "wFailMarked"} /\ DiskTyped(disk)
      /\ pc' = (IF pc = "wFail" THEN "retry" ELSE "rollbackAttempt")
  BY DEF AttemptFailed, TInv, Call
<1>2. /\ Durable /\ OpAt
      /\ pc = "wFail" => disk["primary"] = (IF Exist THEN View ELSE Absent)
      /\ pc = "wFailMarked" /\ op.before # NoTable => disk["bak"] = op.prev
  BY <1>1 DEF CInv, DiskAt
<1> DEFINE both == [Del("tmp") EXCEPT !["bakTmp"] = Absent]
<1>3. disk' \in {disk, both, Del("tmp"), Del("bakTmp")}
  BY DEF AttemptFailed, Call
<1>4. \A f \in {"primary", "bak", "marker"} :
        Del("tmp")[f] = disk[f] /\ Del("bakTmp")[f] = disk[f] /\ both[f] = disk[f]
  BY <1>1 DEF Del, DiskTyped, Files, DataFiles, MarkFiles
<1>5. \A f \in {"primary", "bak", "marker"} : disk'[f] = disk[f]
  BY <1>3, <1>4
<1>6. Marked(disk') /\ StandsFor(disk', meta, View)
  BY <1>2, <1>5, StandsSame DEF Durable, Marked
<1>7. View' = View /\ Durable'
  BY <1>1, <1>2, <1>6, DiskStep
<1>8. OpAt'
  BY <1>1, <1>2, <1>7, PublishOp DEF Publishing
<1>9. DiskAt'
  BY <1>1, <1>2, <1>5, <1>7 DEF DiskAt, Committed, Exist
<1> QED
  BY <1>7, <1>8, <1>9 DEF CInv

LEMMA CCommitStep ==
  ASSUME CInv, TInv, TInv', CommitStep
  PROVE  CInv' /\ View' = View
<1>1. /\ UNCHANGED <<meta, cache, dirty, acked, nextToken>> /\ op' = op
      /\ pc \in {"cMarkTmp", "cDelMark", "cMvMark"} /\ DiskTyped(disk)
      /\ op \in Operation /\ op.target \in Content /\ op.k = "okDone"
  BY DEF CommitStep, TInv, Where, Committing
<1>2. /\ Durable /\ View = op.target /\ Exist /\ TokenOf(meta) = op.token
      /\ op.prevToken < op.token /\ op.from \in op.acked /\ op.acked \subseteq acked
      /\ disk["primary"] = op.target /\ Known /\ op.todo = CommittedArtifacts
      /\ pc \in {"cDelMark", "cMvMark"}
           => disk["markerTmp"] = [NewMarker EXCEPT !.phase = "committed"]
  BY <1>1 DEF CInv, OpAt, DiskAt, Committed
<1> DEFINE M == [NewMarker EXCEPT !.phase = "committed"]
<1>3. /\ M \in Marker /\ M # Absent
      /\ M.token = op.token /\ M.prevToken = op.prevToken /\ M.target = op.target
  BY <1>1, NewMarkerTyped, StoreAssumption DEF NewMarker
<1>4. M' = M
  BY <1>1 DEF NewMarker
<1> HIDE DEF M
<1>5. /\ disk'["primary"] = disk["primary"]
      /\ disk'["marker"] \in {disk["marker"], Absent, M}
      /\ pc' \in {"cDelMark", "cMvMark"} => disk'["markerTmp"] = M
      /\ pc' \in {"cDelMark", "cMvMark", "clean", "cFail"}
  <2>1. /\ \A f \in Files : /\ \A v : Put(f, v)[f] = v /\ \A g \in Files \ {f} : Put(f, v)[g] = disk[g]
                            /\ Del(f)[f] = Absent /\ \A g \in Files \ {f} : Del(f)[g] = disk[g]
        /\ Files = {"primary", "tmp", "bak", "bakTmp", "marker", "markerTmp"}
    BY <1>1, Calls DEF Files, DataFiles, MarkFiles
  <2>2. CASE pc = "cMarkTmp"
    <3>1. /\ disk' \in {disk, Put("markerTmp", M), Put("markerTmp", Torn)}
          /\ (pc' = "cDelMark" /\ disk' = Put("markerTmp", M)) \/ pc' = "cFail"
      BY <2>2 DEF CommitStep, Write, Call, M
    <3> QED
      BY <2>1, <3>1
  <2>3. CASE pc = "cDelMark"
    <3>1. disk' \in {disk, Del("marker")} /\ pc' \in {"cMvMark", "cFail"}
      BY <2>3 DEF CommitStep, Delete, Call
    <3> QED
      BY <2>1, <3>1, <1>2, <2>3 DEF M
  <2>4. CASE pc = "cMvMark"
    <3>1. disk' \in {disk, Move("markerTmp", "marker")} /\ pc' \in {"clean", "cFail"}
      BY <2>4 DEF CommitStep, Rename, Call
    <3>2. /\ Move("markerTmp", "marker")["marker"] = disk["markerTmp"]
          /\ Move("markerTmp", "marker")["primary"] = disk["primary"]
      BY <1>1, Calls DEF Files, DataFiles, MarkFiles
    <3> QED
      BY <3>1, <3>2, <1>2, <2>4 DEF M
  <2> QED
    BY <1>1, <2>2, <2>3, <2>4
<1>6. Marked(disk') /\ StandsFor(disk', meta, View)
  <2>1. CASE disk'["marker"] = M
    <3>1. /\ View \in Content /\ meta.count = CountOf[View] /\ meta.token >= 1
          /\ TokenOf(meta) = meta.token
      BY <1>2, Evidences
    <3> QED
      BY <2>1, <3>1, <1>2, <1>3, <1>5 DEF StandsFor, Marked, Copy, Exist
  <2>2. CASE disk'["marker"] # M
    BY <2>2, <1>2, <1>5, StandsByPrimary
  <2> QED
    BY <2>1, <2>2
<1>7. View' = View /\ Durable'
  BY <1>1, <1>2, <1>6, DiskStep
<1>8. OpAt'
  BY <1>1, <1>2, <1>5, <1>7
  DEF OpAt, Knows, Exist, Publishing, Committed, Detours, TokenOf
<1>9. (Known)'
  BY <1>1, <1>2, <1>3, <1>5 DEF Known, TokenOf
<1>10. \A i \in 1..Len(CommittedArtifacts) : CommittedArtifacts[i] # "primary"
  BY DEF CommittedArtifacts
<1>11. DiskAt'
  BY <1>1, <1>2, <1>4, <1>5, <1>7, <1>9, <1>10 DEF DiskAt, Committed, Exist, M
<1> QED
  BY <1>7, <1>8, <1>11 DEF CInv

LEMMA CPurge ==
  ASSUME CInv, TInv, TInv', Purge
  PROVE  CInv' /\ View' = View
<1> DEFINE f == Head(op.todo)
           rest == Tail(op.todo)
<1>1. /\ UNCHANGED <<meta, cache, dirty, acked, nextToken>> /\ pc = "purge"
      /\ op \in Operation /\ DOMAIN op = Fields /\ op = [g \in Fields |-> op[g]]
      /\ op.todo \in Seq(Files) /\ op.todo # <<>> /\ DiskTyped(disk)
  BY OpFields DEF Purge, TInv, Where, Operation
<1>2. /\ Durable /\ ~Exist /\ op.from \in op.acked /\ op.acked \subseteq acked
      /\ op.kind = "write" => Before /\ Fresh
      /\ op.kind = "write" /\ ~op.failed =>
           \A g \in Files : disk[g] = Absent \/ \E i \in 1..Len(op.todo) : op.todo[i] = g
  BY <1>1 DEF CInv, OpAt, DiskAt
<1>3. /\ f \in Files /\ Len(op.todo) \in Nat /\ Len(op.todo) >= 1 /\ f = op.todo[1]
      /\ Len(rest) = Len(op.todo) - 1
      /\ \A i \in 1..Len(rest) : rest[i] = op.todo[i + 1]
      /\ rest \in Seq(Files)
  BY <1>1
<1>4. /\ \/ disk' = Del(f) /\ op' = [op EXCEPT !.todo = rest]
         \/ disk' \in {disk, Del(f)} /\ op' = [op EXCEPT !.todo = rest, !.failed = TRUE]
      /\ pc' = (IF rest = <<>> THEN "purged" ELSE "purge")
  BY DEF Purge
<1> HIDE DEF f, rest
<1>5. Del(f)[f] = Absent /\ \A g \in Files \ {f} : Del(f)[g] = disk[g]
  BY <1>1, <1>3, Calls
<1>6. disk'["marker"] \in {disk["marker"], Absent}
  BY <1>4, <1>5 DEF Files, MarkFiles
<1>7. Marked(disk') /\ StandsFor(disk', meta, View)
  BY <1>2, <1>6, StandsByNothing
<1>8. View' = View /\ Durable'
  BY <1>1, <1>2, <1>7, DiskStep
<1>9. /\ op'.from = op.from /\ op'.before = op.before /\ op'.token = op.token
      /\ op'.kind = op.kind /\ op'.acked = op.acked /\ op'.todo = rest
      /\ op'.failed \/ (op'.failed = op.failed /\ disk' = Del(f))
  BY <1>1, <1>4 DEF Fields
<1>10. OpAt'
  BY <1>1, <1>2, <1>4, <1>8, <1>9
  DEF OpAt, Before, Fresh, Exist, Publishing, Committed, Detours, TokenOf
<1>11. ASSUME op.kind = "write", ~op'.failed, NEW g \in Files, disk'[g] # Absent
       PROVE  \E i \in 1..Len(rest) : rest[i] = g
  <2>1. disk[g] # Absent /\ g # f
    BY <1>5, <1>9, <1>11
  <2>2. PICK i \in 1..Len(op.todo) : op.todo[i] = g
    BY <1>2, <1>9, <1>11, <2>1
  <2>3. i # 1
    BY <1>3, <2>1, <2>2
  <2>4. i - 1 \in 1..Len(rest) /\ (i - 1) + 1 = i
    BY <1>3, <2>3
  <2>5. rest[i - 1] = g
    BY <1>3, <2>2, <2>4
  <2> QED
    BY <2>4, <2>5
<1>12. DiskAt'
  BY <1>1, <1>2, <1>4, <1>8, <1>9, <1>11 DEF DiskAt, Committed, Exist
<1> QED
  BY <1>8, <1>10, <1>12 DEF CInv

LEMMA CCrash ==
  ASSUME CInv, TInv, TInv', Crash
  PROVE  CInv' /\ View' = View
<1>1. /\ meta' = meta /\ cache' = meta /\ dirty' = FALSE /\ acked' = acked
      /\ nextToken' = nextToken /\ pc' = "idle" /\ op' = NoOp /\ DiskTyped(disk) /\ Durable
  BY DEF Crash, CInv, TInv
<1>2. \/ disk' = disk
      \/ pc \in {"wTmp", "wBakTmp", "wMarkTmp", "cMarkTmp"}
         /\ \E f \in {"tmp", "bakTmp", "markerTmp"} : disk' = Put(f, Torn)
      \/ pc \in {"restore", "restoreBak"} /\ disk' = Put("primary", Torn)
  <2>1. DOMAIN Writing = {"wTmp", "wBakTmp", "wMarkTmp", "cMarkTmp", "restore", "restoreBak"}
    BY DEF Writing
  <2>2. /\ Writing["wTmp"] = "tmp" /\ Writing["wBakTmp"] = "bakTmp"
        /\ Writing["wMarkTmp"] = "markerTmp" /\ Writing["cMarkTmp"] = "markerTmp"
        /\ Writing["restore"] = "primary" /\ Writing["restoreBak"] = "primary"
    BY DEF Writing
  <2>3. disk' = disk \/ (pc \in DOMAIN Writing /\ disk' = Put(Writing[pc], Torn))
    BY DEF Crash
  <2> QED
    BY <2>1, <2>2, <2>3
<1>3. Marked(disk') /\ StandsFor(disk', meta, View)
  <2>1. CASE disk' = disk
    BY <2>1, <1>1 DEF Durable
  <2>2. CASE \E f \in {"tmp", "bakTmp", "markerTmp"} : disk' = Put(f, Torn)
    <3>1. \A g \in {"primary", "bak", "marker"} : disk'[g] = disk[g]
      BY <2>2, <1>1, Calls DEF Files, DataFiles, MarkFiles
    <3> QED
      BY <3>1, <1>1, StandsSame DEF Durable, Marked
  <2>3. CASE pc \in {"restore", "restoreBak"} /\ disk' = Put("primary", Torn)
    <3>1. /\ disk'["marker"] = disk["marker"] /\ disk'["bak"] = disk["bak"]
          /\ disk'["primary"] = Torn
      BY <2>3, <1>1, Calls DEF Files, DataFiles, MarkFiles
    <3>2. disk["bak"] = View
      BY <2>3 DEF CInv, DiskAt
    <3> QED
      BY <3>1, <3>2, <1>1, StandsByBackup, StoreAssumption
  <2> QED
    BY <1>2, <2>1, <2>2, <2>3
<1>4. View' = View
  BY <1>1, <1>3, DurableKept
<1>5. Durable'
  BY <1>1, <1>3, <1>4 DEF Durable, TokenOf
<1>6. OpAt'
  BY <1>1 DEF OpAt, Publishing, Committed, Detours
<1>7. DiskAt'
  BY <1>1 DEF DiskAt, Committed
<1> QED
  BY <1>4, <1>5, <1>6, <1>7 DEF CInv

-----------------------------------------------------------------------------
(* Steps that change the metadata                                          *)

(* Without a pending mutation the manager and the disk agree.              *)
LEMMA CachedIsDurable ==
  ASSUME Durable, Calm, pc \notin {"undoMeta", "undropMeta"}
  PROVE  cache = meta
  BY DEF Durable, Calm, Settled

(* The record that names the published generation is the one that holds,   *)
(* if it is there.                                                         *)
LEMMA StandsByTarget ==
  ASSUME TInv, Fresh, op.target \in Content, Marked(disk),
         disk["marker"] = NewMarker, disk["primary"] = op.target
  PROVE  StandsFor(disk, New, op.target)
<1>1. NewMarker \in Marker /\ op \in Operation
  BY NewMarkerTyped DEF TInv
<1>2. NewMarker # Absent
  BY <1>1, StoreAssumption
<1>3. NewMarker.token = op.token /\ NewMarker.target = op.target
  BY DEF NewMarker
<1>4. New \in Meta /\ New.token = op.token /\ New.count = CountOf[op.target]
  BY <1>1, StoreAssumption DEF New, Meta, Operation
<1>5. New.token >= 1
  BY <1>1, <1>4 DEF Fresh
<1>6. New # NoTable
  BY <1>4, StoreAssumption
<1> QED
  BY <1>2, <1>3, <1>4, <1>5, <1>6 DEF StandsFor, Copy

LEMMA NewToken ==
  ASSUME TInv, Fresh, op.target \in Content
  PROVE  /\ New \in Meta /\ New # NoTable /\ TokenOf(New) = op.token
         /\ op.token \in Nat /\ op.token < nextToken /\ op.token >= 1
         /\ TokenOf(op.before) \in Nat /\ TokenOf(op.before) < nextToken
<1>1. op \in Operation /\ nextToken \in Nat
  BY DEF TInv, VarsOK
<1>2. /\ op.token \in Nat /\ op.token < nextToken /\ op.token >= 1
  BY <1>1 DEF Fresh, Operation
<1>3. New \in Meta /\ New.token = op.token
  BY <1>1, StoreAssumption DEF New, Meta, Operation
<1>4. New # NoTable
  BY <1>3, StoreAssumption
<1>5. TokenOf(New) = op.token
  BY <1>3, <1>4 DEF TokenOf
<1>6. TokenOf(op.before) \in Nat
  BY <1>1 DEF TokenOf, Operation, Meta
<1>7. TokenOf(op.before) < nextToken
  BY <1>1, <1>2, <1>6 DEF Fresh
<1> QED
  BY <1>2, <1>3, <1>4, <1>5, <1>6, <1>7

LEMMA CSaveMeta ==
  ASSUME CInv, TInv, TInv', Calm, SaveMeta
  PROVE  CInv' /\ View' \in {op.from, op.target}
<1>1. /\ disk' = disk /\ op' = op /\ acked' = acked /\ nextToken' = nextToken
      /\ pc = "saveMeta" /\ op \in Operation /\ op.target \in Content
  BY DEF SaveMeta, TInv, Where, Committing
<1>2. /\ Durable /\ Writes /\ op.from \in op.acked /\ op.acked \subseteq acked
      /\ op.prev = (IF op.before = NoTable THEN Absent ELSE op.from)
      /\ disk["primary"] = op.target /\ disk["marker"] = NewMarker
      /\ op.before # NoTable => disk["bak"] = op.prev
  BY <1>1 DEF CInv, OpAt, DiskAt
<1>3. cache = meta
  BY <1>1, <1>2, CachedIsDurable
<1>4. /\ Before /\ Fresh /\ op.target \in acked /\ op.prevToken = TokenOf(meta)
      /\ View \in acked /\ Marked(disk) /\ StandsFor(disk, meta, View)
  BY <1>2 DEF Writes, Durable
<1>5. /\ New \in Meta /\ New # NoTable /\ TokenOf(New) = op.token
      /\ op.token \in Nat /\ op.token < nextToken /\ op.token >= 1
      /\ TokenOf(op.before) \in Nat /\ TokenOf(op.before) < nextToken
  BY <1>1, <1>4, NewToken
<1>6. StandsFor(disk, New, op.target)
  BY <1>1, <1>2, <1>4, StandsByTarget
<1>7. \/ /\ cache' = New /\ meta' = New /\ dirty' = FALSE /\ pc' = "startCommit"
      \/ /\ cache' = New /\ meta' \in {meta, New} /\ dirty' = TRUE /\ pc' = "undoMeta"
      \/ /\ cache' = cache /\ meta' = meta /\ dirty' = dirty /\ pc' = "undoMeta"
         /\ op.before = NoTable
  <2>1. cache # NoTable => Merge(cache, op.token, CountOf[op.target]) = New
    BY <1>5 DEF Merge, New
  <2>2. New = [token |-> op.token, count |-> CountOf[op.target]]
    BY DEF New
  <2> HIDE DEF New
  <2> QED
    BY <2>1, <2>2 DEF SaveMeta, Save
<1>8. NewMarker' = NewMarker /\ New' = New
  BY <1>1 DEF NewMarker, New
<1>9. /\ View' \in acked /\ StandsFor(disk', meta', View') /\ Marked(disk')
      /\ TokenOf(meta') < nextToken
      /\ View' \in {op.from, op.target} /\ (meta' = New => View' = op.target)
  <2>1. CASE meta' = New
    <3>1. View' = op.target
      BY <2>1, <1>1, <1>4, <1>6, DurableKept
    <3> QED
      BY <2>1, <3>1, <1>1, <1>4, <1>5, <1>6
  <2>2. CASE meta' = meta /\ meta # New
    <3>1. View' = View
      BY <2>2, <1>1, ViewKept
    <3> QED
      BY <2>2, <3>1, <1>1, <1>2, <1>4 DEF Durable, Before
  <2> QED
    BY <1>7, <2>1, <2>2
<1>10. Durable'
  BY <1>1, <1>3, <1>7, <1>9 DEF Durable, TokenOf
<1>11. op.before = meta /\ op.from = View /\ op.prevToken < op.token /\ op.prevToken = TokenOf(op.before)
  BY <1>4 DEF Before, Fresh
<1>12. OpAt'
  <2>1. CASE pc' = "startCommit"
    <3>1. View' = op.target /\ Exist' /\ TokenOf(meta') = op.token
      BY <2>1, <1>5, <1>7, <1>9 DEF Exist
    <3> QED
      BY <2>1, <3>1, <1>1, <1>2, <1>11 DEF OpAt, Publishing, Committed, Detours, TokenOf
  <2>2. CASE pc' = "undoMeta"
    <3>1. Fresh'
      BY <1>1, <1>4 DEF Fresh, TokenOf
    <3>2. /\ op'.from \in op'.acked /\ op'.acked \subseteq acked'
          /\ op'.prev = (IF op'.before = NoTable THEN Absent ELSE op'.from)
          /\ op'.prevToken = TokenOf(op'.before) /\ op'.target \in acked'
          /\ meta' \in {op'.before, New'}
          /\ cache' = New' \/ (op'.before = NoTable /\ cache' = NoTable)
      BY <1>1, <1>2, <1>3, <1>4, <1>7, <1>8, <1>11, <2>2
    <3> QED
      BY <2>2, <3>1, <3>2 DEF OpAt, Publishing, Committed, Detours, TokenOf
  <2> QED
    BY <1>7, <2>1, <2>2
<1>13. DiskAt'
  <2>1. CASE pc' = "startCommit"
    <3>1. (Known)'
      BY <2>1, <1>1, <1>2, <1>5, <1>7 DEF Known, NewMarker, TokenOf
    <3> QED
      BY <2>1, <3>1, <1>1, <1>2 DEF DiskAt, Committed
  <2>2. CASE pc' = "undoMeta"
    BY <2>2, <1>1, <1>2, <1>4, <1>8, <1>11 DEF DiskAt, Committed, StandsFor, Copy
  <2> QED
    BY <1>7, <2>1, <2>2
<1> QED
  BY <1>9, <1>10, <1>12, <1>13 DEF CInv

LEMMA CUndoMeta ==
  ASSUME CInv, TInv, TInv', Calm', UndoMeta
  PROVE  CInv' /\ View' \in {op.from, op.target}
<1>1. /\ disk' = disk /\ op' = op /\ acked' = acked /\ nextToken' = nextToken
      /\ pc = "undoMeta" /\ op \in Operation /\ op.target \in Content
      /\ op.before \in Meta \cup {NoTable} /\ nextToken \in Nat
  BY DEF UndoMeta, TInv, VarsOK, Where, Committing, Operation
<1>2. /\ Durable /\ Fresh /\ op.from \in op.acked /\ op.acked \subseteq acked
      /\ op.prev = (IF op.before = NoTable THEN Absent ELSE op.from)
      /\ cache = New \/ (op.before = NoTable /\ cache = NoTable)
      /\ disk["primary"] = op.target /\ disk["marker"] = NewMarker
      /\ op.before # NoTable => disk["bak"] = op.prev
      /\ StandsFor(disk, op.before, op.from)
  BY <1>1 DEF CInv, OpAt, DiskAt
<1>3. /\ New \in Meta /\ New # NoTable
      /\ TokenOf(op.before) \in Nat /\ TokenOf(op.before) < nextToken
  BY <1>1, <1>2, NewToken
<1>4. Restored(op.before) = op.before
  <2>1. CASE op.before = NoTable
    BY <2>1 DEF Restored
  <2>2. CASE op.before # NoTable
    <3>1. /\ op.before \in Meta /\ op.before.token >= 1 /\ cache \in Meta /\ cache # NoTable
      BY <1>1, <1>2, <1>3, <2>2 DEF StandsFor
    <3>2. op.before.token \in Nat /\ op.before.token # 0
      BY <3>1 DEF Meta
    <3>3. Restored(op.before) = Merge(cache, op.before.token, op.before.count)
      BY <3>1, <2>2 DEF Restored
    <3>4. Restored(op.before) = [token |-> op.before.token, count |-> op.before.count]
      BY <3>2, <3>3 DEF Merge
    <3> QED
      BY <3>1, <3>4 DEF Meta
  <2> QED
    BY <2>1, <2>2
<1>5. /\ cache' = op.before
      /\ \/ meta' = op.before /\ dirty' = FALSE /\ pc' = "rollbackPending"
         \/ dirty' = TRUE /\ pc' = "failed"
  BY <1>4 DEF UndoMeta, Save
<1>6. meta' = op.before
  BY <1>5 DEF Calm, Settled
<1>7. Marked(disk') /\ StandsFor(disk', meta', op.from)
  BY <1>1, <1>2, <1>6 DEF Durable
<1>8. View' = op.from
  BY <1>7, DurableKept
<1>9. Durable'
  <2>1. TokenOf(meta') < nextToken'
    BY <1>1, <1>3, <1>6
  <2> QED
    BY <2>1, <1>1, <1>2, <1>5, <1>6, <1>7, <1>8 DEF Durable, TokenOf
<1>10. NewMarker' = NewMarker
  BY <1>1 DEF NewMarker
<1>11. OpAt'
  BY <1>1, <1>2, <1>5, <1>6, <1>8 DEF OpAt, Before, Publishing, Committed, Detours
<1>12. DiskAt'
  BY <1>1, <1>2, <1>5, <1>10 DEF DiskAt, Committed
<1> QED
  BY <1>8, <1>9, <1>11, <1>12 DEF CInv

LEMMA CDropMeta ==
  ASSUME CInv, TInv, TInv', DropMeta
  PROVE  CInv' /\ View' \in {op.from, op.target}
<1>1. /\ disk' = disk /\ op' = op /\ acked' = acked /\ nextToken' = nextToken
      /\ pc = "dropMeta" /\ op \in Operation /\ op.kind = "drop" /\ op.target = Gone /\ nextToken \in Nat
      /\ meta \in Meta \cup {NoTable}
  BY DEF DropMeta, TInv, VarsOK, Where
<1>2. /\ Durable /\ Before /\ op.from \in op.acked /\ op.acked \subseteq acked /\ Gone \in acked
  BY <1>1 DEF CInv, OpAt
<1>3. /\ cache' = NoTable
      /\ \/ meta' = NoTable /\ dirty' = FALSE /\ pc' = "purge"
         \/ meta' \in {meta, NoTable} /\ dirty' = TRUE /\ pc' = "undropMeta"
  BY DEF DropMeta, Save
<1>4. TokenOf(meta) \in Nat /\ TokenOf(meta) < nextToken /\ TokenOf(NoTable) = 0
  BY <1>1, <1>2 DEF Durable, TokenOf, Meta
<1>5. /\ View' \in acked /\ StandsFor(disk', meta', View') /\ Marked(disk')
      /\ TokenOf(meta') < nextToken
      /\ View' \in {Gone, View}
  <2>1. CASE meta' = NoTable
    <3>1. StandsFor(disk', meta', Gone) /\ Marked(disk')
      BY <2>1, <1>1, <1>2 DEF StandsFor, Durable
    <3>2. View' = Gone
      BY <3>1, DurableKept
    <3>3. TokenOf(meta') < nextToken
      BY <2>1, <1>1, <1>4
    <3> QED
      BY <3>1, <3>2, <3>3, <1>2
  <2>2. CASE meta' = meta /\ meta # NoTable
    <3>1. View' = View
      BY <2>2, <1>1, ViewKept
    <3> QED
      BY <2>2, <3>1, <1>1, <1>2 DEF Durable
  <2> QED
    BY <1>3, <2>1, <2>2
<1>6. Durable'
  BY <1>1, <1>3, <1>5 DEF Durable, TokenOf
<1>7. /\ op.before = meta /\ op.from = View /\ StandsFor(disk, meta, View)
      /\ TokenOf(op.before) < nextToken
  BY <1>2, <1>4 DEF Before, Durable
<1>8. OpAt'
  BY <1>1, <1>2, <1>3, <1>7 DEF OpAt, Exist, Publishing, Committed, Detours, TokenOf
<1>9. DiskAt'
  BY <1>1, <1>3, <1>7 DEF DiskAt, Committed, StandsFor, Copy
<1> QED
  BY <1>1, <1>5, <1>6, <1>7, <1>8, <1>9 DEF CInv

LEMMA CUndropMeta ==
  ASSUME CInv, TInv, TInv', Calm', UndropMeta
  PROVE  CInv' /\ View' \in {op.from, op.target}
<1>1. /\ disk' = disk /\ op' = op /\ acked' = acked /\ nextToken' = nextToken
      /\ pc = "undropMeta" /\ op \in Operation
  BY DEF UndropMeta, TInv
<1>2. /\ Durable /\ op.from \in op.acked /\ op.acked \subseteq acked /\ cache = NoTable
      /\ TokenOf(op.before) < nextToken /\ StandsFor(disk, op.before, op.from)
  BY <1>1 DEF CInv, OpAt, DiskAt
<1>3. Restored(op.before) = op.before
  BY <1>2 DEF Restored
<1>4. /\ cache' = op.before
      /\ \/ meta' = op.before /\ dirty' = FALSE /\ pc' = "undone"
         \/ dirty' = TRUE /\ pc' = "failed"
  BY <1>3 DEF UndropMeta, Save
<1>5. meta' = op.before
  BY <1>4 DEF Calm, Settled
<1>6. Marked(disk') /\ StandsFor(disk', meta', op.from)
  BY <1>1, <1>2, <1>5 DEF Durable
<1>7. View' = op.from
  BY <1>6, DurableKept
<1>8. Durable'
  <2>1. TokenOf(meta') < nextToken'
    BY <1>1, <1>2, <1>5
  <2> QED
    BY <2>1, <1>1, <1>2, <1>4, <1>5, <1>6, <1>7 DEF Durable, TokenOf
<1>9. OpAt'
  BY <1>1, <1>2, <1>4, <1>7 DEF OpAt, Knows, Publishing, Committed, Detours
<1>10. DiskAt'
  BY <1>4 DEF DiskAt, Committed
<1> QED
  BY <1>7, <1>8, <1>9, <1>10 DEF CInv

(* The value of the table is replaced, or the replacement undone.          *)
Flips ==
  /\ pc \in {"saveMeta", "undoMeta", "dropMeta", "undropMeta"}
  /\ pc' \notin {"idle", "okDone"} /\ op' = op
  /\ View' \in {op.from, op.target}

(* Steps after which everything an operation relies on is as before.       *)
LEMMA CSame ==
  ASSUME CInv, UNCHANGED <<disk, meta, cache, pc, op, nextToken, acked>>,
         dirty' = dirty \/ cache = meta
  PROVE  CInv' /\ View' = View
<1>1. View' = View
  BY ViewKept
<1>2. Durable'
  BY <1>1 DEF CInv, Durable, TokenOf
<1>3. NewMarker' = NewMarker /\ Exist' = Exist /\ Evidence' = Evidence /\ New' = New
  BY DEF NewMarker, Exist, Evidence, New
<1>4. Before' = Before /\ Fresh' = Fresh /\ Writes' = Writes
  BY <1>1 DEF Before, Fresh, Writes, TokenOf, Exist
<1>5. OpAt'
  BY <1>1, <1>3, <1>4 DEF CInv, OpAt, Knows, TokenOf
<1>6. Known' = Known /\ Clear' = Clear /\ Unmarked' = Unmarked /\ Valid("primary")' = Valid("primary")
  BY DEF Known, Clear, Unmarked, Valid, TokenOf
<1>7. DiskAt'
  BY <1>1, <1>3, <1>6 DEF CInv, DiskAt
<1> QED
  BY <1>1, <1>2, <1>5, <1>7 DEF CInv

LEMMA CFlush ==
  ASSUME CInv, TInv, TInv', Calm, Flush
  PROVE  CInv' /\ (View' = View \/ Flips)
<1>1. /\ disk' = disk /\ op' = op /\ acked' = acked /\ nextToken' = nextToken /\ pc' = pc
      /\ cache' = cache /\ meta' = cache /\ dirty' = FALSE /\ dirty = TRUE
  BY DEF Flush, TInv, VarsOK
<1>2. CASE cache = meta
  BY <1>1, <1>2, CSame
<1>3. CASE cache # meta /\ pc = "undoMeta"
  <2>1. /\ op \in Operation /\ op.target \in Content
    BY <1>3 DEF TInv, Where, Committing
  <2>2. /\ Durable /\ Fresh /\ op.from \in op.acked /\ op.acked \subseteq acked /\ op.target \in acked
        /\ op.prev = (IF op.before = NoTable THEN Absent ELSE op.from)
        /\ op.prevToken = TokenOf(op.before)
        /\ cache = New \/ (op.before = NoTable /\ cache = NoTable)
        /\ disk["primary"] = op.target /\ disk["marker"] = NewMarker
        /\ op.before # NoTable => disk["bak"] = op.prev
        /\ StandsFor(disk, op.before, op.from) /\ Marked(disk)
    BY <1>3 DEF CInv, OpAt, DiskAt, Durable
  <2>3. /\ New \in Meta /\ New # NoTable /\ TokenOf(New) = op.token /\ op.token < nextToken
        /\ TokenOf(op.before) < nextToken
    BY <2>1, <2>2, NewToken
  <2>4. NewMarker' = NewMarker /\ New' = New
    BY <1>1 DEF NewMarker, New
  <2>5. /\ View' \in acked /\ View' \in {op.from, op.target} /\ StandsFor(disk', meta', View') /\ Marked(disk')
        /\ TokenOf(meta') < nextToken
    <3>1. CASE cache = New
      <4>1. StandsFor(disk', meta', op.target)
        BY <3>1, <1>1, <2>1, <2>2, StandsByTarget
      <4>2. View' = op.target
        BY <4>1, <1>1, <2>2, DurableKept
      <4> QED
        BY <4>1, <4>2, <3>1, <1>1, <2>2, <2>3
    <3>2. CASE op.before = NoTable /\ cache = NoTable
      <4>1. StandsFor(disk', meta', op.from)
        BY <3>2, <1>1, <2>2
      <4>2. View' = op.from
        BY <4>1, <1>1, <2>2, DurableKept
      <4> QED
        BY <4>1, <4>2, <3>2, <1>1, <2>2, <2>3
    <3> QED
      BY <3>1, <3>2, <2>2
  <2>6. Durable'
    BY <2>5, <1>1 DEF Durable, TokenOf
  <2>7. Fresh'
    BY <1>1, <2>2 DEF Fresh, TokenOf
  <2>8. OpAt'
    BY <1>1, <1>3, <2>2, <2>4, <2>7 DEF OpAt, Publishing, Committed, Detours, TokenOf
  <2>9. DiskAt'
    BY <1>1, <1>3, <2>2, <2>4 DEF DiskAt, Committed
  <2> QED
    BY <2>5, <2>6, <2>8, <2>9, <1>1, <1>3 DEF CInv, Flips
<1>4. CASE cache # meta /\ pc = "undropMeta"
  <2>1. /\ Durable /\ op.from \in op.acked /\ op.acked \subseteq acked /\ cache = NoTable
        /\ TokenOf(op.before) < nextToken /\ StandsFor(disk, op.before, op.from)
        /\ Gone \in acked /\ nextToken \in Nat /\ TokenOf(meta) \in Nat
    BY <1>4 DEF CInv, OpAt, DiskAt, TInv, VarsOK, TokenOf, Meta
  <2>2. StandsFor(disk', meta', Gone) /\ Marked(disk')
    BY <1>1, <2>1 DEF StandsFor, Durable
  <2>3. View' = Gone
    BY <2>2, DurableKept
  <2>4. TokenOf(meta') < nextToken'
    <3>1. TokenOf(meta') = 0 /\ TokenOf(meta) < nextToken
      BY <1>1, <2>1 DEF TokenOf, Durable
    <3> QED
      BY <3>1, <1>1, <2>1
  <2>5. Durable'
    BY <1>1, <2>1, <2>2, <2>3, <2>4 DEF Durable, TokenOf
  <2>6. OpAt'
    BY <1>1, <1>4, <2>1 DEF OpAt, Publishing, Committed, Detours, TokenOf
  <2>7. DiskAt'
    BY <1>1, <1>4, <2>1 DEF DiskAt, Committed
  <2>8. op.target = Gone
    BY <1>4 DEF TInv, Where
  <2> QED
    BY <2>3, <2>5, <2>6, <2>7, <2>8, <1>1, <1>4 DEF CInv, Flips
<1> QED
  BY <1>1, <1>2, <1>3, <1>4 DEF Calm, Settled

LEMMA CInit ==
  ASSUME Init, Calm
  PROVE  CInv
<1>1. /\ TInv /\ pc = "idle" /\ meta = cache /\ nextToken = 2 /\ dirty = FALSE
      /\ DiskTyped(disk) /\ meta \in Meta \cup {NoTable} /\ ~scope.legacy
  BY TInit DEF Init, TInv, VarsOK, Calm
<1>2. \E v : /\ StandsFor(disk, meta, v) /\ acked = {v} /\ disk["marker"] = Absent
             /\ TokenOf(meta) < 2
  <2>1. CASE cache = NoTable /\ disk = [f \in Files |-> Absent] /\ acked = {Gone}
    <3>1. disk["marker"] = Absent
      BY <2>1 DEF Files, MarkFiles
    <3> QED
      BY <2>1, <3>1, <1>1 DEF StandsFor, TokenOf
  <2>2. ASSUME NEW c \in Content, cache = [token |-> 1, count |-> CountOf[c]],
               disk = Found(c, Absent), acked = {c}
        PROVE  /\ StandsFor(disk, meta, c) /\ disk["marker"] = Absent /\ TokenOf(meta) < 2
    <3>1. disk["marker"] = Absent /\ disk["primary"] = c
      BY <2>2 DEF Found, Files, DataFiles, MarkFiles
    <3>2. meta \in Meta /\ meta.token = 1 /\ meta.count = CountOf[c]
      BY <2>2, <1>1, StoreAssumption DEF Meta
    <3>3. meta # NoTable
      BY <3>2, StoreAssumption
    <3> QED
      BY <3>1, <3>2, <3>3 DEF StandsFor, Copy, TokenOf
  <2> QED
    BY <1>1, <2>1, <2>2 DEF Init
<1>3. PICK v : /\ StandsFor(disk, meta, v) /\ acked = {v} /\ disk["marker"] = Absent
               /\ TokenOf(meta) < 2
  BY <1>2
<1>4. Marked(disk)
  BY <1>3 DEF Marked
<1>5. View = v
  BY <1>1, <1>3, <1>4, ViewIs, ViewUnique
<1>6. Durable
  BY <1>1, <1>3, <1>4, <1>5 DEF Durable
<1>7. OpAt /\ DiskAt
  BY <1>1 DEF OpAt, DiskAt, Publishing, Committed, Detours
<1> QED
  BY <1>6, <1>7 DEF CInv

LEMMA CStep ==
  ASSUME CInv, TInv, TInv', Calm, Calm', [Next]_vars
  PROVE  CInv' /\ (View' = View \/ Flips)
<1>1. ~FixCount
  BY DEF CInv, OpAt, FixCount
<1>2. ~AbandonedLands
  BY DEF Calm, AbandonedLands
<1>3. CASE Begin
  <2>1. CInv'
    BY <1>3, CBeginRead, CBeginModify, CBeginWrite, CBeginDrop DEF Begin
  <2>2. View' = View
    BY <1>3, ViewKept DEF Begin, BeginRead, BeginModify, BeginOverwrite, BeginCreate, BeginDrop
  <2> QED
    BY <2>1, <2>2
<1>4. CASE Recover \/ ReadError \/ Closed \/ Failed \/ Undone \/ ReadBody \/ ReadDone
           \/ WriteBody \/ RollbackAttempt \/ Retry \/ RollbackPending \/ StartCommit
           \/ CommitFailed \/ OkDone \/ Purged
  <2>1. CInv'
    BY <1>4, CRecover, CReadError, CClosed, CFailed, CUndone, CReadBody, CReadDone, CWriteBody,
       CRollbackAttempt, CRetry, CRollbackPending, CStartCommit, CCommitFailed, COkDone, CPurged
  <2>2. View' = View
    BY <1>4, ViewKept
    DEF Recover, ReadError, Closed, Failed, Undone, ReadBody, ReadDone, WriteBody,
       RollbackAttempt, Retry, RollbackPending, StartCommit, CommitFailed, OkDone, Purged
  <2> QED
    BY <2>1, <2>2
<1>5. CASE Clean \/ Restore \/ UndoPublish \/ RestoreBak \/ DropBak \/ Attempt \/ AttemptFailed
           \/ CommitStep \/ Purge \/ Crash
  <2>1. Attempt => CInv' /\ View' = View
    BY CStageTarget, CPublishStep DEF Attempt
  <2> QED
    BY <1>5, <2>1, CClean, CRestore, CUndoPublish, CRestoreBak, CDropBak, CAttemptFailed,
       CCommitStep, CPurge, CCrash
<1>6. CASE SaveMeta \/ UndoMeta \/ DropMeta \/ UndropMeta
  <2>1. CInv' /\ View' \in {op.from, op.target}
    BY <1>6, CSaveMeta, CUndoMeta, CDropMeta, CUndropMeta
  <2>2. /\ pc \in {"saveMeta", "undoMeta", "dropMeta", "undropMeta"}
        /\ pc' \notin {"idle", "okDone"} /\ op' = op
    BY <1>6 DEF SaveMeta, UndoMeta, DropMeta, UndropMeta, Save
  <2> QED
    BY <2>1, <2>2 DEF Flips
<1>7. CASE UNCHANGED vars
  BY <1>7, CSame DEF vars
<1> QED
  BY <1>1, <1>2, <1>3, <1>4, <1>5, <1>6, <1>7, CFlush DEF Next, Step

-----------------------------------------------------------------------------
(* The theorems                                                            *)

(* What the invariant says of the properties of the runs.                  *)
LEMMA ConsistentView ==
  ASSUME TInv, Durable
  PROVE  Consistent /\ ViewAcked
<1>1. TypeOK
  BY TInvTypeOK
<1>2. meta # NoTable => meta.count = CountOf[View]
  BY DEF Durable, StandsFor
<1>3. View \in acked
  BY DEF Durable
<1> QED
  BY <1>1, <1>2, <1>3 DEF Consistent, CountAgrees, ViewAcked

LEMMA ReadValue ==
  ASSUME CInv
  PROVE  ReadReturnsView
  BY DEF CInv, OpAt, Knows, ReadReturnsView

(* Files, record and operation belong together: the invariant from which   *)
(* the following theorems derive.                                          *)
THEOREM Inductive == Spec /\ []Calm => [](TInv /\ CInv)
<1>1. Init /\ Calm => TInv /\ CInv
  BY TInit, CInit
<1>2. TInv /\ CInv /\ Calm /\ Calm' /\ [Next]_vars => (TInv /\ CInv)'
  BY TStep, CStep
<1> QED
  BY <1>1, <1>2, PTL DEF Spec

(* The record describes the generation it is published with, at every      *)
(* point of a publication, a rollback, a crash and a recovery (DataWriter, *)
(* SingleFileHandler).                                                     *)
THEOREM ConsistentHolds == Spec /\ []Calm => []Consistent
<1>1. TInv /\ CInv => Consistent
  BY ConsistentView DEF CInv
<1> QED
  BY <1>1, Inductive, PTL

(* The durable state always stands for a generation that a client may      *)
(* observe: an acknowledged write survives, a write that was rolled back   *)
(* does not come back (SingleFileHandler, recoverInterruptedCommit).       *)
THEOREM ViewAckedHolds == Spec /\ []Calm => []ViewAcked
<1>1. TInv /\ CInv => ViewAcked
  BY ConsistentView DEF CInv
<1> QED
  BY <1>1, Inductive, PTL

(* A read returns the generation that the durable state stands for.        *)
THEOREM ReadReturnsViewHolds == Spec /\ []Calm => []ReadReturnsView
<1>1. TInv /\ CInv => ReadReturnsView
  BY ReadValue
<1> QED
  BY <1>1, Inductive, PTL

-----------------------------------------------------------------------------
(* One failing call                                                        *)

(* The table has had tokens from the start, at most one call fails, and no *)
(* deletion misses its deadline.                                           *)
SingleFault == ~scope.legacy /\ scope.faults <= 1 /\ scope.abandoned = 0

Failing == faults >= 1   \* that call has failed

(* The failure that leaves a mutation pending is the only one.             *)
Once ==
  /\ abandoned = {} /\ Settled
  /\ dirty => Failing
  /\ pc = "undropMeta" => Failing
  /\ pc = "undoMeta" => Failing \/ (op.before = NoTable /\ cache = NoTable)

LEMMA OnceCalm == SingleFault /\ Once => Calm
  BY DEF SingleFault, Once, Calm

LEMMA OnceInit == Init => Once
  BY DEF Init, Once, Settled

(* The failing call is spent when a compensation is due.                   *)
LEMMA OnceStep ==
  ASSUME TInv, TInv', CInv, SingleFault, Once, [Next]_vars
  PROVE  Once' /\ SingleFault'
<1>1. /\ scope \in Scope /\ scope' = scope
      /\ Failing => Failing'
      /\ Fault => ~Failing /\ Failing'
  <2>1. scope' = scope
    BY Counted
  <2>2. faults' = faults \/ Fault
    BY Counted
  <2>3. /\ scope \in Scope /\ scope.faults \in Nat /\ faults \in 0..scope.faults
        /\ scope.faults <= 1
    BY DEF TInv, VarsOK, Scope, SingleFault
  <2>4. faults \in Nat
    BY <2>3
  <2>5. Fault => faults = 0 /\ faults' = 1
    BY <2>3 DEF Fault
  <2>6. /\ Failing => Failing'
        /\ Fault => ~Failing /\ Failing'
    BY <2>2, <2>4, <2>5 DEF Failing
  <2> QED
    BY <2>1, <2>3, <2>6
<1>2. SingleFault'
  BY <1>1 DEF SingleFault
<1>3. abandoned' = {}
  <2>1. CASE Purge
    <3>1. Cardinality(abandoned) = 0
      BY FS_EmptySet DEF Once
    <3>2. ~(Cardinality(abandoned) < scope.abandoned)
      BY <3>1 DEF SingleFault
    <3>3. abandoned' = abandoned
      BY <2>1, <3>2 DEF Purge
    <3> QED
      BY <3>3 DEF Once
  <2>2. CASE AbandonedLands
    BY <2>2 DEF Once, AbandonedLands
  <2>3. CASE ~Purge /\ ~AbandonedLands
    BY <2>3
    DEF Once, Next, Step, Begin, vars, Recover, ReadError, Closed, Clean, Restore, UndoPublish, Failed,
    Undone, ReadBody, RestoreBak, DropBak, ReadDone, FixCount, WriteBody, Attempt, AttemptFailed,
    RollbackAttempt, Retry, SaveMeta, UndoMeta, RollbackPending, StartCommit, CommitStep,
    CommitFailed, OkDone, DropMeta, UndropMeta, Purged, BeginRead, BeginModify,
    BeginOverwrite, BeginCreate, BeginDrop, Flush, Crash
  <2> QED
    BY <2>1, <2>2, <2>3
<1> DEFINE Saving == SaveMeta \/ UndoMeta \/ DropMeta \/ UndropMeta \/ Flush \/ Crash
<1>4. ASSUME ~Saving
      PROVE  /\ UNCHANGED <<meta, cache, dirty>>
             /\ \/ pc' = pc /\ op' = op
                \/ pc' = pc /\ pc \notin {"undoMeta", "undropMeta"}
                \/ pc \notin {"undoMeta", "undropMeta"} /\ pc' \notin {"undoMeta", "undropMeta"}
  <2>1. ~FixCount
    BY DEF CInv, OpAt, FixCount
  <2>2. UNCHANGED <<meta, cache, dirty>>
    BY <1>4, <2>1
    DEF Next, Step, Begin, vars, Recover, ReadError, Closed, Clean, Restore, UndoPublish, Failed,
    Undone, ReadBody, RestoreBak, DropBak, ReadDone, WriteBody, Attempt, AttemptFailed,
    RollbackAttempt, Retry, RollbackPending, StartCommit, CommitStep,
    CommitFailed, OkDone, Purge, Purged, BeginRead, BeginModify,
    BeginOverwrite, BeginCreate, BeginDrop, AbandonedLands
  <2>3. op.k \notin {"undoMeta", "undropMeta"}
    BY DEF TInv, Operation
  <2>4. CASE Begin
    BY <2>4 DEF Begin, BeginRead, BeginModify, BeginOverwrite, BeginCreate, BeginDrop, Start
  <2>5. CASE Step
    BY <1>4, <2>1, <2>3, <2>5
    DEF Step, Recover, ReadError, Closed, Clean, Restore, UndoPublish, Failed,
    Undone, ReadBody, RestoreBak, DropBak, ReadDone, WriteBody, Attempt, AttemptFailed,
    RollbackAttempt, Retry, RollbackPending, StartCommit, CommitStep,
    CommitFailed, OkDone, Purge, Purged, Return, StartClean, FailClosed, Rollback, Write, Delete,
    Rename, Call, StageTarget, PublishStep
  <2>6. CASE AbandonedLands \/ UNCHANGED vars
    BY <2>6 DEF AbandonedLands, vars
  <2> QED
    BY <1>4, <2>2, <2>4, <2>5, <2>6 DEF Next
<1>5. CASE ~Saving
  <2>1. /\ dirty' /\ cache' # meta' => pc' \in {"undoMeta", "undropMeta"}
        /\ pc' = "undropMeta" => pc = "undropMeta"
        /\ pc' = "undoMeta" => pc = "undoMeta" /\ op' = op
        /\ dirty' => dirty
    BY <1>4, <1>5 DEF Once, Settled
  <2> QED
    BY <1>1, <1>2, <1>3, <1>4, <1>5, <2>1 DEF Once, Settled
<1>6. CASE SaveMeta
  <2>1. pc = "saveMeta" /\ Before /\ op' = op
    BY <1>6 DEF SaveMeta, CInv, OpAt, Writes
  <2>2. cache = meta
    BY <2>1, CachedIsDurable, OnceCalm DEF CInv
  <2>3. \/ dirty' = FALSE /\ pc' = "startCommit"
        \/ Fault /\ pc' = "undoMeta" /\ dirty' = TRUE
        \/ op.before = NoTable /\ pc' = "undoMeta" /\ UNCHANGED <<meta, cache, dirty, faults>>
    BY <1>6 DEF SaveMeta, Save
  <2>4. op.before = cache
    BY <2>1, <2>2 DEF Before
  <2> QED
    BY <1>1, <1>2, <1>3, <2>1, <2>2, <2>3, <2>4 DEF Once, Settled
<1>7. CASE UndoMeta
  <2>1. pc = "undoMeta" /\ op' = op /\ cache' = Restored(op.before)
        /\ \/ dirty' = FALSE /\ pc' = "rollbackPending"
           \/ Fault /\ meta' \in {meta, cache'} /\ dirty' = TRUE /\ pc' = "failed"
    BY <1>7 DEF UndoMeta, Save
  <2>2. CASE Fault
    <3>1. ~Failing /\ Failing' /\ dirty = FALSE
      BY <2>2, <1>1 DEF Once, TInv, VarsOK
    <3>2. cache = meta /\ op.before = NoTable /\ cache = NoTable
      BY <2>1, <3>1 DEF Once, CInv, Durable
    <3>3. cache' = NoTable
      BY <2>1, <3>2 DEF Restored
    <3> QED
      BY <1>1, <1>2, <1>3, <2>1, <3>1, <3>2, <3>3 DEF Once, Settled
  <2>3. CASE ~Fault
    BY <1>1, <1>2, <1>3, <2>1, <2>3 DEF Once, Settled
  <2> QED
    BY <2>2, <2>3
<1>8. CASE DropMeta
  <2>1. \/ dirty' = FALSE /\ pc' = "purge"
        \/ Fault /\ pc' = "undropMeta" /\ dirty' = TRUE
    BY <1>8 DEF DropMeta, Save
  <2> QED
    BY <1>1, <1>2, <1>3, <2>1 DEF Once, Settled
<1>9. CASE UndropMeta
  <2>1. \/ dirty' = FALSE /\ pc' = "undone"
        \/ Fault
    BY <1>9 DEF UndropMeta, Save
  <2>2. ~Fault
    BY <1>1, <1>9 DEF Once, UndropMeta
  <2> QED
    BY <1>1, <1>2, <1>3, <2>1, <2>2 DEF Once, Settled
<1>10. CASE Flush \/ Crash
  BY <1>1, <1>2, <1>3, <1>10 DEF Flush, Crash, Once, Settled
<1> QED
  BY <1>2, <1>5, <1>6, <1>7, <1>8, <1>9, <1>10

(* With one failing call, and any number of kills, no mutation outlives    *)
(* its operation: the compensation of a failed save is itself saved.       *)
THEOREM OneFailingCall == Spec /\ SingleFault => []Calm
<1> DEFINE Inv == TInv /\ CInv /\ Once /\ SingleFault
<1>1. Init /\ SingleFault => Inv
  BY TInit, CInit, OnceInit, OnceCalm
<1>2. Inv /\ [Next]_vars => Inv'
  <2>1. SUFFICES ASSUME Inv, [Next]_vars PROVE Inv'
    OBVIOUS
  <2>2. TInv'
    BY <2>1, TStep
  <2>3. Once' /\ SingleFault'
    BY <2>1, <2>2, OnceStep
  <2>4. Calm /\ Calm'
    BY <2>1, <2>3 DEF Calm, Once, SingleFault
  <2>5. CInv'
    BY <2>1, <2>2, <2>4, CStep
  <2> QED
    BY <2>2, <2>3, <2>5
<1>3. Inv => Calm
  BY OnceCalm
<1> QED
  BY <1>1, <1>2, <1>3, PTL DEF Spec

(* Hence, whatever single call fails, and however often the process is     *)
(* killed, the three properties hold.                                      *)
COROLLARY OneFailingCallIsSafe ==
  Spec /\ SingleFault => []Consistent /\ []ViewAcked /\ []ReadReturnsView
  BY OneFailingCall, ConsistentHolds, ViewAckedHolds, ReadReturnsViewHolds, PTL

-----------------------------------------------------------------------------
(* The table as an atomic value                                            *)

(* The state of AtomicTable that ImplementsAtomicTable maps this one to.   *)
Table == IF scope.legacy THEN Gone ELSE View
CallOf ==
  LET idle == pc = "idle" \/ scope.legacy
      view == IF scope.legacy THEN Gone ELSE View
  IN [status |-> CASE idle -> "idle" [] ~idle /\ pc = "okDone" -> "ok" [] OTHER -> "running",
      from |-> IF idle THEN view ELSE op.from,
      to |-> IF idle THEN view ELSE IF op.target = Absent THEN op.from ELSE op.target]

(* What the running operation writes; what it found, if it only reads.     *)
Goal == IF op.target = Absent THEN op.from ELSE op.target

(* The abstract state, by program counter.                                 *)
LEMMA Mapped ==
  ASSUME ~scope.legacy
  PROVE  /\ Table = View
         /\ pc = "idle" => CallOf = [status |-> "idle", from |-> View, to |-> View]
         /\ pc = "okDone" => CallOf = [status |-> "ok", from |-> op.from, to |-> Goal]
         /\ pc \notin {"idle", "okDone"} =>
              CallOf = [status |-> "running", from |-> op.from, to |-> Goal]
<1>1. CASE pc = "idle"
  BY <1>1 DEF Table, CallOf
<1>2. CASE pc = "okDone"
  BY <1>2 DEF Table, CallOf, Goal
<1>3. CASE pc \notin {"idle", "okDone"}
  BY <1>3 DEF Table, CallOf, Goal
<1> QED
  BY <1>1, <1>2, <1>3

(* How a step changes the program counter and the operation.               *)
Starts == pc = "idle" /\ pc' \notin {"idle", "okDone"} /\ op'.from = View
Reports == pc # "idle" /\ pc' = "idle"
GoesOn == /\ pc \notin {"idle", "okDone"} /\ pc' # "idle"
          /\ op'.from = op.from /\ op'.target = op.target
Decides == /\ pc \notin {"idle", "okDone"} /\ pc' \notin {"idle", "okDone"}
           /\ op'.from = op.from /\ op.target = Absent
Stays == pc' = pc /\ (pc = "idle" \/ op' = op)

LEMMA Progress ==
  ASSUME CInv, TInv, TInv', [Next]_vars
  PROVE  Starts \/ Reports \/ GoesOn \/ Decides \/ Stays
<1>0. /\ op \in Operation /\ DOMAIN op = Fields /\ op = [f \in Fields |-> op[f]]
      /\ op.k \in {"idle", "readBody", "writeBody", "readDone", "wTmp", "retry", "undone", "okDone"}
  BY OpFields DEF TInv, Operation
<1>1. CASE BeginRead \/ BeginModify \/ BeginOverwrite \/ BeginCreate \/ BeginDrop
  <2>1. \A r, next : Start(r, next) /\ r \in Operation =>
                       pc = "idle" /\ pc' = next /\ op'.from = View
    BY NewOperation
  <2>2. PICK r, next : Start(r, next) /\ next \in {"recover", "purge", "dropMeta"}
    BY <1>1 DEF BeginRead, BeginModify, BeginOverwrite, BeginCreate, BeginDrop
  <2>3. op' = [r EXCEPT !.before = cache, !.acked = acked, !.from = View] /\ pc = "idle" /\ pc' = next
    BY <2>2 DEF Start
  <2>4. op' \in Operation
    BY DEF TInv
  <2>5. DOMAIN op' = Fields
    BY <2>4, OpFields
  <2>6. "from" \in DOMAIN r
    BY <2>3, <2>5 DEF Fields
  <2>7. op'.from = View
    BY <2>3, <2>6
  <2> QED
    BY <2>2, <2>3, <2>7 DEF Starts
<1>2. CASE ReadError \/ Closed \/ Failed \/ Undone \/ OkDone
  BY <1>2 DEF ReadError, Closed, Failed, Undone, OkDone, Return, Reports
<1>3. CASE Crash
  BY <1>3 DEF Crash, Reports, Stays
<1>4. CASE Restore \/ UndoPublish \/ RestoreBak \/ DropBak \/ AttemptFailed \/ SaveMeta
           \/ UndoMeta \/ CommitStep \/ DropMeta \/ UndropMeta \/ Purged
           \/ (Attempt /\ PublishStep)
  <2>1. op' = op
    BY <1>4
    DEF Restore, UndoPublish, RestoreBak, DropBak, AttemptFailed, SaveMeta, UndoMeta, CommitStep,
       DropMeta, UndropMeta, Purged, PublishStep
  <2>2. pc \in {"undoPublish", "dropBak"} => op.k # "idle"
    BY DEF TInv, Where
  <2>3. pc \notin {"idle", "okDone"} /\ pc' # "idle"
    BY <1>4, <2>2
    DEF Restore, UndoPublish, RestoreBak, DropBak, AttemptFailed, SaveMeta, UndoMeta, CommitStep,
       DropMeta, UndropMeta, Purged, PublishStep, Write, Delete, Rename, Call, Save
  <2> QED
    BY <2>1, <2>3 DEF GoesOn
<1>5. CASE Recover
  <2>1. SameOperation /\ op'.k = op.k /\ pc' \in {op.k, "closed", "clean", "restore"}
    BY <1>5, <1>0, RecoverOutcome, DetourFields
  <2>2. pc = "recover" /\ op.k # "idle"
    BY <1>5 DEF Recover, TInv, Where
  <2> QED
    BY <2>1, <2>2 DEF GoesOn, SameOperation
<1>6. CASE RollbackAttempt \/ RollbackPending \/ CommitFailed
  <2>1. /\ pc \in {"rollbackAttempt", "rollbackPending", "cFail"}
        /\ \/ op' = op /\ pc' \in {"closed", "okDone", "failed"}
           \/ /\ pc' \in {"restore", "undoPublish", "restoreBak"}
              /\ \E k, todo :
                   \/ op' = [op EXCEPT !.k = k, !.todo = todo]
                   \/ op' = [op EXCEPT !.k = k]
    BY <1>6 DEF RollbackAttempt, RollbackPending, CommitFailed, Rollback, FailClosed
  <2>2. op'.from = op.from /\ op'.target = op.target
    BY <1>0, <2>1 DEF Fields
  <2> QED
    BY <2>1, <2>2 DEF GoesOn
<1>7. CASE Clean \/ Retry \/ StartCommit
  <2>1. /\ pc \in {"clean", "retry", "startCommit"}
        /\ pc' \in {op.k, "clean", "wTmp", "undone", "closed", "cMarkTmp", "dropBak"}
        /\ pc' = op.k => pc = "clean" \/ op.k # "idle"
        /\ \/ op' = op
           \/ \E todo, k : \/ op' = [op EXCEPT !.todo = todo]
                           \/ op' = [op EXCEPT !.retries = k]
                           \/ op' = [op EXCEPT !.k = k]
                           \/ op' = [op EXCEPT !.todo = todo, !.k = k]
    BY <1>7 DEF Clean, Retry, StartCommit, FailClosed
  <2>2. op'.from = op.from /\ op'.target = op.target
    BY <1>0, <2>1 DEF Fields
  <2>3. pc = "clean" => op.k # "idle"
    BY DEF TInv, Where
  <2> QED
    BY <2>1, <2>2, <2>3 DEF GoesOn
<1>8. CASE ReadBody
  <2>1. /\ pc = "readBody" /\ pc' \in {"readDone", "discard", "closed", "restoreBak"}
        /\ \/ op' = op
           \/ \E v : op' = [op EXCEPT !.val = v] \/ op' = [op EXCEPT !.val = v, !.k = "readDone"]
    BY <1>8 DEF ReadBody, FailClosed
  <2>2. op'.from = op.from /\ op'.target = op.target
    BY <1>0, <2>1 DEF Fields
  <2> QED
    BY <2>1, <2>2 DEF GoesOn
<1>9. CASE WriteBody
  <2>1. /\ pc = "writeBody" /\ pc' \in {"wTmp", "closed", "restoreBak"}
        /\ \/ op' = op
           \/ op' = [op EXCEPT !.prevToken = TokenOf(meta),
                               !.prevCount = IF meta = NoTable THEN 0 ELSE meta.count,
                               !.acked = acked, !.retries = 3, !.k = "wTmp"]
    BY <1>9 DEF WriteBody, FailClosed
  <2>2. op'.from = op.from /\ op'.target = op.target
    BY <1>0, <2>1 DEF Fields
  <2> QED
    BY <2>1, <2>2 DEF GoesOn
<1>10. CASE Attempt /\ StageTarget
  <2>1. /\ pc = "wTmp" /\ pc' \in {"wBakTmp", "wMarkTmp", "wFail"}
        /\ op' = [op EXCEPT !.prev = disk["primary"]]
    BY <1>10 DEF StageTarget, Write, Call
  <2>2. op'.from = op.from /\ op'.target = op.target
    BY <1>0, <2>1 DEF Fields
  <2> QED
    BY <2>1, <2>2 DEF GoesOn
<1>11. CASE Purge
  <2>1. /\ pc = "purge" /\ pc' \in {"purge", "purged"}
        /\ \/ op' = [op EXCEPT !.todo = Tail(op.todo)]
           \/ op' = [op EXCEPT !.todo = Tail(op.todo), !.failed = TRUE]
    BY <1>11 DEF Purge
  <2>2. op'.from = op.from /\ op'.target = op.target
    BY <1>0, <2>1 DEF Fields
  <2> QED
    BY <2>1, <2>2 DEF GoesOn
<1>12. CASE ReadDone
  <2>1. \/ Reports
        \/ pc = "readDone" /\ pc' = "fixCount" /\ op' = op
        \/ /\ pc = "readDone" /\ pc' = "recover" /\ op.kind = "modify"
           /\ \E c \in Content :
                op' = [op EXCEPT !.kind = "write", !.target = c, !.token = nextToken,
                                 !.val = Absent, !.k = "writeBody"]
    BY <1>12 DEF ReadDone, Return, Reports
  <2>2. op.kind = "modify" => op.target = Absent
    BY DEF TInv, Where
  <2>3. pc' = "recover" => op'.from = op.from
    BY <1>0, <2>1 DEF Fields, Reports
  <2> QED
    BY <2>1, <2>2, <2>3 DEF GoesOn, Decides, Reports
<1>13. CASE FixCount
  BY <1>13 DEF FixCount, CInv, OpAt
<1>14. CASE AbandonedLands \/ Flush \/ UNCHANGED vars
  BY <1>14 DEF AbandonedLands, Flush, vars, Stays
<1> QED
  BY <1>1, <1>2, <1>3, <1>4, <1>5, <1>6, <1>7, <1>8, <1>9, <1>10, <1>11, <1>12, <1>13, <1>14
  DEF Next, Begin, Step, Attempt

LEMMA AtomicInit ==
  ASSUME Init, Calm
  PROVE  Atomic!Init
<1>1. /\ ~scope.legacy /\ pc = "idle"
  BY DEF Init, Calm
<1>2. View \in Content \cup {Gone}
  BY TInit, ViewTyped DEF TInv
<1>3. Table \in Content \cup {Gone} /\ CallOf = [status |-> "idle", from |-> Table, to |-> Table]
  BY <1>1, <1>2, Mapped
<1> QED
  BY <1>3 DEF Atomic!Init, Atomic!Idle, Table, CallOf

(* Each kind of step is a step of AtomicTable.                             *)
LEMMA AtomicStep ==
  ASSUME CInv, TInv, TInv', Calm, Calm', [Next]_vars
  PROVE  [Atomic!Next]_<<Table, CallOf>>
<1> DEFINE Values == Content \cup {Gone}
           States == [status: {"idle", "running", "ok"}, from: Values, to: Values]
<1>1. /\ ~scope.legacy /\ ~scope'.legacy
      /\ CInv' /\ (View' = View \/ Flips)
  BY CStep DEF Calm
<1>2. /\ View \in Values /\ View' \in Values
      /\ op.from \in Values /\ op'.from \in Values
      /\ Goal \in Values /\ Goal' \in Values
  <2>1. View \in Values
    BY ViewTyped DEF TInv
  <2>2. (DiskTyped(disk) => View \in Content \cup {Gone})'
    BY ViewTyped, PTL
  <2>3. View' \in Values
    BY <2>2 DEF TInv
  <2> QED
    BY <2>1, <2>3 DEF TInv, Operation, Goal
<1>3. /\ Table = View
      /\ pc = "idle" => CallOf = [status |-> "idle", from |-> View, to |-> View]
      /\ pc = "okDone" => CallOf = [status |-> "ok", from |-> op.from, to |-> Goal]
      /\ pc \notin {"idle", "okDone"} =>
           CallOf = [status |-> "running", from |-> op.from, to |-> Goal]
  BY <1>1, Mapped
<1>4. /\ Table' = View'
      /\ pc' = "idle" => CallOf' = [status |-> "idle", from |-> View', to |-> View']
      /\ pc' = "okDone" => CallOf' = [status |-> "ok", from |-> op'.from, to |-> Goal']
      /\ pc' \notin {"idle", "okDone"} =>
           CallOf' = [status |-> "running", from |-> op'.from, to |-> Goal']
  <2>1. (\/ scope.legacy
         \/ /\ Table = View
            /\ (pc = "idle" => CallOf = [status |-> "idle", from |-> View, to |-> View])
            /\ (pc = "okDone" => CallOf = [status |-> "ok", from |-> op.from, to |-> Goal])
            /\ (pc \notin {"idle", "okDone"} =>
                  CallOf = [status |-> "running", from |-> op.from, to |-> Goal]))'
    BY Mapped, PTL
  <2> QED
    BY <2>1, <1>1
<1>5. /\ Atomic!Begin <=> /\ CallOf.status = "idle"
                          /\ CallOf' \in States /\ CallOf'.status = "running"
                          /\ CallOf'.from = Table /\ Table' = Table
      /\ Atomic!Decide <=> /\ CallOf.status = "running" /\ CallOf.to = CallOf.from
                           /\ CallOf' \in States /\ CallOf'.status = "running"
                           /\ CallOf'.from = CallOf.from /\ Table' = Table
      /\ Atomic!Flip <=> /\ CallOf.status = "running" /\ Table' \in {CallOf.from, CallOf.to}
                         /\ CallOf' = CallOf
      /\ Atomic!Succeed <=> /\ CallOf.status = "running" /\ Table = CallOf.to
                            /\ CallOf' = [CallOf EXCEPT !.status = "ok"] /\ Table' = Table
      /\ Atomic!End <=> /\ CallOf.status # "idle"
                        /\ CallOf' = [status |-> "idle", from |-> Table, to |-> Table]
                        /\ Table' = Table
  BY DEF Atomic!Begin, Atomic!Decide, Atomic!Flip, Atomic!Succeed, Atomic!End, Atomic!Idle,
         Atomic!CallStates, Table, CallOf
<1> HIDE DEF Table, CallOf
<1>6. CASE Flips
  <2>1. pc \notin {"idle", "okDone"} /\ pc' \notin {"idle", "okDone"} /\ op' = op
    BY <1>6 DEF Flips
  <2>2. op.target # Absent
    <3>1. op.kind \in {"write", "drop"}
      BY <1>6 DEF Flips, TInv, Where, Committing
    <3> QED
      BY <3>1, StoreAssumption DEF TInv, Where, Gone
  <2>3. Goal' = Goal /\ Goal = op.target
    BY <2>1, <2>2 DEF Goal
  <2>4. CallOf' = CallOf /\ CallOf.status = "running" /\ View' \in {CallOf.from, CallOf.to}
    BY <1>3, <1>4, <1>6, <2>1, <2>3 DEF Flips
  <2> QED
    BY <1>4, <1>5, <2>4 DEF Atomic!Next
<1>7. CASE View' = View
  <2>1. Starts \/ Reports \/ GoesOn \/ Decides \/ Stays
    BY Progress
  <2>2. CASE Starts
    <3>1. CallOf' \in States
      BY <1>2, <1>4, <2>2 DEF Starts
    <3>2. Atomic!Begin
      BY <1>3, <1>4, <1>5, <1>7, <2>2, <3>1 DEF Starts
    <3> QED
      BY <3>2 DEF Atomic!Next
  <2>3. CASE Reports
    <3>1. CallOf.status # "idle"
      BY <1>3, <2>3 DEF Reports
    <3>2. Atomic!End
      BY <1>3, <1>4, <1>5, <1>7, <2>3, <3>1 DEF Reports
    <3> QED
      BY <3>2 DEF Atomic!Next
  <2>4. CASE GoesOn /\ pc' = "okDone"
    <3>1. Goal' = Goal
      BY <2>4 DEF GoesOn, Goal
    <3>2. View' = op'.target
      BY <1>1, <2>4 DEF CInv, OpAt, Knows
    <3>3. View = Goal
      <4>1. op'.target # Absent
        BY <1>2, <3>2, StoreAssumption DEF Gone
      <4> QED
        BY <1>7, <2>4, <3>2, <4>1 DEF Goal, GoesOn
    <3>4. CallOf' = [CallOf EXCEPT !.status = "ok"]
      BY <1>3, <1>4, <2>4, <3>1 DEF GoesOn
    <3>5. Atomic!Succeed
      BY <1>3, <1>4, <1>5, <1>7, <2>4, <3>3, <3>4 DEF GoesOn
    <3> QED
      BY <3>5 DEF Atomic!Next
  <2>5. CASE GoesOn /\ pc' # "okDone"
    <3>1. Goal' = Goal
      BY <2>5 DEF GoesOn, Goal
    <3> QED
      BY <1>3, <1>4, <1>7, <2>5, <3>1 DEF GoesOn
  <2>6. CASE Decides
    <3>1. CallOf' \in States
      BY <1>2, <1>4, <2>6 DEF Decides
    <3>2. CallOf.to = CallOf.from /\ CallOf.status = "running"
      BY <1>3, <2>6 DEF Decides, Goal
    <3>3. Atomic!Decide
      BY <1>3, <1>4, <1>5, <1>7, <2>6, <3>1, <3>2 DEF Decides
    <3> QED
      BY <3>3 DEF Atomic!Next
  <2>7. CASE Stays
    <3>1. pc # "idle" => Goal' = Goal /\ op'.from = op.from
      BY <2>7 DEF Stays, Goal
    <3> QED
      BY <1>3, <1>4, <1>7, <2>7, <3>1 DEF Stays
  <2> QED
    BY <2>1, <2>2, <2>3, <2>4, <2>5, <2>6, <2>7
<1> QED
  BY <1>1, <1>6, <1>7

(* A table is an atomic value: its initial states are initial states of    *)
(* AtomicTable, and every step is a step of AtomicTable or changes nothing *)
(* that a client can see.                                                  *)
THEOREM ImplementsAtomic ==
  Spec /\ []Calm => Atomic!Init /\ [][Atomic!Next]_<<Table, CallOf>>
<1>1. Init /\ Calm => Atomic!Init
  BY AtomicInit
<1>2. TInv /\ CInv /\ Calm /\ Calm' /\ [Next]_vars => [Atomic!Next]_<<Table, CallOf>>
  BY TStep, AtomicStep
<1> QED
  BY <1>1, <1>2, Inductive, PTL DEF Spec
=============================================================================
