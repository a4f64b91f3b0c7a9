----------------------------- MODULE SqliteChain -----------------------------
(***************************************************************************)
(* The statements of core/adapter/SQLiteStorageAdapter.ts.  All calls      *)
(* share one connection.  A call takes its place in a promise chain        *)
(* (enqueue) for a single statement or for a whole BEGIN..COMMIT           *)
(* (withSqlTransaction), unless a transaction is open: then it goes ahead  *)
(* at once, which is meant for the nested calls of a commit replay but     *)
(* holds for every call that arrives meanwhile.                            *)
(*                                                                         *)
(* One step is one statement, or the code between two awaits.  A row is    *)
(* its id and the call that wrote it; a table maps ids to calls.           *)
(***************************************************************************)
EXTENDS Naturals, Sequences, SequencesExt, FiniteSets, FiniteSetsExt

CONSTANTS
  Tables, Calls,
  Scopes,      \* what the calls of a behaviour do, and its bounds
  NoTable      \* count of a table that is not in the metadata

Kinds == {"append", "overwrite", "modify", "create", "drop", "commit"}

(* kind, target: what a call does, and to which table; ops: what a commit  *)
(* replays; overlap: calls may be made while others are under way;         *)
(* beginFails: BEGIN may be among the failing statements; faults: bound on *)
(* failing statements and metadata saves.                                  *)
Scope == [calls: SUBSET Calls, kind: [Calls -> Kinds], target: [Calls -> Tables],
          ops: Seq([table: Tables, over: BOOLEAN]), existing: SUBSET Tables,
          overlap: BOOLEAN, beginFails: BOOLEAN, faults: Nat]

ASSUME SqliteAssumption ==
  /\ Scopes \subseteq Scope /\ Calls # {}
  /\ NoTable \notin Nat \cup Seq(Calls)

VARIABLES
  scope,      \* the scope of this behaviour
  db,         \* the rows that statements see
  committed,  \* the rows that survive a ROLLBACK
  open,       \* the connection has an open transaction
  depth,      \* sqlTxDepth
  chain,      \* the calls that wait in sqlChain
  task,       \* the call whose task of the chain is under way: at most one
  count,      \* the record count in the metadata
  st,         \* the local state of each call
  faults,
  ghost       \* history: the last call, the tables it found and those it is to leave

vars == <<scope, db, committed, open, depth, chain, task, count, st, faults, ghost>>

(* One sqlWrite that a call has to do: ddl for the creation of a table,    *)
(* counted if a SELECT COUNT gives the new count.                          *)
Write(t, items, over, counted, ddl) ==
  [table |-> t, items |-> items, over |-> over, counted |-> counted, ddl |-> ddl]

Idle == [pc |-> "idle", job |-> "tx", todo |-> <<>>, left |-> <<>>, id |-> 0, got |-> 0,
         outer |-> FALSE, restoring |-> FALSE, snapshot |-> <<>>]

Done(c) == st[c].pc \in {"done", "failed"}
Active(c) == st[c].pc # "idle" /\ ~Done(c)

(* The rows of a table in the order of their ids.                          *)
Rows(f) ==
  LET D == DOMAIN f
  IN  [i \in 1..Cardinality(D) |-> f[CHOOSE k \in D : Cardinality({j \in D : j <= k}) = i]]

(* The call whose task of the chain is under way.                          *)
Own(c) == c \in task
Replay(c) == scope.kind[c] = "commit"
Current(c) == Head(st[c].todo)

Fault == faults < scope.faults /\ faults' = faults + 1

(* The locals of a call die with it.                                       *)
Goto(c, s) ==
  st' = [st EXCEPT ![c] = IF s.pc \in {"done", "failed"} THEN [Idle EXCEPT !.pc = s.pc] ELSE s]

(* A statement changes the rows for good unless a transaction is open.     *)
Exec(d) ==
  /\ db' = d
  /\ committed' = IF open THEN committed ELSE d

NoExec == UNCHANGED <<db, committed>>

-----------------------------------------------------------------------------
(* Control                                                                 *)

First(w) == IF w.over THEN "delete" ELSE "select"

(* What a call does for its next sqlWrite, or at its end.                  *)
NextWrite(s, todo) ==
  [s EXCEPT !.todo = todo, !.job = "tx", !.id = 0, !.got = 0, !.left = <<>>,
            !.pc = IF todo # <<>> THEN "enter"
                   ELSE IF s.outer THEN IF s.restoring THEN "rollback" ELSE "commit"
                   ELSE IF s.restoring THEN "failed" ELSE "ok"]

(* The first step of what was enqueued: a sqlWrite, the replay of a commit *)
(* (whose writes enter one by one), or a single statement.                 *)
Entered(s) ==
  IF s.job = "replay" THEN NextWrite(s, s.todo)
  ELSE [s EXCEPT !.pc = IF s.job = "tx" THEN First(Head(s.todo)) ELSE s.job]

(* The writes that restore the snapshots of a failed commit.               *)
Restores(s) ==
  LET touched == SetToSeq({scope.ops[i].table : i \in DOMAIN scope.ops}) IN
  [i \in DOMAIN touched |-> Write(touched[i], Rows(s.snapshot[touched[i]]), TRUE, FALSE, FALSE)]

(* A call throws; a commit restores its snapshots, whatever else fails.    *)
Throw(c, s) ==
  IF ~Replay(c) THEN [s EXCEPT !.pc = "failed"]
  ELSE IF s.restoring THEN NextWrite(s, Tail(s.todo))
  ELSE NextWrite([s EXCEPT !.restoring = TRUE, !.snapshot = <<>>], Restores(s))

(* The transaction of the current sqlWrite is its own: it is not nested.   *)
OwnTransaction(c, s) == Own(c) /\ s.job = "tx" /\ ~s.outer

(* A statement fails.                                                      *)
Raise(c, s) == IF OwnTransaction(c, s) THEN [s EXCEPT !.pc = "rollback"] ELSE Throw(c, s)

(* withSqlTransaction is over: count the rows, or publish a known count.   *)
AfterTransaction(s) ==
  IF Head(s.todo).counted THEN [s EXCEPT !.job = "count", !.pc = "enter"]
  ELSE [s EXCEPT !.pc = "publish"]

(* sqlWrite is over.                                                       *)
AfterRows(c, s) ==
  IF OwnTransaction(c, s) THEN [s EXCEPT !.pc = "commit", !.id = 0]
  ELSE AfterTransaction([s EXCEPT !.id = 0])

(* A single enqueued statement is over.                                    *)
LeaveChain(c) == task' = IF st[c].outer THEN task ELSE task \ {c}

-----------------------------------------------------------------------------
(* Calls                                                                   *)

(* What is durable: the committed rows of the tables in the metadata.      *)
View == [t \in Tables |-> IF count[t] = NoTable THEN NoTable ELSE Rows(committed[t])]

(* The tables that a call is to leave, from those it finds.                *)
Outcome(c) ==
  LET t == scope.target[c]
      apply(v, op) == [v EXCEPT ![op.table] = (IF op.over \/ @ = NoTable THEN <<>> ELSE @) \o <<c, c>>]
      replayed[n \in 0..Len(scope.ops)] ==
        IF n = 0 THEN View ELSE apply(replayed[n - 1], scope.ops[n])
  IN  CASE Replay(c) -> replayed[Len(scope.ops)]
        [] scope.kind[c] = "append" -> apply(View, [table |-> t, over |-> FALSE])
        [] scope.kind[c] = "overwrite" -> apply(View, [table |-> t, over |-> TRUE])
        [] scope.kind[c] = "modify" -> IF View[t] = NoTable THEN View ELSE [View EXCEPT ![t] = Append(@, c)]
        [] scope.kind[c] = "create" -> IF View[t] = NoTable THEN [View EXCEPT ![t] = <<c>>] ELSE View
        [] OTHER -> [View EXCEPT ![t] = NoTable]

(* Mutant of CreateWrites: keeps the rows that are there.                  *)
CreateWrites_Keeping(t, items) == <<Write(t, items, FALSE, FALSE, TRUE)>>

(* createTable: its rows replace whatever a failed deletion left behind.   *)
CreateWrites(t, items) == <<Write(t, items, TRUE, FALSE, TRUE)>>

(* A call is made.  While a transaction is active, calls of its owner are  *)
(* buffered (see Transactions) and table changes are refused.              *)
Arrive(c) ==
  /\ st[c].pc = "idle" /\ c \in scope.calls
  /\ \A d \in Calls : Active(d) => scope.overlap /\ ~Replay(d)
  /\ LET t == scope.target[c]
         missing == count[t] = NoTable
         start(todo) == Goto(c, [Idle EXCEPT !.pc = "enter", !.todo = todo])
         end(pc) == Goto(c, [Idle EXCEPT !.pc = pc])
     IN  \/ /\ scope.kind[c] \in {"append", "overwrite"}
            /\ start((IF missing THEN CreateWrites(t, <<>>) ELSE <<>>)
                     \o <<Write(t, <<c, c>>, scope.kind[c] = "overwrite", TRUE, FALSE)>>)
         \/ /\ scope.kind[c] = "modify"
            /\ IF missing THEN end("failed")
               ELSE Goto(c, [Idle EXCEPT !.pc = "enter", !.job = "read"])
         \/ /\ scope.kind[c] = "create"
            /\ IF missing THEN start(CreateWrites(t, <<c>>)) ELSE end("ok")
         \/ scope.kind[c] = "drop" /\ end("dropMeta")
         \/ /\ scope.kind[c] = "commit"
            /\ \A i \in DOMAIN scope.ops : count[scope.ops[i].table] # NoTable
            /\ Goto(c, [Idle EXCEPT !.pc = "enter", !.job = "replay", !.snapshot = db,
                 !.todo = [i \in DOMAIN scope.ops |->
                             Write(scope.ops[i].table, <<c, c>>, scope.ops[i].over, TRUE, FALSE)]])
  /\ ghost' = IF scope.overlap THEN ghost ELSE [call |-> c, from |-> View, to |-> Outcome(c)]
  /\ NoExec /\ UNCHANGED <<scope, open, depth, task, chain, count, faults>>

(* Mutant of Bypasses: every call waits for its turn in the chain.         *)
Bypasses_Never(c) == FALSE

Bypasses(c) == depth > 0

(* enqueue: straight ahead inside an open transaction, else in the chain.  *)
Enter(c) ==
  /\ st[c].pc = "enter"
  /\ IF Bypasses(c)
     THEN Goto(c, Entered(st[c])) /\ UNCHANGED chain
     ELSE Goto(c, [st[c] EXCEPT !.pc = "queued"]) /\ chain' = Append(chain, c)
  /\ NoExec /\ UNCHANGED <<open, depth, task, count, faults, scope, ghost>>

(* The promise before it in the chain has settled.                         *)
StartTask(c) ==
  /\ task = {} /\ chain # <<>> /\ Head(chain) = c
  /\ chain' = Tail(chain)
  /\ \/ /\ st[c].job \notin {"tx", "replay"}
        /\ Goto(c, Entered(st[c])) /\ task' = {c}
        /\ UNCHANGED <<open, depth, faults>>
     \/ /\ st[c].job \in {"tx", "replay"}
        /\ depth' = 1 /\ open' = TRUE
        /\ Goto(c, Entered([st[c] EXCEPT !.outer = (st[c].job = "replay")]))
        /\ task' = {c}
        /\ UNCHANGED faults
     \/ /\ st[c].job \in {"tx", "replay"} /\ scope.beginFails /\ Fault
        /\ depth' = 1
        /\ Goto(c, [st[c] EXCEPT !.pc = "failed"])
        /\ UNCHANGED <<open, task>>
  /\ NoExec /\ UNCHANGED <<count, scope, ghost>>

-----------------------------------------------------------------------------
(* Statements                                                              *)

DeleteRows(c) ==
  /\ st[c].pc = "delete"
  /\ \/ /\ Exec([db EXCEPT ![Current(c).table] = <<>>])
        /\ Goto(c, [st[c] EXCEPT !.pc = "select"])
        /\ UNCHANGED faults
     \/ Fault /\ NoExec /\ Goto(c, Raise(c, st[c]))
  /\ UNCHANGED <<open, depth, task, chain, count, scope, ghost>>

(* SELECT MAX(id) + 1.                                                     *)
SelectNextId(c) ==
  /\ st[c].pc = "select"
  /\ LET w == Current(c)
         s == [st[c] EXCEPT !.id = Max({0} \cup DOMAIN db[w.table]) + 1, !.left = w.items]
     IN \/ /\ Goto(c, IF w.items = <<>> THEN AfterRows(c, s) ELSE [s EXCEPT !.pc = "insert"])
           /\ UNCHANGED faults
        \/ Fault /\ Goto(c, Raise(c, st[c]))
  /\ NoExec /\ UNCHANGED <<open, depth, task, chain, count, scope, ghost>>

(* INSERT: fails on an id that is taken.                                   *)
InsertRow(c) ==
  /\ st[c].pc = "insert"
  /\ LET t == Current(c).table
         s == [st[c] EXCEPT !.id = @ + 1, !.left = Tail(@)]
         f == db[t]
     IN \/ /\ st[c].id \notin DOMAIN f
           /\ Exec([db EXCEPT ![t] = [i \in DOMAIN f \cup {st[c].id} |->
                      IF i = st[c].id THEN Head(st[c].left) ELSE f[i]]])
           /\ Goto(c, IF s.left = <<>> THEN AfterRows(c, s) ELSE s)
           /\ UNCHANGED faults
        \/ /\ (st[c].id \in DOMAIN f /\ UNCHANGED faults) \/ Fault
           /\ NoExec /\ Goto(c, Raise(c, st[c]))
  /\ UNCHANGED <<open, depth, task, chain, count, scope, ghost>>

Commit(c) ==
  /\ st[c].pc = "commit"
  /\ \/ /\ committed' = db /\ open' = FALSE
        /\ Goto(c, [st[c] EXCEPT !.pc = "ended"])
        /\ UNCHANGED faults
     \/ Fault /\ Goto(c, [st[c] EXCEPT !.pc = "rollback"]) /\ UNCHANGED <<committed, open>>
  /\ UNCHANGED <<db, depth, task, chain, count, scope, ghost>>

(* Mutant of Rollback: the error handler forgets it.                       *)
Rollback_Committing(c) ==
  /\ st[c].pc = "rollback"
  /\ committed' = db /\ open' = FALSE
  /\ Goto(c, [st[c] EXCEPT !.pc = "aborted"])
  /\ UNCHANGED <<db, depth, task, chain, count, faults, scope, ghost>>

(* ROLLBACK: it fails only when SQLite has rolled back by itself.          *)
Rollback(c) ==
  /\ st[c].pc = "rollback"
  /\ db' = committed /\ open' = FALSE
  /\ Goto(c, [st[c] EXCEPT !.pc = "aborted"])
  /\ UNCHANGED <<committed, depth, task, chain, count, faults, scope, ghost>>

(* Mutant of EndTask: the depth stays.                                     *)
EndTask_KeepingDepth(c) ==
  /\ st[c].pc \in {"ended", "aborted"}
  /\ task' = {}
  /\ LET s == st[c] IN
     Goto(c, IF s.outer THEN [s EXCEPT !.pc = IF s.pc = "ended" THEN "ok" ELSE "failed",
                                       !.outer = FALSE]
             ELSE IF s.pc = "ended" THEN AfterTransaction(s)
             ELSE Throw(c, s))
  /\ NoExec /\ UNCHANGED <<open, chain, depth, count, faults, scope, ghost>>

(* finally: the depth is reset, and the next task of the chain may start.  *)
EndTask(c) ==
  /\ st[c].pc \in {"ended", "aborted"}
  /\ depth' = 0 /\ task' = {}
  /\ LET s == st[c] IN
     Goto(c, IF s.outer THEN [s EXCEPT !.pc = IF s.pc = "ended" THEN "ok" ELSE "failed",
                                       !.outer = FALSE]
             ELSE IF s.pc = "ended" THEN AfterTransaction(s)
             ELSE Throw(c, s))
  /\ NoExec /\ UNCHANGED <<open, chain, count, faults, scope, ghost>>

(* SELECT of the rows, for an update, a delete or a mixed bulkWrite.       *)
ReadRows(c) ==
  /\ st[c].pc = "read"
  /\ \/ /\ Goto(c, [st[c] EXCEPT !.pc = "enter", !.job = "tx",
             !.todo = <<Write(scope.target[c], Append(Rows(db[scope.target[c]]), c), TRUE, FALSE, FALSE)>>])
        /\ UNCHANGED faults
     \/ Fault /\ Goto(c, [st[c] EXCEPT !.pc = "failed"])
  /\ LeaveChain(c)
  /\ NoExec /\ UNCHANGED <<open, chain, depth, count, scope, ghost>>

CountRows(c) ==
  /\ st[c].pc = "count"
  /\ \/ /\ Goto(c, [st[c] EXCEPT !.pc = "publish",
                      !.got = Cardinality(DOMAIN db[Current(c).table])])
        /\ UNCHANGED faults
     \/ Fault /\ Goto(c, Throw(c, st[c]))
  /\ LeaveChain(c)
  /\ NoExec /\ UNCHANGED <<open, chain, depth, count, scope, ghost>>

(* metadataManager.update and saveImmediately.                             *)
Publish(c) ==
  /\ st[c].pc = "publish"
  /\ LET w == Current(c) IN
     /\ count' = [count EXCEPT ![w.table] = IF w.counted THEN st[c].got ELSE Len(w.items)]
     /\ \/ Goto(c, NextWrite(st[c], Tail(st[c].todo))) /\ UNCHANGED faults
        \/ Fault /\ Goto(c, IF w.ddl THEN [st[c] EXCEPT !.pc = "undo"]
                            ELSE Throw(c, st[c]))
  /\ NoExec /\ UNCHANGED <<open, depth, task, chain, scope, ghost>>

(* createTable could not save its metadata: it removes its rows.           *)
UndoCreate(c) ==
  /\ st[c].pc = "undo"
  /\ \/ Exec([db EXCEPT ![scope.target[c]] = <<>>]) /\ UNCHANGED faults
     \/ Fault /\ NoExec
  /\ Goto(c, [st[c] EXCEPT !.pc = "failed"])
  /\ UNCHANGED <<open, depth, task, chain, count, scope, ghost>>

(* deleteTable: first the metadata, then the rows.                         *)
DropMeta(c) ==
  /\ st[c].pc = "dropMeta"
  /\ \/ /\ count' = [count EXCEPT ![scope.target[c]] = NoTable]
        /\ Goto(c, [st[c] EXCEPT !.pc = "enter", !.job = "purge"])
        /\ UNCHANGED faults
     \/ Fault /\ Goto(c, [st[c] EXCEPT !.pc = "failed"]) /\ UNCHANGED count
  /\ NoExec /\ UNCHANGED <<open, depth, task, chain, scope, ghost>>

PurgeRows(c) ==
  /\ st[c].pc = "purge"
  /\ \/ /\ Exec([db EXCEPT ![scope.target[c]] = <<>>])
        /\ Goto(c, [st[c] EXCEPT !.pc = "ok"])
        /\ UNCHANGED faults
     \/ Fault /\ NoExec /\ Goto(c, [st[c] EXCEPT !.pc = "failed"])
  /\ LeaveChain(c)
  /\ UNCHANGED <<open, chain, depth, count, scope, ghost>>

(* The promise of the call resolves.                                       *)
Return(c) ==
  /\ st[c].pc = "ok"
  /\ Goto(c, [st[c] EXCEPT !.pc = "done"])
  /\ NoExec /\ UNCHANGED <<open, depth, task, chain, count, faults, scope, ghost>>

-----------------------------------------------------------------------------
(* Specification                                                           *)

Init ==
  /\ scope \in Scopes
  /\ db = [t \in Tables |-> <<>>] /\ committed = db
  /\ open = FALSE /\ depth = 0 /\ chain = <<>> /\ task = {}
  /\ count = [t \in Tables |-> IF t \in scope.existing THEN 0 ELSE NoTable]
  /\ st = [c \in Calls |-> Idle]
  /\ faults = 0
  /\ ghost = [call |-> CHOOSE c \in Calls : TRUE, from |-> View, to |-> View]

Step(c) ==
  \/ Enter(c) \/ StartTask(c)
  \/ DeleteRows(c) \/ SelectNextId(c) \/ InsertRow(c) \/ Commit(c) \/ Rollback(c) \/ EndTask(c)
  \/ ReadRows(c) \/ CountRows(c) \/ Publish(c) \/ UndoCreate(c) \/ DropMeta(c) \/ PurgeRows(c)
  \/ Return(c)

Next == \E c \in Calls : Arrive(c) \/ Step(c)

(* Every statement and every metadata save settles.                        *)
Spec == Init /\ [][Next]_vars /\ \A c \in Calls : WF_vars(Step(c))

-----------------------------------------------------------------------------
(* Properties                                                              *)

TypeOK ==
  /\ \A t \in Tables : Range(db[t]) \subseteq Calls /\ Range(committed[t]) \subseteq Calls
  /\ open \in BOOLEAN /\ depth \in {0, 1} /\ faults \in 0..scope.faults
  /\ chain \in Seq(Calls) /\ IsInjective(chain)
  /\ task \subseteq Calls /\ Cardinality(task) <= 1 /\ task \cap Range(chain) = {}
  /\ \A t \in Tables : count[t] \in Nat \cup {NoTable}

(* A transaction is open only inside a task of the chain, and an idle      *)
(* chain leaves the bypass off.                                            *)
Bracketed ==
  /\ open => depth = 1 /\ \E c \in task : st[c].job # "read"
  /\ task = {} /\ ~scope.beginFails => depth = 0

(* A call that was acknowledged is durable: its appended rows are there.   *)
AckedKept ==
  \A c \in Calls : st[c].pc = "done" /\ scope.kind[c] = "append" =>
    Cardinality({i \in DOMAIN committed[scope.target[c]] : committed[scope.target[c]][i] = c}) = 2

(* A call leaves all of its rows or none: what withSqlTransaction is for.  *)
(* False after a BEGIN that failed, which leaves the depth at 1.           *)
AllOrNothing ==
  \A c \in Calls : Done(c) /\ scope.kind[c] = "append" =>
    Cardinality({i \in DOMAIN committed[scope.target[c]] : committed[scope.target[c]][i] = c}) \in {0, 2}

(* One call after the other, a call that reports success has had its       *)
(* effect, and only that: rows which a failed deletion left behind never   *)
(* come back with a new table of the same name.                            *)
SuccessIsOutcome == ~scope.overlap /\ st[ghost.call].pc = "ok" => View = ghost.to

(* One call after the other, the store is one atomic value: a call leaves  *)
(* all tables as it found them or as it is to leave them, and leaves them  *)
(* so when it reports success (withSqlTransaction).  The mapping leaves    *)
(* out the behaviours where this is not so: calls that overlap, a BEGIN    *)
(* that may fail, and calls that create a table, which first leave it      *)
(* empty and may fail after that.                                          *)
NoneCreated ==
  \A c \in scope.calls :
    /\ scope.kind[c] # "create"
    /\ scope.kind[c] \in {"append", "overwrite"} =>
         /\ scope.target[c] \in scope.existing
         /\ \A d \in scope.calls : scope.kind[d] = "drop" => scope.target[d] # scope.target[c]

Mapped == ~scope.overlap /\ ~scope.beginFails /\ NoneCreated
NoTables == [t \in Tables |-> NoTable]
Atomic == INSTANCE AtomicTable WITH
  Values <- [Tables -> {NoTable} \cup Seq(Calls)],
  table <- IF Mapped THEN View ELSE NoTables,
  call <- LET running == Mapped /\ Active(ghost.call)
              now == IF running THEN ghost
                     ELSE IF Mapped THEN [from |-> View, to |-> View]
                     ELSE [from |-> NoTables, to |-> NoTables]
          IN [status |-> IF running THEN IF st[ghost.call].pc = "ok" THEN "ok" ELSE "running"
                         ELSE "idle",
              from |-> now.from, to |-> now.to]

ImplementsAtomicTable == Atomic!Spec

(* Each call ends: the chain never waits for a task that waits for it.     *)
EveryCallEnds == \A c \in Calls : Active(c) ~> Done(c)

(* The state is well formed, and every transaction is closed by the task   *)
(* that opened it.                                                         *)
Consistent == TypeOK /\ Bracketed

(* Calls that do not overlap are atomic, and no step of one reports a      *)
(* success that has not had its effect.                                    *)
CallsAreAtomic == ImplementsAtomicTable /\ [][SuccessIsOutcome']_vars
=============================================================================
