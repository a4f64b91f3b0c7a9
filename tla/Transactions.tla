----------------------------- MODULE Transactions -----------------------------
(***************************************************************************)
(* core/service/TransactionService.ts and the way the two storage engines  *)
(* (adapter/FileSystemStorageAdapter.ts, adapter/SQLiteStorageAdapter.ts)  *)
(* use it: calls are queued while a transaction is active, a commit        *)
(* replays them on the tables and restores snapshots if it fails.  Plain   *)
(* writes, table changes and background writes (AutoSync) go on beside it. *)
(*                                                                         *)
(* A table is a sequence of rows and an access to it is one step: what an  *)
(* engine does to make that so is in SingleFileStore and SqliteChain.      *)
(* Between two awaits of the service or the adapter any other call runs.   *)
(***************************************************************************)
EXTENDS Naturals, Sequences, SequencesExt, FiniteSets

CONSTANTS
  Tables, Vals, Clients,
  Owner,      \* the transaction identity of each client: [Clients -> Owners]
  Scopes,     \* what the clients of a behaviour may do, and its bounds
  Existing,   \* the tables that exist at first
  NoTable     \* a table that does not exist

Owners == {Owner[c] : c \in Clients}
Kinds == {"begin", "commit", "rollback", "read", "create", "drop", "sync",
          "append", "over", "update", "delete", "bulk"}

(* rows: what is appended or put; old, new: an update sets rows that equal *)
(* old to new, a deletion removes them.                                    *)
Request == [do: Kinds, table: Tables, rows: Seq(Vals), old: Vals, new: Vals]

(* clients: those that call; requests: the calls a client may make; calls: *)
(* bound on the calls made; faults: bound on the accesses that fail.       *)
Scope == [clients: SUBSET Clients, requests: [Clients -> SUBSET Request],
          engine: {"file", "sqlite"}, calls: Nat, faults: Nat]

ASSUME TransactionsAssumption ==
  /\ Clients # {} /\ Existing \subseteq Tables /\ NoTable \notin Seq(Vals)
  /\ Scopes \subseteq Scope

VARIABLES
  scope,      \* the scope of this behaviour
  data,       \* the tables
  tx,         \* the state of TransactionService
  boundary,   \* transactionStartTail: the clients in line, the first runs
  call,       \* the call of each client
  asked, faults,
  hist        \* history: the tables at begin, those the transaction is to leave, what went wrong

vars == <<scope, data, tx, boundary, call, asked, faults, hist>>

NoTx == [active |-> FALSE, owner |-> CHOOSE o \in Owners : TRUE, ops |-> <<>>,
         snaps |-> <<>>, view |-> <<>>]

(* list: whether a running commit iterates over the queue of the           *)
(* transaction there is, or of one that has ended or was rolled back.      *)
(* base: the tables as BEGIN found them; count: the operations replayed.   *)
NoCall(q) == [pc |-> "done", q |-> q, rows |-> <<>>, todo |-> <<>>, list |-> "ended",
              base |-> <<>>, count |-> 0, sick |-> FALSE, result |-> "ok"]

-----------------------------------------------------------------------------
(* Helpers                                                                 *)

Change(rows, q) == [i \in DOMAIN rows |-> IF rows[i] = q.old THEN q.new ELSE rows[i]]
Matches(rows, q) == q.old \in Range(rows)

(* The rows that are left without v.                                       *)
Kept(rows, v) ==
  LET kept[n \in 0..Len(rows)] ==
        IF n = 0 THEN <<>>
        ELSE IF rows[n] = v THEN kept[n - 1] ELSE Append(kept[n - 1], rows[n])
  IN  kept[Len(rows)]

(* What an operation makes of the rows.                                    *)
Apply(rows, q) ==
  CASE q.do = "append" -> rows \o q.rows
    [] q.do \in {"over", "sync"} -> q.rows
    [] q.do = "update" -> Change(rows, q)
    [] q.do = "delete" -> Kept(rows, q.old)
    [] q.do = "bulk" -> Change(rows \o q.rows, q)

(* An update that became a write of all rows.                              *)
PutOf(q, rows) == [q EXCEPT !.do = "over", !.rows = Apply(rows, q)]

RowsOf(tables, t) == IF tables[t] = NoTable THEN <<>> ELSE tables[t]

(* Only a write creates a table.                                           *)
Written(tables, q) ==
  IF tables[q.table] = NoTable /\ q.do \in {"update", "delete"} THEN tables
  ELSE [tables EXCEPT ![q.table] = Apply(RowsOf(tables, q.table), q)]

Allowed(c) == tx.active => tx.owner = Owner[c]
T(c) == call[c].q.table
At(c, pc) == call[c].pc = pc
Goto(c, s) == call' = [call EXCEPT ![c] = s]
Return(c, result) == Goto(c, [NoCall(call[c].q) EXCEPT !.result = result])
Fault == faults < scope.faults /\ faults' = faults + 1

(* resetTransactionState: the queue that a running commit goes through is  *)
(* no longer that of the service.                                          *)
Ended(calls, how) ==
  [d \in Clients |-> IF calls[d].list = "live" THEN [calls[d] EXCEPT !.list = how] ELSE calls[d]]

(* What operations, one after the other, make of the rows of a table.      *)
After(ops, t, rows) ==
  LET seen[n \in 0..Len(ops)] ==
        IF n = 0 THEN rows
        ELSE IF ops[n].table = t THEN Apply(seen[n - 1], ops[n]) ELSE seen[n - 1]
  IN  seen[Len(ops)]

(* getCurrentTransactionData, after its read.                              *)
Projected(t, rows) == After(tx.ops, t, rows)

WithView(t, rows) ==
  [u \in DOMAIN tx.view \cup {t} |-> IF u = t THEN rows ELSE tx.view[u]]
WithoutView(t) == [u \in DOMAIN tx.view \ {t} |-> tx.view[u]]

-----------------------------------------------------------------------------
(* Making a call                                                           *)

(* The guard of every method: assertTransactionAccess.                     *)
Refused(c, q) ==
  \/ ~Allowed(c) /\ q.do \notin {"begin", "sync"}
  \/ ~tx.active /\ q.do \in {"commit", "rollback"}

FirstStep(q) ==
  CASE q.do \in {"begin", "create", "drop", "sync"} -> "queue"
    [] q.do = "commit" -> "replay"
    [] q.do \in {"append", "over"} -> IF tx.active THEN "snap" ELSE "direct"
    [] q.do \in {"read", "delete"} -> IF tx.active THEN "view" ELSE "direct"
    [] q.do = "update" -> IF tx.active THEN "view" ELSE "fetch"
    [] q.do = "bulk" -> IF tx.active THEN "snap" ELSE "fetch"
    [] OTHER -> "done"

Ask(c) ==
  /\ At(c, "done") /\ c \in scope.clients /\ asked < scope.calls /\ asked' = asked + 1
  /\ \E q \in scope.requests[c] :
       IF Refused(c, q)
       THEN Goto(c, [NoCall(q) EXCEPT !.result = "refused"]) /\ UNCHANGED <<tx, boundary>>
       ELSE LET s == [NoCall(q) EXCEPT !.pc = FirstStep(q)] IN
            \/ /\ q.do = "rollback"
               /\ tx' = NoTx /\ call' = [Ended(call, "rolled") EXCEPT ![c] = s]
               /\ UNCHANGED boundary
            \/ /\ q.do = "commit"
               /\ Goto(c, [s EXCEPT !.todo = tx.ops, !.list = "live", !.base = data])
               /\ UNCHANGED <<tx, boundary>>
            \/ /\ q.do \notin {"rollback", "commit"}
               /\ Goto(c, s)
               /\ boundary' = IF s.pc = "queue" THEN Append(boundary, c) ELSE boundary
               /\ UNCHANGED tx
  /\ UNCHANGED <<scope, data, faults, hist>>

-----------------------------------------------------------------------------
(* atTransactionStartBoundary                                              *)

(* Mutant of CanRun: nobody waits for a table change under way.            *)
CanRun_Always(c) == c \in Range(boundary)

(* The caller before it in line has released the boundary.                 *)
CanRun(c) == boundary # <<>> /\ Head(boundary) = c

(* Mutant of Leave: the boundary is not released.                          *)
Leave_Behind(c) == UNCHANGED boundary

(* release, whatever the outcome.                                          *)
Leave(c) == boundary' = Tail(boundary)

Begin(c) ==
  /\ At(c, "queue") /\ call[c].q.do = "begin" /\ CanRun(c)
  /\ Leave(c)
  /\ IF tx.active
     THEN Return(c, "refused") /\ UNCHANGED <<tx, hist>>
     ELSE /\ tx' = [NoTx EXCEPT !.active = TRUE, !.owner = Owner[c]]
          /\ Return(c, "ok")
          /\ hist' = [hist EXCEPT !.from = data, !.to = data]
  /\ UNCHANGED <<data, scope, asked, faults>>

(* runWhenNoTransaction: no transaction starts until the work is over.     *)
StartGuarded(c) ==
  /\ At(c, "queue") /\ call[c].q.do # "begin" /\ CanRun(c)
  /\ IF tx.active
     THEN Leave(c) /\ Return(c, "refused")
     ELSE Goto(c, [call[c] EXCEPT !.pc = "guarded"]) /\ UNCHANGED boundary
  /\ UNCHANGED <<data, tx, scope, asked, faults, hist>>

(* createTable, deleteTable, or the write of AutoSync.                     *)
Guarded(c) ==
  /\ At(c, "guarded")
  /\ LET q == call[c].q IN
     \/ /\ data' = CASE q.do = "drop" -> [data EXCEPT ![q.table] = NoTable]
                     [] q.do = "create" -> [data EXCEPT ![q.table] = IF @ = NoTable THEN q.rows ELSE @]
                     [] q.do = "sync" -> Written(data, q)
        /\ Return(c, "ok") /\ UNCHANGED faults
     \/ Fault /\ Return(c, "failed") /\ UNCHANGED data
  /\ Leave(c)
  /\ UNCHANGED <<tx, scope, asked, hist>>

-----------------------------------------------------------------------------
(* Queued operations                                                       *)

(* The view is there: answer a read or a count, or go on with the call.    *)
AfterView(s, rows) ==
  CASE s.q.do = "update" /\ Matches(rows, s.q) ->
         [s EXCEPT !.pc = IF tx.active THEN "snap" ELSE "put", !.rows = <<>>,
                   !.q = IF tx.active THEN @ ELSE PutOf(s.q, rows)]
    [] s.q.do = "delete" -> [s EXCEPT !.pc = "snap", !.rows = <<>>]
    [] OTHER -> [NoCall(s.q) EXCEPT !.rows = rows]

(* The materialised view is cached, or the table is read.                  *)
View(c) ==
  /\ At(c, "view")
  /\ IF T(c) \in DOMAIN tx.view THEN Goto(c, AfterView(call[c], tx.view[T(c)]))
     ELSE Goto(c, [call[c] EXCEPT !.pc = "project", !.rows = RowsOf(data, T(c))])
  /\ UNCHANGED <<data, tx, boundary, scope, asked, faults, hist>>

(* Mutant of Project: only the last operation on the table counts.         *)
Project_LastOnly(c) ==
  /\ At(c, "project")
  /\ LET mine == SelectSeq(tx.ops, LAMBDA q : q.table = T(c))
         rows == IF mine = <<>> THEN call[c].rows ELSE Apply(call[c].rows, Last(mine)) IN
     /\ tx' = [tx EXCEPT !.view = WithView(T(c), rows)]
     /\ Goto(c, AfterView(call[c], rows))
  /\ UNCHANGED <<data, boundary, scope, asked, faults, hist>>

Project(c) ==
  /\ At(c, "project")
  /\ LET rows == Projected(T(c), call[c].rows) IN
     /\ tx' = [tx EXCEPT !.view = WithView(T(c), rows)]
     /\ Goto(c, AfterView(call[c], rows))
  /\ UNCHANGED <<data, boundary, scope, asked, faults, hist>>

(* The table is read for a snapshot.                                       *)
Snap(c) ==
  /\ At(c, "snap")
  /\ Goto(c, [call[c] EXCEPT !.pc = "add", !.rows = RowsOf(data, T(c))])
  /\ UNCHANGED <<data, tx, boundary, scope, asked, faults, hist>>

(* Mutant of MayAdd: the owner is asserted before the read only.           *)
MayAdd_Unowned(c) == tx.active

MayAdd(c) == tx.active /\ Allowed(c)

HasSnapshot(t) == \E i \in DOMAIN tx.snaps : tx.snaps[i].table = t

(* saveSnapshot: before the first operation on the table.                  *)
Snapshots(t, rows) ==
  IF HasSnapshot(t) THEN tx.snaps
  ELSE Append(tx.snaps, [table |-> t, rows |-> rows, existed |-> data[t] # NoTable])

(* saveSnapshot and addOperation; a commit that goes through the queue     *)
(* meanwhile will come to the operation.                                   *)
Add(c) ==
  /\ At(c, "add")
  /\ IF ~MayAdd(c)
     THEN Return(c, "failed") /\ UNCHANGED <<tx, hist>>
     ELSE LET s == call[c] IN
          /\ tx' = [tx EXCEPT !.ops = Append(@, s.q), !.snaps = Snapshots(T(c), s.rows),
                              !.view = WithoutView(T(c))]
          /\ call' = [d \in Clients |->
               CASE d = c -> IF s.q.do \in {"append", "bulk"} THEN [s EXCEPT !.pc = "view", !.rows = <<>>]
                             ELSE NoCall(s.q)
                 [] d # c /\ call[d].list = "live" /\ call[d].pc = "replay" ->
                      [call[d] EXCEPT !.todo = Append(@, s.q)]
                 [] OTHER -> call[d]]
          /\ hist' = [hist EXCEPT !.to = Written(@, s.q),
                                  !.wrong = @ \cup (IF Owner[c] # tx.owner THEN {"stranger"} ELSE {})]
  /\ UNCHANGED <<data, boundary, scope, asked, faults>>

-----------------------------------------------------------------------------
(* Calls outside of a transaction                                          *)

(* One access to the table: it is not looked at again whether a            *)
(* transaction has started.                                                *)
Direct(c) ==
  /\ At(c, "direct")
  /\ \/ /\ IF call[c].q.do = "read"
           THEN Goto(c, [NoCall(call[c].q) EXCEPT !.rows = RowsOf(data, T(c))]) /\ UNCHANGED data
           ELSE data' = Written(data, call[c].q) /\ Return(c, "ok")
        /\ UNCHANGED faults
     \/ Fault /\ Return(c, "failed") /\ UNCHANGED data
  /\ UNCHANGED <<tx, boundary, scope, asked, hist>>

(* update and a mixed bulkWrite read the table first.                      *)
Fetch(c) ==
  /\ At(c, "fetch")
  /\ Goto(c, [call[c] EXCEPT !.pc = "fetched", !.rows = RowsOf(data, T(c))])
  /\ UNCHANGED <<data, tx, boundary, scope, asked, faults, hist>>

(* A transaction may have started: then update queues itself.              *)
Fetched(c) ==
  /\ At(c, "fetched")
  /\ LET s == call[c]
         put == PutOf(s.q, s.rows)
     IN  Goto(c, CASE s.q.do = "bulk" -> [s EXCEPT !.q = put, !.pc = "direct"]
                   [] s.q.do = "update" /\ ~Matches(s.rows, s.q) -> NoCall(s.q)
                   [] s.q.do = "update" /\ tx.active /\ Matches(s.rows, s.q) -> [s EXCEPT !.pc = "snap"]
                   [] OTHER -> [s EXCEPT !.q = put, !.pc = "put"])
  /\ UNCHANGED <<data, tx, boundary, scope, asked, faults, hist>>

(* update goes on as a write, which looks again.                           *)
Put(c) ==
  /\ At(c, "put")
  /\ IF ~Allowed(c) THEN Return(c, "refused")
     ELSE Goto(c, [call[c] EXCEPT !.pc = IF tx.active THEN "snap" ELSE "direct"])
  /\ UNCHANGED <<data, tx, boundary, scope, asked, faults, hist>>

-----------------------------------------------------------------------------
(* Commit                                                                  *)

(* What the replay of an operation writes.  The SQLite adapter updates the *)
(* staged view, which has all queued operations in it already; the file    *)
(* adapter brings an update function of its own, which reads the table.    *)
Replayed(q) ==
  LET seen == IF q.table \in DOMAIN tx.view THEN tx.view[q.table]
              ELSE Projected(q.table, RowsOf(data, q.table))
  IN  IF scope.engine = "sqlite" /\ q.do = "update" /\ tx.active
      THEN IF Matches(seen, q) THEN [data EXCEPT ![q.table] = Apply(seen, q)] ELSE data
      ELSE Written(data, q)

(* write keeps the view in step with the table (setTransactionData); the   *)
(* SQLite adapter's update materialises it.                                *)
ViewAfter(q) ==
  CASE ~tx.active -> tx.view
    [] tx.active /\ scope.engine = "file" /\ q.do \in {"append", "over", "update"} ->
         WithView(q.table, RowsOf(Replayed(q), q.table))
    [] tx.active /\ scope.engine = "sqlite" /\ q.do = "update" /\ q.table \notin DOMAIN tx.view ->
         WithView(q.table, Projected(q.table, RowsOf(data, q.table)))
    [] OTHER -> tx.view

(* The error handler of commit: rollback with snapshots, which refuses if  *)
(* the transaction has ended or is another's.                              *)
Thrown(c) ==
  IF tx.active /\ Allowed(c)
  THEN [call[c] EXCEPT !.pc = "restore", !.todo = Reverse(tx.snaps), !.list = "ended"]
  ELSE [call[c] EXCEPT !.pc = "finally", !.result = "torn", !.list = "ended"]

Replay(c) ==
  /\ At(c, "replay") /\ call[c].todo # <<>>
  /\ LET s == call[c]
         q == Head(s.todo)
     IN  \/ /\ data' = Replayed(q)
            /\ tx' = [tx EXCEPT !.view = ViewAfter(q)]
            /\ Goto(c, [s EXCEPT !.todo = Tail(@), !.count = @ + 1])
            /\ hist' = [hist EXCEPT !.wrong = @ \cup (IF s.list = "rolled" THEN {"stray"} ELSE {})]
            /\ UNCHANGED faults
         \/ Fault /\ Goto(c, Thrown(c)) /\ UNCHANGED <<data, tx, hist>>
  /\ UNCHANGED <<boundary, scope, asked>>

EndReplay(c) ==
  /\ At(c, "replay") /\ call[c].todo = <<>>
  /\ Goto(c, [call[c] EXCEPT !.pc = "finalize"])
  /\ UNCHANGED <<data, tx, boundary, scope, asked, faults, hist>>

(* The decorator's finalize callback.                                      *)
Finalize(c) ==
  /\ At(c, "finalize")
  /\ \/ /\ Goto(c, [call[c] EXCEPT !.pc = "finally"]) /\ UNCHANGED faults
     \/ Fault /\ Goto(c, Thrown(c))
  /\ UNCHANGED <<data, tx, boundary, scope, asked, hist>>

(* Mutant of Restored: tables that the transaction created stay.           *)
Restored_Existing(snap) == [data EXCEPT ![snap.table] = snap.rows]

(* A table goes back to its snapshot; one that was created is removed.     *)
Restored(snap) ==
  [data EXCEPT ![snap.table] = IF snap.existed THEN snap.rows ELSE NoTable]

(* rollback goes on after a table that it cannot restore.                  *)
Restore(c) ==
  /\ At(c, "restore") /\ call[c].todo # <<>>
  /\ \/ /\ data' = Restored(Head(call[c].todo))
        /\ Goto(c, [call[c] EXCEPT !.todo = Tail(@)]) /\ UNCHANGED faults
     \/ /\ Fault /\ Goto(c, [call[c] EXCEPT !.todo = Tail(@), !.sick = TRUE])
        /\ UNCHANGED data
  /\ UNCHANGED <<tx, boundary, scope, asked, hist>>

EndRestore(c) ==
  /\ At(c, "restore") /\ call[c].todo = <<>>
  /\ tx' = NoTx
  /\ call' = [Ended(call, "ended") EXCEPT ![c] = [call[c] EXCEPT !.pc = "finally",
                 !.result = IF call[c].sick THEN "torn" ELSE "failed"]]
  /\ UNCHANGED <<data, boundary, scope, asked, faults, hist>>

(* commit ends whatever transaction there is by now; the SQL transaction   *)
(* around it is rolled back if it failed.                                  *)
Finally(c) ==
  /\ At(c, "finally")
  /\ LET s == call[c]
         foreign == tx.active /\ ~Allowed(c)
         missed == s.result = "ok" /\ s.list = "live" /\ Len(tx.ops) > s.count
     IN /\ tx' = IF tx.active THEN NoTx ELSE tx
        /\ data' = IF scope.engine = "sqlite" /\ s.result # "ok" THEN s.base ELSE data
        /\ call' = [Ended(call, "ended") EXCEPT ![c] = [NoCall(s.q) EXCEPT !.result = s.result]]
        /\ hist' = [hist EXCEPT !.wrong = @ \cup (IF foreign THEN {"foreign"} ELSE {})
                                            \cup (IF missed THEN {"missed"} ELSE {})]
  /\ UNCHANGED <<boundary, scope, asked, faults>>

-----------------------------------------------------------------------------
(* Specification                                                           *)

Init ==
  /\ scope \in Scopes
  /\ data = [t \in Tables |-> IF t \in Existing THEN <<>> ELSE NoTable]
  /\ tx = NoTx /\ boundary = <<>>
  /\ call = [c \in Clients |-> NoCall([do |-> "begin"])]
  /\ asked = 0 /\ faults = 0
  /\ hist = [from |-> data, to |-> data, wrong |-> {}]

Step(c) ==
  \/ Begin(c) \/ StartGuarded(c) \/ Guarded(c)
  \/ View(c) \/ Project(c) \/ Snap(c) \/ Add(c)
  \/ Direct(c) \/ Fetch(c) \/ Fetched(c) \/ Put(c)
  \/ Replay(c) \/ EndReplay(c) \/ Finalize(c) \/ Restore(c) \/ EndRestore(c) \/ Finally(c)

Next == \E c \in Clients : Ask(c) \/ Step(c)

(* Every access settles, and the event loop comes to every continuation.   *)
Spec == Init /\ [][Next]_vars /\ \A c \in Clients : WF_vars(Step(c))

-----------------------------------------------------------------------------
(* Properties                                                              *)

Rows == Seq(Vals)

TypeOK ==
  /\ \A t \in Tables : data[t] \in Rows \cup {NoTable}
  /\ tx.owner \in Owners /\ tx.ops \in Seq(Request)
  /\ DOMAIN tx.view \subseteq Tables /\ Range(tx.view) \subseteq Rows
  /\ IsInjective([i \in DOMAIN tx.snaps |-> tx.snaps[i].table])
  /\ boundary \in Seq(Clients) /\ IsInjective(boundary)
  /\ \A c \in Clients : c \in Range(boundary) <=> call[c].pc \in {"queue", "guarded"}

(* With one client: a commit that succeeds leaves what its owner saw, one  *)
(* that fails leaves the tables as the transaction found them, and so does *)
(* a rollback; only a commit that reports TRANSACTION_ROLLBACK_FAILED may  *)
(* leave a mixture (commit, rollback).                                     *)
Alone == \E c \in Clients : scope.clients = {c}

CommitIsAllOrNothing ==
  Alone => \A c \in Clients : At(c, "done") =>
    /\ call[c].q.do = "commit" /\ call[c].result = "ok" => data = hist.to
    /\ call[c].q.do = "commit" /\ call[c].result = "failed" => data = hist.from
    /\ call[c].q.do = "rollback" /\ call[c].result = "ok" => data = hist.from

(* With one client: its reads see all that it has queued, on top of the    *)
(* tables (getCurrentTransactionData and its cached views).                *)
ReadsOwnWrites ==
  Alone => \A c \in Clients : At(c, "done") /\ tx.active /\ call[c].q.do = "read" =>
    call[c].rows = RowsOf(hist.to, T(c))

(* No table changes its structure, and AutoSync writes nothing, while a    *)
(* transaction is active (runWhenNoTransaction).                           *)
GuardedOutside == \A c \in Clients : At(c, "guarded") => ~tx.active

(* Nobody but its owner adds to a transaction, even if the transaction     *)
(* changed while the call read the table (assertTransactionOwner).         *)
OnlyOwnerAdds == "stranger" \notin hist.wrong

(* Each call ends, those that wait at the boundary included.               *)
EveryCallEnds == \A c \in Clients : ~At(c, "done") ~> At(c, "done")

(* No operation lands of a transaction that was rolled back.  False: a     *)
(* rollback does not stop the commit that is under way.                    *)
NothingAfterRollback == "stray" \notin hist.wrong

(* Nobody but its owner ends a transaction.  False: the finally of commit  *)
(* ends whatever transaction is active by then.                            *)
OnlyOwnerEnds == "foreign" \notin hist.wrong

(* A successful commit has replayed all operations that were accepted.     *)
(* False: they are accepted until it is over, finalize included.           *)
CommitFlushesAll == "missed" \notin hist.wrong

(* Owners and outsiders keep to themselves: no table change and no       *)
(* background write during a transaction, no foreign operation in one.   *)
Separated == GuardedOutside /\ OnlyOwnerAdds

(* The state is well formed, the boundary queue in agreement with the    *)
(* calls, and reads inside a transaction see what it has queued.         *)
Consistent == TypeOK /\ ReadsOwnWrites
=============================================================================
