---------------------------- MODULE MCTransactions ----------------------------
(* Small instances of Transactions for TLC.                                *)
EXTENDS Transactions

CONSTANTS c1, c2, c3, t1, t2

MCTables == {t1, t2}
OneTable == {t1}
MCVals == 1..3
MCClients == {c1, c2, c3}

(* Two clients with one identity, one with another.                        *)
MCOwner == [c \in MCClients |-> IF c = c3 THEN "encrypted" ELSE "default"]

Q(do, t, rows, old, new) == [do |-> do, table |-> t, rows |-> rows, old |-> old, new |-> new]
Control == {Q(k, t1, <<>>, 1, 1) : k \in {"begin", "commit", "rollback"}}

(* One client and all operations: t1 exists, t2 is created by a write.     *)
AllRequests == Control \cup
  {Q("read", t1, <<>>, 1, 1), Q("append", t1, <<1>>, 1, 1), Q("over", t2, <<2>>, 1, 1),
   Q("update", t1, <<>>, 1, 2), Q("delete", t1, <<>>, 2, 1), Q("bulk", t1, <<1>>, 1, 3)}
Local == [clients |-> {c1}, requests |-> [c \in MCClients |-> AllRequests], engine |-> "file",
          calls |-> 7, faults |-> 2]

(* Three clients that run into each other.                                 *)
MixedRequests == [c \in MCClients |->
  CASE c = c1 -> Control \cup {Q("append", t1, <<1>>, 1, 1)}
    [] c = c2 -> {Q("begin", t1, <<>>, 1, 1), Q("sync", t1, <<2>>, 1, 1), Q("drop", t1, <<>>, 1, 1),
                  Q("create", t1, <<>>, 1, 1), Q("update", t1, <<>>, 1, 3)}
    [] c = c3 -> Control \cup {Q("append", t1, <<3>>, 1, 1)}]
Shared == [clients |-> MCClients, requests |-> MixedRequests, engine |-> "sqlite", calls |-> 5,
           faults |-> 1]

AllScopes == {Local, Shared}

(* For NothingAfterRollback, OnlyOwnerEnds and CommitFlushesAll: owners    *)
(* that go on while their commit is under way.                             *)
OwnerCalls == Control \cup {Q("append", t1, <<1>>, 1, 1)}
RivalScopes == {[Shared EXCEPT !.requests = [c \in MCClients |-> OwnerCalls], !.calls = 6]}

(* For CommitIsAllOrNothing: updates on the SQLite engine.                 *)
SqliteScopes == {[Local EXCEPT !.engine = "sqlite"]}
===============================================================================
