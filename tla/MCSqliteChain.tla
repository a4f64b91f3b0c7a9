---------------------------- MODULE MCSqliteChain ----------------------------
(* Small instances of SqliteChain for TLC.                                 *)
EXTENDS SqliteChain

CONSTANTS c1, c2, c3, c4, t1, t2

Op(t, over) == [table |-> t, over |-> over]

MCCalls == {c1, c2, c3, c4}
MCTables == {t1, t2}

(* Every kind of write on two tables that exist, one call after the other. *)
Writes ==
  [calls |-> MCCalls, existing |-> MCTables, ops |-> <<Op(t1, FALSE), Op(t2, TRUE)>>,
   kind |-> c1 :> "append" @@ c2 :> "overwrite" @@ c3 :> "modify" @@ c4 :> "commit",
   target |-> c1 :> t1 @@ c2 :> t2 @@ c3 :> t1 @@ c4 :> t1,
   overlap |-> FALSE, beginFails |-> FALSE, faults |-> 2]

(* Tables come and go.                                                     *)
Creations ==
  [Writes EXCEPT !.existing = {}, !.beginFails = TRUE,
     !.kind = c1 :> "create" @@ c2 :> "drop" @@ c3 :> "append" @@ c4 :> "create",
     !.target = [c \in MCCalls |-> t1]]

(* Three calls that overlap.                                               *)
Overlapping ==
  [Writes EXCEPT !.calls = {c1, c2, c3}, !.existing = {t1}, !.ops = <<Op(t1, FALSE)>>,
     !.kind = c1 :> "append" @@ c2 :> "modify" @@ c3 :> "commit" @@ c4 :> "commit",
     !.target = c1 :> t2 @@ c2 :> t1 @@ c3 :> t1 @@ c4 :> t1, !.overlap = TRUE, !.faults = 0]

(* A table goes while the other is written.                                *)
Dropping ==
  [Writes EXCEPT !.kind = c1 :> "drop" @@ c2 :> "overwrite" @@ c3 :> "modify" @@ c4 :> "commit"]

AllScopes == {Writes, Dropping, Creations, Overlapping}

(* For AckedKept: a statement of an overlapping call fails.                *)
FailingScopes == {[Overlapping EXCEPT !.faults = 1]}

(* For AllOrNothing: a BEGIN fails, and so does a later statement.         *)
StuckScopes == {[Writes EXCEPT !.beginFails = TRUE]}
=============================================================================
