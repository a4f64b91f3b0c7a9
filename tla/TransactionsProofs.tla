-------------------------- MODULE TransactionsProofs --------------------------
(***************************************************************************)
(* Proofs about Transactions, for any clients, requests, tables, rows and  *)
(* number of calls and faults, on both engines: what the start boundary    *)
(* and the owner check promise whatever happens between two awaits; that   *)
(* the state is well formed; and, for one client, that its reads see what  *)
(* it has queued and that its commit is all or nothing.                    *)
(***************************************************************************)
EXTENDS Transactions, WellFoundedInduction, TLAPS

(* The states of calls and of the service are records of these fields.     *)
IsCall(s) ==
  s = [f \in {"pc", "q", "rows", "todo", "list", "base", "count", "sick", "result"} |-> s[f]]

IsTx(x) == x = [f \in {"active", "owner", "ops", "snaps", "view"} |-> x[f]]

IsHist(h) == h = [f \in {"from", "to", "wrong"} |-> h[f]]

Shape ==
  /\ call = [c \in Clients |-> call[c]] /\ \A c \in Clients : IsCall(call[c])
  /\ IsTx(tx) /\ IsHist(hist)
  /\ boundary \in Seq(Clients)

(* The call whose work the boundary protects is the first in line.         *)
GuardedFirst ==
  \A c \in Clients : At(c, "guarded") => boundary # <<>> /\ Head(boundary) = c /\ ~tx.active

GInv == Shape /\ GuardedFirst /\ OnlyOwnerAdds

-----------------------------------------------------------------------------
(* A step of a call that stays out of the boundary.                        *)
LEMMA GotoShape ==
  ASSUME Shape, NEW c \in Clients, NEW s, IsCall(s), Goto(c, s)
  PROVE  /\ call' = [d \in Clients |-> call'[d]] /\ \A d \in Clients : IsCall(call'[d])
         /\ \A d \in Clients : call'[d] = IF d = c THEN s ELSE call[d]
<1>1. call' = [d \in Clients |-> IF d = c THEN s ELSE call[d]]
  BY DEF Goto, Shape
<1>2. \A d \in Clients : call'[d] = IF d = c THEN s ELSE call[d]
  BY <1>1
<1>3. \A d \in Clients : IsCall(call'[d])
  BY <1>2 DEF Shape
<1> QED
  BY <1>1, <1>2, <1>3

LEMMA NoCallShape == ASSUME NEW q PROVE IsCall(NoCall(q)) /\ NoCall(q).pc = "done"
  BY DEF IsCall, NoCall

LEMMA ReturnShape ==
  ASSUME Shape, NEW c \in Clients, NEW result, Return(c, result)
  PROVE  /\ call' = [d \in Clients |-> call'[d]] /\ \A d \in Clients : IsCall(call'[d])
         /\ \A d \in Clients : d # c => call'[d] = call[d]
         /\ call'[c].pc = "done"
<1> DEFINE s == [NoCall(call[c].q) EXCEPT !.result = result]
<1>1. IsCall(s) /\ s.pc = "done"
  BY DEF IsCall, NoCall
<1>2. Goto(c, s)
  BY DEF Return
<1> HIDE DEF s
<1> QED
  BY <1>1, <1>2, GotoShape

LEMMA EndedShape ==
  ASSUME Shape, NEW how
  PROVE  /\ Ended(call, how) = [d \in Clients |-> Ended(call, how)[d]]
         /\ \A d \in Clients : IsCall(Ended(call, how)[d]) /\ Ended(call, how)[d].pc = call[d].pc
<1> SUFFICES ASSUME NEW d \in Clients
             PROVE  IsCall(Ended(call, how)[d]) /\ Ended(call, how)[d].pc = call[d].pc
  BY DEF Ended
<1>1. Ended(call, how)[d] = IF call[d].list = "live" THEN [call[d] EXCEPT !.list = how] ELSE call[d]
  BY DEF Ended
<1>2. IsCall(call[d])
  BY DEF Shape
<1>3. CASE call[d].list = "live"
  BY <1>1, <1>2, <1>3 DEF IsCall
<1>4. CASE call[d].list # "live"
  BY <1>1, <1>2, <1>4
<1> QED
  BY <1>3, <1>4

LEMMA TxShape == IsTx(NoTx) /\ ~NoTx.active
  BY DEF IsTx, NoTx

(* A step that leaves the boundary alone and starts neither guarded work   *)
(* nor a transaction keeps the guarded calls outside of transactions.      *)
LEMMA QuietStep ==
  ASSUME GuardedFirst, boundary' = boundary, tx'.active => tx.active,
         \A c \in Clients : call'[c].pc = "guarded" => call[c].pc = "guarded"
  PROVE  GuardedFirst'
  BY DEF GuardedFirst, At
LEMMA QuietCall ==
  ASSUME Shape, GuardedFirst, NEW c \in Clients, NEW s, IsCall(s), s.pc # "guarded", Goto(c, s),
         boundary' = boundary, IsTx(tx'), tx'.active => tx.active, IsHist(hist')
  PROVE  Shape' /\ GuardedFirst'
<1>1. Shape'
  BY GotoShape DEF Shape
<1>2. \A d \in Clients : call'[d].pc = "guarded" => call[d].pc = "guarded"
  BY GotoShape
<1> QED
  BY <1>1, <1>2, QuietStep

LEMMA QuietReturn ==
  ASSUME Shape, GuardedFirst, NEW c \in Clients, NEW result, Return(c, result),
         boundary' = boundary, IsTx(tx'), tx'.active => tx.active, IsHist(hist')
  PROVE  Shape' /\ GuardedFirst'
<1> DEFINE s == [NoCall(call[c].q) EXCEPT !.result = result]
<1>1. IsCall(s) /\ s.pc = "done"
  BY DEF IsCall, NoCall
<1>2. Goto(c, s)
  BY DEF Return
<1> HIDE DEF s
<1> QED
  BY <1>1, <1>2, QuietCall

-----------------------------------------------------------------------------
(* The boundary.                                                           *)

(* The first in line leaves it.                                            *)
LEMMA LeaveStep ==
  ASSUME Shape, GuardedFirst, NEW c \in Clients, NEW result,
         CanRun(c), Leave(c), Return(c, result), IsTx(tx'), IsHist(hist')
  PROVE  Shape' /\ GuardedFirst'
<1>1. /\ \A d \in Clients : d # c => call'[d] = call[d]
      /\ call'[c].pc = "done"
  BY ReturnShape
<1>2. \A d \in Clients : d # c => call[d].pc # "guarded"
  BY DEF GuardedFirst, At, CanRun
<1>3. boundary' \in Seq(Clients)
  BY DEF Leave, CanRun, Shape
<1>4. Shape'
  BY <1>3, ReturnShape DEF Shape
<1>5. \A d \in Clients : call'[d].pc # "guarded"
  BY <1>1, <1>2
<1> QED
  BY <1>4, <1>5 DEF GuardedFirst, At

LEMMA BeginStep ==
  ASSUME Shape, GuardedFirst, NEW c \in Clients, Begin(c) PROVE Shape' /\ GuardedFirst'
<1>1. IsTx(tx') /\ IsHist(hist')
  <2>1. CASE tx.active
    BY <2>1 DEF Begin, Shape
  <2>2. CASE ~tx.active
    <3>1. /\ tx' = [NoTx EXCEPT !.active = TRUE, !.owner = Owner[c]]
          /\ hist' = [hist EXCEPT !.from = data, !.to = data]
      BY <2>2 DEF Begin
    <3> QED
      BY <3>1, TxShape DEF IsTx, IsHist, Shape
  <2> QED
    BY <2>1, <2>2
<1>2. CanRun(c) /\ Leave(c) /\ \E r \in {"ok", "refused"} : Return(c, r)
  BY DEF Begin
<1> QED
  BY <1>1, <1>2, LeaveStep

LEMMA StartGuardedStep ==
  ASSUME Shape, GuardedFirst, NEW c \in Clients, StartGuarded(c) PROVE Shape' /\ GuardedFirst'
<1>0. CanRun(c) /\ tx' = tx /\ hist' = hist /\ IsTx(tx) /\ IsHist(hist)
  BY DEF StartGuarded, Shape
<1>1. CASE tx.active
  BY <1>0, <1>1, LeaveStep DEF StartGuarded
<1>2. CASE ~tx.active
  <2> DEFINE s == [call[c] EXCEPT !.pc = "guarded"]
  <2>1. Goto(c, s) /\ boundary' = boundary
    BY <1>2 DEF StartGuarded
  <2>2. IsCall(s)
    BY DEF Shape, IsCall
  <2> HIDE DEF s
  <2>3. \A d \in Clients : d # c => call'[d] = call[d]
    BY <2>1, <2>2, GotoShape
  <2>4. Shape'
    BY <1>0, <2>1, <2>2, GotoShape DEF Shape
  <2>5. GuardedFirst'
    BY <1>0, <1>2, <2>1, <2>3 DEF GuardedFirst, At, CanRun
  <2> QED
    BY <2>4, <2>5
<1> QED
  BY <1>1, <1>2

LEMMA GuardedStep ==
  ASSUME Shape, GuardedFirst, NEW c \in Clients, Guarded(c) PROVE Shape' /\ GuardedFirst'
<1>1. CanRun(c)
  BY DEF Guarded, GuardedFirst, At, CanRun
<1>2. Leave(c) /\ \E r \in {"ok", "failed"} : Return(c, r)
  BY DEF Guarded
<1>3. IsTx(tx') /\ IsHist(hist')
  BY DEF Guarded, Shape
<1> QED
  BY <1>1, <1>2, <1>3, LeaveStep

(* A call joins the line, starts without it, commits, or rolls back.       *)
LEMMA AskStep ==
  ASSUME Shape, GuardedFirst, NEW c \in Clients, Ask(c) PROVE Shape' /\ GuardedFirst'
<1>0. hist' = hist /\ IsTx(tx) /\ IsHist(hist)
  BY DEF Ask, Shape
<1>1. PICK q \in scope.requests[c] :
       IF Refused(c, q)
       THEN Goto(c, [NoCall(q) EXCEPT !.result = "refused"]) /\ UNCHANGED <<tx, boundary>>
       ELSE LET s == [NoCall(q) EXCEPT !.pc = FirstStep(q)] IN
            \/ /\ q.do = "rollback"
               /\ tx' = NoTx /\ call' = [Ended(call, "rolled") EXCEPT ![c] = s]
               /\ UNCHANGED boundary
            \/ /\ q.do = "commit"
               /\ Goto(c, [s EXCEPT !.todo = tx.ops, !.list = "live", !.base = data])
               /\ UNCHANGED <<tx, boundary>>
            \/ /\ q.do \notin {"rollback", "commit"}
               /\ Goto(c, s)
               /\ boundary' = IF s.pc = "queue" THEN Append(boundary, c) ELSE boundary
               /\ UNCHANGED tx
  BY DEF Ask
<1> DEFINE s == [NoCall(q) EXCEPT !.pc = FirstStep(q)]
<1>2. FirstStep(q) # "guarded"
  BY DEF FirstStep
<1>3. IsCall(s) /\ s.pc = FirstStep(q)
  BY DEF IsCall, NoCall
<1>4. CASE Refused(c, q)
  <2> DEFINE r == [NoCall(q) EXCEPT !.result = "refused"]
  <2>1. IsCall(r) /\ r.pc = "done"
    BY DEF IsCall, NoCall
  <2>2. Goto(c, r) /\ tx' = tx /\ boundary' = boundary
    BY <1>1, <1>4
  <2> HIDE DEF r
  <2> QED
    BY <1>0, <2>1, <2>2, QuietCall
<1>5. CASE ~Refused(c, q) /\ q.do = "rollback"
  <2>1. /\ tx' = NoTx /\ call' = [Ended(call, "rolled") EXCEPT ![c] = s]
        /\ boundary' = boundary
    BY <1>1, <1>5
  <2> HIDE DEF s
  <2>2. /\ call' = [d \in Clients |-> IF d = c THEN s ELSE Ended(call, "rolled")[d]]
    BY <2>1, EndedShape
  <2>3. \A d \in Clients : call'[d] = IF d = c THEN s ELSE Ended(call, "rolled")[d]
    BY <2>2
  <2>4. \A d \in Clients : IsCall(call'[d]) /\ (call'[d].pc = "guarded" => call[d].pc = "guarded")
    BY <1>2, <1>3, <2>3, EndedShape
  <2>5. call' = [d \in Clients |-> call'[d]]
    BY <2>2
  <2>6. Shape'
    BY <1>0, <2>1, <2>4, <2>5, TxShape DEF Shape
  <2> QED
    BY <2>1, <2>4, <2>6, TxShape, QuietStep
<1>6. CASE ~Refused(c, q) /\ q.do = "commit"
  <2> DEFINE r == [s EXCEPT !.todo = tx.ops, !.list = "live", !.base = data]
  <2>1. Goto(c, r) /\ tx' = tx /\ boundary' = boundary
    BY <1>1, <1>6
  <2>2. IsCall(r) /\ r.pc = FirstStep(q)
    <3> HIDE DEF s
    <3> QED
      BY <1>3 DEF IsCall
  <2> HIDE DEF r, s
  <2> QED
    BY <1>0, <1>2, <2>1, <2>2, QuietCall
<1>7. CASE ~Refused(c, q) /\ q.do \notin {"rollback", "commit"}
  <2>1. /\ Goto(c, s) /\ tx' = tx
        /\ boundary' = IF s.pc = "queue" THEN Append(boundary, c) ELSE boundary
    BY <1>1, <1>7
  <2> HIDE DEF s
  <2>2. boundary' \in Seq(Clients)
    BY <2>1 DEF Shape
  <2>3. boundary # <<>> => boundary' # <<>> /\ Head(boundary') = Head(boundary)
    BY <2>1 DEF Shape
  <2>4. \A d \in Clients : call'[d] = IF d = c THEN s ELSE call[d]
    BY <1>3, <2>1, GotoShape
  <2>5. Shape'
    BY <1>0, <1>3, <2>1, <2>2, GotoShape DEF Shape
  <2>6. GuardedFirst'
    BY <1>2, <1>3, <2>1, <2>3, <2>4 DEF GuardedFirst, At
  <2> QED
    BY <2>5, <2>6
<1> QED
  BY <1>4, <1>5, <1>6, <1>7

-----------------------------------------------------------------------------
(* Queued operations and calls outside of a transaction.                   *)

LEMMA AfterViewShape ==
  ASSUME NEW s, IsCall(s), NEW rows
  PROVE  IsCall(AfterView(s, rows)) /\ AfterView(s, rows).pc # "guarded"
<1>1. CASE s.q.do = "update" /\ Matches(rows, s.q)
  BY <1>1 DEF AfterView, IsCall
<1>2. CASE s.q.do = "delete"
  BY <1>2 DEF AfterView, IsCall
<1>3. CASE s.q.do # "delete" /\ ~(s.q.do = "update" /\ Matches(rows, s.q))
  BY <1>3 DEF AfterView, IsCall, NoCall
<1> QED
  BY <1>1, <1>2, <1>3

LEMMA ViewStep ==
  ASSUME Shape, GuardedFirst, NEW c \in Clients, View(c) \/ Project(c)
  PROVE  Shape' /\ GuardedFirst'
<1>0. IsCall(call[c]) /\ IsTx(tx) /\ IsHist(hist)
  BY DEF Shape
<1>1. boundary' = boundary /\ hist' = hist
  BY DEF View, Project
<1>2. IsTx(tx') /\ tx'.active = tx.active
  BY <1>0 DEF View, Project, IsTx
<1>3. CASE \E rows : Goto(c, AfterView(call[c], rows))
  BY <1>0, <1>1, <1>2, <1>3, AfterViewShape, QuietCall
<1>4. CASE Goto(c, [call[c] EXCEPT !.pc = "project", !.rows = RowsOf(data, T(c))])
  <2> DEFINE s == [call[c] EXCEPT !.pc = "project", !.rows = RowsOf(data, T(c))]
  <2>1. IsCall(s) /\ s.pc = "project"
    BY <1>0 DEF IsCall
  <2>2. Goto(c, s)
    BY <1>4
  <2> HIDE DEF s
  <2> QED
    BY <1>0, <1>1, <1>2, <2>1, <2>2, QuietCall
<1> QED
  BY <1>3, <1>4 DEF View, Project

(* Snap, Fetch, Fetched and Put only move the call on.                     *)
LEMMA MoveStep ==
  ASSUME Shape, GuardedFirst, NEW c \in Clients, Snap(c) \/ Fetch(c) \/ Fetched(c) \/ Put(c)
  PROVE  Shape' /\ GuardedFirst'
<1>0. IsCall(call[c]) /\ IsTx(tx) /\ IsHist(hist)
  BY DEF Shape
<1>1. boundary' = boundary /\ hist' = hist /\ tx' = tx
  BY DEF Snap, Fetch, Fetched, Put
<1>2. CASE \E r : Return(c, r)
  BY <1>0, <1>1, <1>2, QuietReturn
<1>3. CASE \E s : IsCall(s) /\ s.pc # "guarded" /\ Goto(c, s)
  BY <1>0, <1>1, <1>3, QuietCall
<1>4. \A pc, rows, q : pc # "guarded" =>
        /\ IsCall([call[c] EXCEPT !.pc = pc, !.rows = rows])
        /\ [call[c] EXCEPT !.pc = pc, !.rows = rows].pc # "guarded"
        /\ IsCall([call[c] EXCEPT !.pc = pc])
        /\ [call[c] EXCEPT !.pc = pc].pc # "guarded"
        /\ IsCall([call[c] EXCEPT !.q = q, !.pc = pc])
        /\ [call[c] EXCEPT !.q = q, !.pc = pc].pc # "guarded"
  BY ZenonT(60), <1>0 DEF IsCall
<1>5. CASE Snap(c) \/ Fetch(c)
  BY <1>3, <1>4, <1>5 DEF Snap, Fetch
<1>6. CASE Fetched(c)
  <2> DEFINE put == PutOf(call[c].q, call[c].rows)
  <2>1. \/ Goto(c, [call[c] EXCEPT !.q = put, !.pc = "direct"])
        \/ Goto(c, NoCall(call[c].q))
        \/ Goto(c, [call[c] EXCEPT !.pc = "snap"])
        \/ Goto(c, [call[c] EXCEPT !.q = put, !.pc = "put"])
    BY <1>6 DEF Fetched
  <2> HIDE DEF put
  <2>2. IsCall(NoCall(call[c].q)) /\ NoCall(call[c].q).pc # "guarded"
    BY NoCallShape
  <2> QED
    BY <1>3, <1>4, <2>1, <2>2
<1>7. CASE Put(c)
  <2>1. \/ Return(c, "refused")
        \/ Goto(c, [call[c] EXCEPT !.pc = "snap"])
        \/ Goto(c, [call[c] EXCEPT !.pc = "direct"])
    BY <1>7 DEF Put
  <2> QED
    BY <1>2, <1>3, <1>4, <2>1
<1> QED
  BY <1>5, <1>6, <1>7

LEMMA DirectStep ==
  ASSUME Shape, GuardedFirst, NEW c \in Clients, Direct(c) PROVE Shape' /\ GuardedFirst'
<1>0. IsTx(tx) /\ IsHist(hist)
  BY DEF Shape
<1>1. boundary' = boundary /\ hist' = hist /\ tx' = tx
  BY DEF Direct
<1> DEFINE s == [NoCall(call[c].q) EXCEPT !.rows = RowsOf(data, T(c))]
<1>2. IsCall(s) /\ s.pc = "done"
  BY DEF IsCall, NoCall
<1>3. Goto(c, s) \/ Return(c, "ok") \/ Return(c, "failed")
  BY DEF Direct
<1> HIDE DEF s
<1> QED
  BY <1>0, <1>1, <1>2, <1>3, QuietCall, QuietReturn

(* The operation joins the queue, and that of a commit that goes through it. *)
LEMMA AddStep ==
  ASSUME Shape, GuardedFirst, NEW c \in Clients, Add(c) PROVE Shape' /\ GuardedFirst'
<1>0. IsTx(tx) /\ IsHist(hist) /\ boundary' = boundary /\ At(c, "add")
  BY DEF Shape, Add
<1>1. CASE ~MayAdd(c)
  BY <1>0, <1>1, QuietReturn DEF Add
<1>2. CASE MayAdd(c)
  <2> DEFINE s == call[c]
             next(d) ==
               CASE d = c -> IF s.q.do \in {"append", "bulk"} THEN [s EXCEPT !.pc = "view", !.rows = <<>>]
                             ELSE NoCall(s.q)
                 [] d # c /\ call[d].list = "live" /\ call[d].pc = "replay" ->
                      [call[d] EXCEPT !.todo = Append(@, s.q)]
                 [] OTHER -> call[d]
  <2>1. /\ tx' = [tx EXCEPT !.ops = Append(@, s.q), !.snaps = Snapshots(T(c), s.rows),
                            !.view = WithoutView(T(c))]
        /\ call' = [d \in Clients |-> next(d)]
        /\ hist' = [hist EXCEPT !.to = Written(@, s.q),
                                !.wrong = @ \cup (IF Owner[c] # tx.owner THEN {"stranger"} ELSE {})]
    BY <1>2 DEF Add
  <2>2. IsTx(tx') /\ tx'.active = tx.active /\ IsHist(hist')
    BY <1>0, <2>1 DEF IsTx, IsHist
  <2>3. \A d \in Clients : IsCall(next(d)) /\ (next(d).pc = "guarded" => call[d].pc = "guarded")
    <3> SUFFICES ASSUME NEW d \in Clients
                 PROVE  IsCall(next(d)) /\ (next(d).pc = "guarded" => call[d].pc = "guarded")
      OBVIOUS
    <3>0. IsCall(call[d]) /\ IsCall(call[c])
      BY DEF Shape
    <3>1. CASE d = c /\ s.q.do \in {"append", "bulk"}
      <4>1. next(d) = [s EXCEPT !.pc = "view", !.rows = <<>>]
        BY <3>1
      <4> QED
        BY <3>0, <4>1 DEF IsCall
    <3>2. CASE d = c /\ s.q.do \notin {"append", "bulk"}
      <4>1. next(d) = NoCall(s.q)
        BY <3>2
      <4> QED
        BY <4>1, NoCallShape
    <3>3. CASE d # c /\ call[d].list = "live" /\ call[d].pc = "replay"
      <4>1. next(d) = [call[d] EXCEPT !.todo = Append(@, s.q)]
        BY <3>3
      <4> QED
        BY <3>0, <4>1 DEF IsCall
    <3>4. CASE d # c /\ ~(call[d].list = "live" /\ call[d].pc = "replay")
      <4>1. next(d) = call[d]
        BY <3>4
      <4> QED
        BY <3>0, <4>1
    <3> QED
      BY <3>1, <3>2, <3>3, <3>4
  <2> HIDE DEF next
  <2>4. \A d \in Clients : call'[d] = next(d)
    BY <2>1
  <2>5. Shape'
    BY <1>0, <2>1, <2>2, <2>3, <2>4 DEF Shape
  <2> QED
    BY <1>0, <2>2, <2>3, <2>4, <2>5, QuietStep
<1> QED
  BY <1>1, <1>2

-----------------------------------------------------------------------------
(* Commit.                                                                 *)

LEMMA ThrownShape ==
  ASSUME Shape, NEW c \in Clients PROVE IsCall(Thrown(c)) /\ Thrown(c).pc # "guarded"
<1>0. IsCall(call[c])
  BY DEF Shape
<1>1. CASE tx.active /\ Allowed(c)
  BY <1>0, <1>1 DEF Thrown, IsCall
<1>2. CASE ~(tx.active /\ Allowed(c))
  BY <1>0, <1>2 DEF Thrown, IsCall
<1> QED
  BY <1>1, <1>2

LEMMA CommitStep ==
  ASSUME Shape, GuardedFirst, NEW c \in Clients,
         Replay(c) \/ EndReplay(c) \/ Finalize(c) \/ Restore(c)
  PROVE  Shape' /\ GuardedFirst'
<1>0. IsCall(call[c]) /\ IsTx(tx) /\ IsHist(hist)
  BY DEF Shape
<1>1. boundary' = boundary
  BY DEF Replay, EndReplay, Finalize, Restore
<1>2. IsTx(tx') /\ tx'.active = tx.active /\ IsHist(hist')
  <2>1. CASE Replay(c)
    <3>1. \/ tx' = [tx EXCEPT !.view = ViewAfter(Head(call[c].todo))]
          \/ tx' = tx
      BY <2>1 DEF Replay
    <3>2. \/ hist' = [hist EXCEPT !.wrong = @ \cup (IF call[c].list = "rolled" THEN {"stray"} ELSE {})]
          \/ hist' = hist
      BY <2>1 DEF Replay
    <3>3. IsTx(tx') /\ tx'.active = tx.active
      BY <1>0, <3>1 DEF IsTx
    <3>4. IsHist(hist')
      BY <1>0, <3>2 DEF IsHist
    <3> QED
      BY <3>3, <3>4
  <2>2. CASE EndReplay(c) \/ Finalize(c) \/ Restore(c)
    BY <1>0, <2>2 DEF EndReplay, Finalize, Restore
  <2> QED
    BY <2>1, <2>2
<1>3. CASE \E s : IsCall(s) /\ s.pc # "guarded" /\ Goto(c, s)
  BY <1>1, <1>2, <1>3, QuietCall
<1>4. IsCall(Thrown(c)) /\ Thrown(c).pc # "guarded"
  BY ThrownShape
<1>5. CASE Replay(c)
  <2> DEFINE s == [call[c] EXCEPT !.todo = Tail(@), !.count = @ + 1]
  <2>1. IsCall(s) /\ s.pc = call[c].pc
    BY <1>0 DEF IsCall
  <2>2. Goto(c, s) \/ Goto(c, Thrown(c))
    BY <1>5 DEF Replay
  <2>3. call[c].pc = "replay"
    BY <1>5 DEF Replay, At
  <2> HIDE DEF s
  <2> QED
    BY <1>3, <1>4, <2>1, <2>2, <2>3
<1>6. CASE EndReplay(c)
  <2> DEFINE s == [call[c] EXCEPT !.pc = "finalize"]
  <2>1. IsCall(s) /\ s.pc = "finalize" /\ Goto(c, s)
    BY <1>0, <1>6 DEF IsCall, EndReplay
  <2> QED
    BY <1>3, <2>1
<1>7. CASE Finalize(c)
  <2> DEFINE s == [call[c] EXCEPT !.pc = "finally"]
  <2>1. IsCall(s) /\ s.pc = "finally"
    BY <1>0 DEF IsCall
  <2>2. Goto(c, s) \/ Goto(c, Thrown(c))
    BY <1>7 DEF Finalize
  <2> QED
    BY <1>3, <1>4, <2>1, <2>2
<1>8. CASE Restore(c)
  <2> DEFINE s == [call[c] EXCEPT !.todo = Tail(@)]
             r == [call[c] EXCEPT !.todo = Tail(@), !.sick = TRUE]
  <2>1. IsCall(s) /\ s.pc = call[c].pc /\ IsCall(r) /\ r.pc = call[c].pc
    BY <1>0 DEF IsCall
  <2>2. Goto(c, s) \/ Goto(c, r)
    BY <1>8 DEF Restore
  <2>3. call[c].pc = "restore"
    BY <1>8 DEF Restore, At
  <2> HIDE DEF s, r
  <2> QED
    BY <1>3, <2>1, <2>2, <2>3
<1> QED
  BY <1>5, <1>6, <1>7, <1>8

(* The transaction ends: no queue is that of the service any more.         *)
LEMMA EndStep ==
  ASSUME Shape, GuardedFirst, NEW c \in Clients, EndRestore(c) \/ Finally(c)
  PROVE  Shape' /\ GuardedFirst'
<1>0. IsCall(call[c]) /\ IsTx(tx) /\ IsHist(hist) /\ boundary' = boundary
  BY DEF Shape, EndRestore, Finally
<1>1. IsTx(tx') /\ (tx'.active => tx.active) /\ IsHist(hist')
  <2>1. CASE EndRestore(c)
    BY <1>0, <2>1, TxShape DEF EndRestore
  <2>2. CASE Finally(c)
    <3>1. tx' = NoTx \/ tx' = tx
      BY <2>2 DEF Finally
    <3>2. \E w : hist' = [hist EXCEPT !.wrong = w]
      BY <2>2 DEF Finally
    <3>3. IsHist(hist')
      BY <1>0, <3>2 DEF IsHist
    <3> QED
      BY <1>0, <3>1, <3>3, TxShape
  <2> QED
    BY <2>1, <2>2
<1>2. PICK s : IsCall(s) /\ s.pc # "guarded" /\ call' = [Ended(call, "ended") EXCEPT ![c] = s]
  <2>1. CASE EndRestore(c)
    <3> DEFINE s == [call[c] EXCEPT !.pc = "finally",
                       !.result = IF call[c].sick THEN "torn" ELSE "failed"]
    <3>1. IsCall(s) /\ s.pc = "finally"
      BY <1>0 DEF IsCall
    <3>2. call' = [Ended(call, "ended") EXCEPT ![c] = s]
      BY <2>1 DEF EndRestore
    <3> HIDE DEF s
    <3> QED
      BY <3>1, <3>2
  <2>2. CASE Finally(c)
    <3> DEFINE s == [NoCall(call[c].q) EXCEPT !.result = call[c].result]
    <3>1. IsCall(s) /\ s.pc = "done"
      BY DEF IsCall, NoCall
    <3>2. call' = [Ended(call, "ended") EXCEPT ![c] = s]
      BY <2>2 DEF Finally
    <3> HIDE DEF s
    <3> QED
      BY <3>1, <3>2
  <2> QED
    BY <2>1, <2>2
<1>3. call' = [d \in Clients |-> IF d = c THEN s ELSE Ended(call, "ended")[d]]
  BY <1>2, EndedShape
<1>4. \A d \in Clients : call'[d] = IF d = c THEN s ELSE Ended(call, "ended")[d]
  BY <1>3
<1>5. \A d \in Clients : IsCall(call'[d]) /\ (call'[d].pc = "guarded" => call[d].pc = "guarded")
  BY <1>2, <1>4, EndedShape
<1>6. call' = [d \in Clients |-> call'[d]]
  BY <1>3
<1>7. Shape'
  BY <1>0, <1>1, <1>5, <1>6 DEF Shape
<1> QED
  BY <1>0, <1>1, <1>5, <1>7, QuietStep

-----------------------------------------------------------------------------
(* A stranger is noted by Add only, which asserts the owner after its read. *)
LEMMA OwnerStep ==
  ASSUME Shape, OnlyOwnerAdds, NEW c \in Clients, Ask(c) \/ Step(c) PROVE OnlyOwnerAdds'
<1>0. IsHist(hist)
  BY DEF Shape
<1>1. CASE hist' = hist
  BY <1>1 DEF OnlyOwnerAdds
<1>2. CASE Begin(c)
  <2>1. hist' = hist \/ hist' = [hist EXCEPT !.from = data, !.to = data]
    BY <1>2 DEF Begin
  <2> QED
    BY <1>0, <2>1 DEF IsHist, OnlyOwnerAdds
<1>3. CASE Add(c)
  <2>1. CASE ~MayAdd(c)
    BY <1>1, <1>3, <2>1 DEF Add
  <2>2. CASE MayAdd(c)
    <3>1. tx.owner = Owner[c]
      BY <2>2 DEF MayAdd, Allowed
    <3>2. hist' = [hist EXCEPT !.to = Written(@, call[c].q),
                               !.wrong = @ \cup (IF Owner[c] # tx.owner THEN {"stranger"} ELSE {})]
      BY <1>3, <2>2 DEF Add
    <3>3. hist'.wrong = hist.wrong \cup {}
      BY <1>0, <3>1, <3>2 DEF IsHist
    <3> QED
      BY <3>3 DEF OnlyOwnerAdds
  <2> QED
    BY <2>1, <2>2
<1>4. CASE Replay(c)
  <2>1. hist' = hist \/ hist' = [hist EXCEPT !.wrong = @ \cup
                                   (IF call[c].list = "rolled" THEN {"stray"} ELSE {})]
    BY <1>4 DEF Replay
  <2> QED
    BY <1>0, <2>1 DEF IsHist, OnlyOwnerAdds
<1>5. CASE Finally(c)
  <2>1. \E foreign, missed \in BOOLEAN :
          hist' = [hist EXCEPT !.wrong = @ \cup (IF foreign THEN {"foreign"} ELSE {})
                                            \cup (IF missed THEN {"missed"} ELSE {})]
    <3> DEFINE foreign == tx.active /\ ~Allowed(c)
               missed == call[c].result = "ok" /\ call[c].list = "live" /\ Len(tx.ops) > call[c].count
    <3>1. hist' = [hist EXCEPT !.wrong = @ \cup (IF foreign THEN {"foreign"} ELSE {})
                                            \cup (IF missed THEN {"missed"} ELSE {})]
      BY <1>5 DEF Finally
    <3> HIDE DEF foreign, missed
    <3>2. CASE foreign /\ missed
      BY <3>1, <3>2
    <3>3. CASE foreign /\ ~missed
      BY <3>1, <3>3
    <3>4. CASE ~foreign /\ missed
      BY <3>1, <3>4
    <3>5. CASE ~foreign /\ ~missed
      BY <3>1, <3>5
    <3> QED
      BY <3>2, <3>3, <3>4, <3>5
  <2> QED
    BY <1>0, <2>1 DEF IsHist, OnlyOwnerAdds
<1> QED
  BY <1>1, <1>2, <1>3, <1>4, <1>5
     DEF Step, Ask, StartGuarded, Guarded, View, Project, Snap, Direct, Fetch, Fetched, Put,
         EndReplay, Finalize, Restore, EndRestore

LEMMA GInvInit == Init => GInv
<1> SUFFICES ASSUME Init PROVE GInv
  OBVIOUS
<1>1. \A c \in Clients : call[c] = NoCall([do |-> "begin"])
  BY DEF Init
<1>2. \A c \in Clients : IsCall(call[c]) /\ call[c].pc = "done"
  BY <1>1, NoCallShape
<1>3. IsTx(tx) /\ IsHist(hist) /\ "stranger" \notin hist.wrong
  BY TxShape DEF Init, IsHist
<1>4. call = [c \in Clients |-> call[c]] /\ boundary \in Seq(Clients)
  BY DEF Init
<1> QED
  BY <1>2, <1>3, <1>4 DEF GInv, Shape, GuardedFirst, At, OnlyOwnerAdds

LEMMA GInvNext == GInv /\ [Next]_vars => GInv'
<1> SUFFICES ASSUME GInv, [Next]_vars PROVE GInv'
  OBVIOUS
<1>1. Shape /\ GuardedFirst /\ OnlyOwnerAdds
  BY DEF GInv
<1>2. CASE UNCHANGED vars
  BY <1>1, <1>2 DEF vars, GInv, Shape, GuardedFirst, OnlyOwnerAdds, At
<1>3. ASSUME NEW c \in Clients, Ask(c) \/ Step(c) PROVE GInv'
  <2>1. Shape' /\ GuardedFirst'
    BY <1>1, <1>3, AskStep, BeginStep, StartGuardedStep, GuardedStep, ViewStep, MoveStep,
       AddStep, DirectStep, CommitStep, EndStep DEF Step
  <2>2. OnlyOwnerAdds'
    BY <1>1, <1>3, OwnerStep
  <2> QED
    BY <2>1, <2>2 DEF GInv
<1> QED
  BY <1>2, <1>3 DEF Next

LEMMA GInvAlways == Spec => []GInv
  BY GInvInit, GInvNext, PTL DEF Spec

(* No table changes its structure, and AutoSync writes nothing, while a    *)
(* transaction is active, whoever waits at the start boundary: the call    *)
(* that is let through is the first in line until its work is over, and    *)
(* only the first in line starts a transaction (runWhenNoTransaction).     *)
THEOREM GuardedOutsideHolds == Spec => []GuardedOutside
<1>1. GInv => GuardedOutside
  BY DEF GInv, GuardedFirst, GuardedOutside
<1> QED
  BY <1>1, GInvAlways, PTL

(* Nobody but its owner adds to a transaction, although the transaction    *)
(* may have ended, or be another's, when the read for the snapshot         *)
(* returns (addOperation).                                                 *)
THEOREM OnlyOwnerAddsHolds == Spec => []OnlyOwnerAdds
<1>1. GInv => OnlyOwnerAdds
  BY DEF GInv
<1> QED
  BY <1>1, GInvAlways, PTL

(* Owners and outsiders keep to themselves, for any clients, requests and  *)
(* tables on either engine (runWhenNoTransaction, assertTransactionOwner). *)
THEOREM SeparatedHolds == Spec => []Separated
<1>1. GuardedOutside /\ OnlyOwnerAdds => Separated
  BY DEF Separated
<1> QED
  BY <1>1, GuardedOutsideHolds, OnlyOwnerAddsHolds, PTL

-----------------------------------------------------------------------------
(* Least numbers, and runs through a sequence                              *)

(* A set of numbers that is not empty has a least element.                 *)
LEMMA Least ==
  ASSUME NEW S, S \subseteq Nat, S # {}
  PROVE  \E n \in S : \A m \in S : n <= m
<1> DEFINE R == OpToRel(<, Nat)
<1>1. PICK n \in S : \A m \in S : ~ (<<m, n>> \in R)
  <2>1. IsWellFoundedOn(R, Nat)
    BY NatLessThanWellFounded
  <2> QED
    BY <2>1, WFMin
<1>2. \A m \in S : ~ (m < n)
  BY <1>1 DEF OpToRel
<1> QED
  BY <1>2

(* g runs through the sequence s, from base, by the steps of f.            *)
IsRun(g, f, base, s) ==
  g = [n \in 0..Len(s) |-> IF n = 0 THEN base ELSE f[<<g[n - 1], s[n]>>]]

LEMMA RunExists ==
  ASSUME NEW A, NEW B, NEW f \in [A \X B -> A], NEW base \in A
  PROVE  \A s \in Seq(B) : \E g : g \in [0..Len(s) -> A] /\ IsRun(g, f, base, s)
<1> DEFINE Has(s) == \E g : g \in [0..Len(s) -> A] /\ IsRun(g, f, base, s)
           S == {n \in Nat : \E s \in Seq(B) : Len(s) = n /\ ~Has(s)}
<1>1. SUFFICES ASSUME S # {} PROVE FALSE
  <2>1. \A s \in Seq(B) : Len(s) \in Nat
    OBVIOUS
  <2>2. S = {} => \A s \in Seq(B) : Has(s)
    BY <2>1
  <2> QED
    BY <2>2
<1>2. PICK n \in S : \A m \in S : n <= m
  <2>1. S \subseteq Nat
    OBVIOUS
  <2> HIDE DEF S
  <2> QED
    BY <1>1, <2>1, Least
<1>3. PICK s \in Seq(B) : Len(s) = n /\ ~Has(s)
  BY <1>2
<1>4. n \in Nat
  OBVIOUS
<1>5. CASE n = 0
  <2> DEFINE g == [k \in 0..0 |-> base]
  <2>1. g \in [0..Len(s) -> A]
    BY <1>3, <1>5
  <2>2. IsRun(g, f, base, s)
    BY <1>3, <1>5 DEF IsRun
  <2> QED
    BY <1>3, <2>1, <2>2
<1>6. CASE n # 0
  <2> DEFINE r == [i \in 1..n - 1 |-> s[i]]
  <2>1. r \in Seq(B) /\ Len(r) = n - 1
    BY <1>3, <1>4, <1>6
  <2>2. Has(r)
    <3>1. Len(r) \notin S
      BY <1>2, <1>4, <1>6, <2>1
    <3>2. n - 1 \in Nat
      BY <1>4, <1>6
    <3> HIDE DEF Has, r
    <3> QED
      BY <2>1, <3>1, <3>2
  <2>3. PICK g : g \in [0..Len(r) -> A] /\ IsRun(g, f, base, r)
    BY <2>2
  <2> DEFINE h == [k \in 0..n |-> IF k = n THEN f[<<g[n - 1], s[n]>>] ELSE g[k]]
  <2>4. g[n - 1] \in A /\ s[n] \in B
    BY SMTT(60), <1>3, <1>4, <1>6, <2>1, <2>3
  <2>5. f[<<g[n - 1], s[n]>>] \in A
    BY <2>4
  <2>6. h \in [0..Len(s) -> A]
    BY <1>3, <1>4, <2>1, <2>3, <2>5
  <2>7. \A k \in 0..n - 1 : g[k] = IF k = 0 THEN base ELSE f[<<g[k - 1], s[k]>>]
    <3>1. \A k \in 0..n - 1 : g[k] = IF k = 0 THEN base ELSE f[<<g[k - 1], r[k]>>]
      BY <2>1, <2>3 DEF IsRun
    <3>2. \A k \in 0..n - 1 : k # 0 => r[k] = s[k]
      BY <1>4
    <3> HIDE DEF r
    <3> QED
      BY <3>1, <3>2
  <2>8. \A k \in 0..n : h[k] = IF k = 0 THEN base ELSE f[<<h[k - 1], s[k]>>]
    <3>1. \A k \in 0..n - 1 : h[k] = g[k]
      BY <1>4
    <3>2. h[n] = f[<<g[n - 1], s[n]>>]
      BY <1>4
    <3>3. \A k \in 0..n : k = n \/ (k \in 0..n - 1 /\ (k # 0 => k - 1 \in 0..n - 1))
      BY <1>4
    <3>4. n - 1 \in 0..n - 1
      BY <1>4, <1>6
    <3> HIDE DEF h
    <3> QED
      BY <1>6, <2>7, <3>1, <3>2, <3>3, <3>4
  <2>9. IsRun(h, f, base, s)
    <3>1. h = [k \in 0..n |-> h[k]]
      OBVIOUS
    <3> HIDE DEF h
    <3> QED
      BY <1>3, <2>8, <3>1 DEF IsRun
  <2> QED
    BY <1>3, <2>6, <2>9
<1> QED
  BY <1>5, <1>6

(* A deletion leaves rows, and none of none.                               *)
LEMMA KeptRows ==
  ASSUME NEW rows \in Rows, NEW v
  PROVE  Kept(rows, v) \in Rows /\ (rows = <<>> => Kept(rows, v) = <<>>)
<1> DEFINE f == [p \in Rows \X Vals |-> IF p[2] = v THEN p[1] ELSE Append(p[1], p[2])]
           Is(g) == g = [n \in 0..Len(rows) |->
                           IF n = 0 THEN <<>>
                           ELSE IF rows[n] = v THEN g[n - 1] ELSE Append(g[n - 1], rows[n])]
<1>1. Kept(rows, v) = (CHOOSE g : Is(g))[Len(rows)]
  BY DEF Kept
<1>2. f \in [Rows \X Vals -> Rows]
  <2>1. \A p \in Rows \X Vals : Append(p[1], p[2]) \in Rows
    BY DEF Rows
  <2> QED
    BY <2>1
<1>3. <<>> \in Rows
  BY DEF Rows
<1>4. PICK g : g \in [0..Len(rows) -> Rows] /\ IsRun(g, f, <<>>, rows)
  <2> HIDE DEF f
  <2> QED
    BY <1>2, <1>3, RunExists DEF Rows
<1>5. \A k \in 1..Len(rows) : rows[k] \in Vals /\ k - 1 \in 0..Len(rows)
  BY DEF Rows
<1>6. Is(g)
  <2>1. \A n \in 0..Len(rows) : n # 0 =>
          f[<<g[n - 1], rows[n]>>] = IF rows[n] = v THEN g[n - 1] ELSE Append(g[n - 1], rows[n])
    BY <1>4, <1>5
  <2>2. g = [n \in 0..Len(rows) |-> IF n = 0 THEN <<>> ELSE f[<<g[n - 1], rows[n]>>]]
    BY <1>4 DEF IsRun
  <2> HIDE DEF f
  <2> QED
    BY <2>1, <2>2
<1>7. \A h : Is(h) => h \in [0..Len(rows) -> Rows]
  <2> SUFFICES ASSUME NEW h, Is(h) PROVE h = g
    BY <1>4
  <2> DEFINE S == {n \in 0..Len(rows) : h[n] # g[n]}
  <2>1. \A n \in 0..Len(rows) : h[n] = IF n = 0 THEN <<>>
                           ELSE IF rows[n] = v THEN h[n - 1] ELSE Append(h[n - 1], rows[n])
    OBVIOUS
  <2>2. \A n \in 0..Len(rows) : g[n] = IF n = 0 THEN <<>>
                           ELSE IF rows[n] = v THEN g[n - 1] ELSE Append(g[n - 1], rows[n])
    BY <1>6
  <2>3. h = [n \in 0..Len(rows) |-> h[n]] /\ g = [n \in 0..Len(rows) |-> g[n]]
    BY <1>6
  <2>4. ASSUME S # {} PROVE FALSE
    <3>1. S \subseteq Nat
      BY DEF Rows
    <3>2. PICK n \in S : \A m \in S : n <= m
      <4> HIDE DEF S
      <4> QED
        BY <2>4, <3>1, Least
    <3>3. n \in 0..Len(rows) /\ h[n] # g[n] /\ Len(rows) \in Nat
      BY DEF Rows
    <3>4. n # 0
      BY <2>1, <2>2, <3>3
    <3>5. n - 1 \in 0..Len(rows) /\ n - 1 \notin S
      BY <3>2, <3>3, <3>4
    <3>6. h[n - 1] = g[n - 1]
      BY <3>5
    <3> HIDE DEF S, Is
    <3> QED
      BY <2>1, <2>2, <3>3, <3>4, <3>6
  <2> QED
    BY <2>3, <2>4
<1>8. PICK h : Is(h) /\ Kept(rows, v) = h[Len(rows)]
  <2> HIDE DEF Is
  <2> QED
    BY <1>1, <1>6
<1>9. Len(rows) \in Nat /\ Len(rows) \in 0..Len(rows)
  BY DEF Rows
<1>10. rows = <<>> => Kept(rows, v) = <<>>
  BY <1>8, <1>9
<1> QED
  BY ZenonT(60), <1>7, <1>8, <1>9, <1>10

(* What is queued, and what a snapshot keeps.                              *)
Ops == {"append", "over", "update", "delete", "bulk"}
OpRequest == {q \in Request : q.do \in Ops}

LEMMA ApplyRows ==
  ASSUME NEW rows \in Rows, NEW q \in Request, q.do \in Ops \cup {"sync"}
  PROVE  /\ Apply(rows, q) \in Rows
         /\ rows = <<>> /\ q.do \in {"update", "delete"} => Apply(rows, q) = <<>>
<1>1. q.rows \in Rows /\ q.old \in Vals /\ q.new \in Vals
  BY DEF Request, Rows
<1>2. \A s \in Rows : Change(s, q) \in Rows /\ (s = <<>> => Change(s, q) = <<>>)
  <2> SUFFICES ASSUME NEW s \in Rows
               PROVE  Change(s, q) \in Rows /\ (s = <<>> => Change(s, q) = <<>>)
    OBVIOUS
  <2>1. s \in Seq(Vals) /\ DOMAIN s = 1..Len(s) /\ Len(s) \in Nat
    BY DEF Rows
  <2>2. Change(s, q) = [i \in 1..Len(s) |-> IF s[i] = q.old THEN q.new ELSE s[i]]
    BY <2>1 DEF Change
  <2>3. \A i \in 1..Len(s) : (IF s[i] = q.old THEN q.new ELSE s[i]) \in Vals
    BY <1>1, <2>1
  <2>4. Change(s, q) \in [1..Len(s) -> Vals]
    BY <2>2, <2>3
  <2>5. Change(s, q) \in Rows
    BY <2>1, <2>4 DEF Rows
  <2>6. s = <<>> => Change(s, q) = <<>>
    BY <2>2
  <2> QED
    BY <2>5, <2>6
<1>3. rows \o q.rows \in Rows
  BY <1>1 DEF Rows
<1>4. Kept(rows, q.old) \in Rows /\ (rows = <<>> => Kept(rows, q.old) = <<>>)
  BY KeptRows
<1>5. CASE q.do = "append"
  BY <1>3, <1>5 DEF Apply
<1>6. CASE q.do \in {"over", "sync"}
  BY <1>1, <1>6 DEF Apply
<1>7. CASE q.do = "update"
  BY <1>2, <1>7 DEF Apply
<1>8. CASE q.do = "delete"
  BY <1>4, <1>8 DEF Apply
<1>9. CASE q.do = "bulk"
  BY <1>2, <1>3, <1>9 DEF Apply
<1> QED
  BY <1>5, <1>6, <1>7, <1>8, <1>9 DEF Ops

-----------------------------------------------------------------------------
(* A queue of operations, seen from one table.                             *)

(* What an operation makes of the rows of t.                               *)
Effect(t, rows, q) == IF q.table = t THEN Apply(rows, q) ELSE rows

(* g goes through the operations as After does.                            *)
IsSeen(g, ops, t, rows) ==
  g = [n \in 0..Len(ops) |->
         IF n = 0 THEN rows
         ELSE IF ops[n].table = t THEN Apply(g[n - 1], ops[n]) ELSE g[n - 1]]

LEMMA AfterIs ==
  ASSUME NEW ops, NEW t, NEW rows
  PROVE  After(ops, t, rows) = (CHOOSE g : IsSeen(g, ops, t, rows))[Len(ops)]
  BY DEF After, IsSeen

LEMMA SeenStep ==
  ASSUME NEW ops, NEW t, NEW rows, NEW g, IsSeen(g, ops, t, rows)
  PROVE  /\ g = [n \in 0..Len(ops) |-> g[n]]
         /\ \A n \in 0..Len(ops) : g[n] = IF n = 0 THEN rows ELSE Effect(t, g[n - 1], ops[n])
  BY DEF IsSeen, Effect

LEMMA StepSeen ==
  ASSUME NEW ops, NEW t, NEW rows, NEW g,
         g = [n \in 0..Len(ops) |-> g[n]],
         \A n \in 0..Len(ops) : g[n] = IF n = 0 THEN rows ELSE Effect(t, g[n - 1], ops[n])
  PROVE  IsSeen(g, ops, t, rows)
<1>1. g = [n \in 0..Len(ops) |-> IF n = 0 THEN rows ELSE Effect(t, g[n - 1], ops[n])]
  OBVIOUS
<1> QED
  BY <1>1 DEF IsSeen, Effect

LEMMA SeenUnique ==
  ASSUME NEW ops, Len(ops) \in Nat, NEW t, NEW rows, NEW g, NEW h,
         IsSeen(g, ops, t, rows), IsSeen(h, ops, t, rows)
  PROVE  g = h
<1> DEFINE S == {n \in 0..Len(ops) : g[n] # h[n]}
<1>1. g = [n \in 0..Len(ops) |-> g[n]] /\ h = [n \in 0..Len(ops) |-> h[n]]
  BY SeenStep
<1>2. \A n \in 0..Len(ops) : /\ g[n] = IF n = 0 THEN rows ELSE Effect(t, g[n - 1], ops[n])
                             /\ h[n] = IF n = 0 THEN rows ELSE Effect(t, h[n - 1], ops[n])
  BY SeenStep
<1>3. ASSUME S # {} PROVE FALSE
  <2>1. S \subseteq Nat
    OBVIOUS
  <2>2. PICK n \in S : \A m \in S : n <= m
    <3> HIDE DEF S
    <3> QED
      BY <1>3, <2>1, Least
  <2>3. n \in 0..Len(ops) /\ g[n] # h[n]
    OBVIOUS
  <2>4. n # 0
    BY <1>2, <2>3
  <2>5. n - 1 \in 0..Len(ops) /\ n - 1 \notin S
    BY <2>2, <2>3, <2>4
  <2>6. g[n - 1] = h[n - 1]
    BY <2>5
  <2> HIDE DEF S
  <2> QED
    BY <1>2, <2>3, <2>4, <2>6
<1> QED
  BY <1>1, <1>3

LEMMA SeenExists ==
  ASSUME NEW ops \in Seq(OpRequest), NEW t, NEW rows \in Rows
  PROVE  \E g : /\ g \in [0..Len(ops) -> Rows] /\ IsSeen(g, ops, t, rows)
                /\ After(ops, t, rows) = g[Len(ops)]
<1> DEFINE f == [p \in Rows \X OpRequest |-> Effect(t, p[1], p[2])]
<1>1. f \in [Rows \X OpRequest -> Rows]
  <2>1. \A p \in Rows \X OpRequest : Effect(t, p[1], p[2]) \in Rows
    BY ApplyRows DEF Effect, OpRequest
  <2> QED
    BY <2>1
<1>2. PICK g : g \in [0..Len(ops) -> Rows] /\ IsRun(g, f, rows, ops)
  <2> HIDE DEF f
  <2> QED
    BY <1>1, RunExists
<1>3. Len(ops) \in Nat /\ \A n \in 1..Len(ops) : ops[n] \in OpRequest /\ n - 1 \in 0..Len(ops)
  OBVIOUS
<1>4. \A n \in 0..Len(ops) : g[n] = IF n = 0 THEN rows ELSE Effect(t, g[n - 1], ops[n])
  <2>1. g = [n \in 0..Len(ops) |-> IF n = 0 THEN rows ELSE f[<<g[n - 1], ops[n]>>]]
    BY <1>2 DEF IsRun
  <2>2. \A n \in 0..Len(ops) : n # 0 => f[<<g[n - 1], ops[n]>>] = Effect(t, g[n - 1], ops[n])
    BY <1>2, <1>3
  <2> HIDE DEF f
  <2> QED
    BY <2>1, <2>2
<1>5. IsSeen(g, ops, t, rows)
  BY <1>2, <1>4, StepSeen
<1>6. IsSeen((CHOOSE h : IsSeen(h, ops, t, rows)), ops, t, rows)
  BY <1>5
<1>7. (CHOOSE h : IsSeen(h, ops, t, rows)) = g
  BY <1>3, <1>5, <1>6, SeenUnique
<1> QED
  BY <1>2, <1>5, <1>7, AfterIs

LEMMA EffectRows ==
  ASSUME NEW t, NEW rows \in Rows, NEW q \in OpRequest PROVE Effect(t, rows, q) \in Rows
  BY ApplyRows DEF Effect, OpRequest

LEMMA AfterRows ==
  ASSUME NEW ops \in Seq(OpRequest), NEW t, NEW rows \in Rows PROVE After(ops, t, rows) \in Rows
<1>1. Len(ops) \in 0..Len(ops)
  OBVIOUS
<1> QED
  BY <1>1, SeenExists

LEMMA AfterNone ==
  ASSUME NEW ops \in Seq(OpRequest), ops = <<>>, NEW t, NEW rows \in Rows
  PROVE  After(ops, t, rows) = rows
<1>1. Len(ops) = 0 /\ 0 \in 0..Len(ops)
  OBVIOUS
<1>2. PICK g : IsSeen(g, ops, t, rows) /\ After(ops, t, rows) = g[Len(ops)]
  BY SeenExists
<1>3. g[0] = rows
  BY <1>1, <1>2, SeenStep
<1> QED
  BY <1>1, <1>2, <1>3

(* One more operation acts on what those before it have left.              *)
LEMMA AfterAppend ==
  ASSUME NEW ops \in Seq(OpRequest), NEW q \in OpRequest, NEW t, NEW rows \in Rows
  PROVE  After(Append(ops, q), t, rows) = Effect(t, After(ops, t, rows), q)
<1> DEFINE n == Len(ops)  more == Append(ops, q)
<1>1. n \in Nat /\ more \in Seq(OpRequest) /\ Len(more) = n + 1 /\ more[n + 1] = q
  OBVIOUS
<1>2. \A i \in 1..n : more[i] = ops[i]
  OBVIOUS
<1>3. PICK g : /\ g \in [0..Len(more) -> Rows] /\ IsSeen(g, more, t, rows)
               /\ After(more, t, rows) = g[Len(more)]
  <2> HIDE DEF more
  <2> QED
    BY <1>1, SeenExists
<1>4. \A i \in 0..Len(more) : g[i] = IF i = 0 THEN rows ELSE Effect(t, g[i - 1], more[i])
  <2> HIDE DEF more
  <2> QED
    BY <1>3, SeenStep
<1> HIDE DEF more, n
<1> DEFINE h == [i \in 0..n |-> g[i]]
<1>5. \A i \in 0..n : h[i] = IF i = 0 THEN rows ELSE Effect(t, h[i - 1], ops[i])
  <2>1. \A i \in 0..n : i # 0 => i \in 1..n /\ i - 1 \in 0..n /\ i \in 0..n + 1
    BY <1>1
  <2>2. \A i \in 0..n : h[i] = g[i]
    OBVIOUS
  <2>3. 0 \in 0..n + 1
    BY <1>1
  <2> HIDE DEF h
  <2> QED
    BY <1>1, <1>2, <1>4, <2>1, <2>2, <2>3
<1>6. h = [i \in 0..n |-> h[i]]
  OBVIOUS
<1>7. h[n] = g[n] /\ n + 1 \in 0..n + 1 /\ n + 1 # 0 /\ (n + 1) - 1 = n
  BY <1>1
<1> HIDE DEF h
<1>8. IsSeen(h, ops, t, rows)
  BY <1>5, <1>6, StepSeen DEF n
<1>9. After(ops, t, rows) = h[n]
  <2>1. PICK k : IsSeen(k, ops, t, rows) /\ After(ops, t, rows) = k[Len(ops)]
    BY SeenExists
  <2>2. k = h
    BY <1>1, <1>8, <2>1, SeenUnique DEF n
  <2> QED
    BY <2>1, <2>2 DEF n
<1>10. g[n + 1] = Effect(t, g[n], q)
  BY <1>1, <1>4, <1>7
<1> QED
  BY <1>1, <1>3, <1>7, <1>9, <1>10 DEF more

(* The first operation acts on the rows, and the others on what it left.   *)
LEMMA AfterFirst ==
  ASSUME NEW ops \in Seq(OpRequest), ops # <<>>, NEW t, NEW rows \in Rows
  PROVE  After(ops, t, rows) = After(Tail(ops), t, Effect(t, rows, Head(ops)))
<1> DEFINE n == Len(ops)  rest == Tail(ops)  first == Effect(t, rows, Head(ops))
<1>1. /\ n \in Nat /\ n # 0 /\ rest \in Seq(OpRequest) /\ Len(rest) = n - 1
      /\ Head(ops) = ops[1] /\ Head(ops) \in OpRequest
  OBVIOUS
<1>2. \A i \in 1..n - 1 : rest[i] = ops[i + 1]
  OBVIOUS
<1>3. first \in Rows
  BY <1>1, EffectRows
<1>4. PICK g : /\ g \in [0..n -> Rows] /\ IsSeen(g, ops, t, rows)
               /\ After(ops, t, rows) = g[n]
  BY SeenExists
<1>5. \A i \in 0..n : g[i] = IF i = 0 THEN rows ELSE Effect(t, g[i - 1], ops[i])
  BY <1>4, SeenStep
<1>6. first = Effect(t, rows, ops[1])
  BY <1>1
<1> HIDE DEF n, rest, first
<1> DEFINE h == [i \in 0..n - 1 |-> g[i + 1]]
<1>7. \A i \in 0..n - 1 : h[i] = IF i = 0 THEN first ELSE Effect(t, h[i - 1], rest[i])
  <2>1. h[0] = g[1] /\ g[1] = Effect(t, g[0], ops[1]) /\ g[0] = rows
    <3>1. 0 \in 0..n - 1 /\ 1 \in 0..n /\ 0 \in 0..n /\ 0 + 1 = 1 /\ 1 - 1 = 0 /\ 1 # 0
      BY <1>1
    <3>2. h[0] = g[0 + 1]
      BY <3>1
    <3> QED
      BY <1>5, <3>1, <3>2
  <2>2. \A i \in 1..n - 1 : /\ i - 1 \in 0..n - 1 /\ i \in 0..n - 1 /\ (i - 1) + 1 = i
                            /\ i + 1 \in 0..n /\ (i + 1) - 1 = i /\ i + 1 # 0
    BY <1>1
  <2>3. \A i \in 1..n - 1 : h[i] = g[i + 1] /\ h[i - 1] = g[i]
    BY <2>2
  <2>4. \A i \in 0..n - 1 : i = 0 \/ i \in 1..n - 1
    BY <1>1
  <2>5. \A i \in 1..n - 1 : i # 0
    BY <1>1
  <2> HIDE DEF h
  <2>6. \A i \in 1..n - 1 : h[i] = Effect(t, h[i - 1], rest[i])
    BY <1>2, <1>5, <2>2, <2>3
  <2> QED
    BY <1>6, <2>1, <2>4, <2>5, <2>6
<1>8. h = [i \in 0..n - 1 |-> h[i]]
  OBVIOUS
<1>9. h[n - 1] = g[n]
  <2>1. n - 1 \in 0..n - 1 /\ (n - 1) + 1 = n
    BY <1>1
  <2>2. h[n - 1] = g[(n - 1) + 1]
    BY <2>1
  <2> QED
    BY <2>1, <2>2
<1> HIDE DEF h
<1>10. IsSeen(h, rest, t, first)
  BY <1>1, <1>7, <1>8, StepSeen
<1>11. After(rest, t, first) = h[n - 1]
  <2>1. PICK k : IsSeen(k, rest, t, first) /\ After(rest, t, first) = k[Len(rest)]
    BY <1>1, <1>3, SeenExists
  <2>2. k = h
    BY <1>1, <1>10, <2>1, SeenUnique
  <2> QED
    BY <1>1, <2>1, <2>2
<1> QED
  BY <1>4, <1>9, <1>11 DEF rest, first

-----------------------------------------------------------------------------
(* Tables                                                                  *)

Data == [Tables -> Rows \cup {NoTable}]
Creates(q) == q.do \notin {"update", "delete"}

LEMMA RowsOfRows ==
  ASSUME NEW d \in Data, NEW t \in Tables PROVE RowsOf(d, t) \in Rows
  BY DEF RowsOf, Data, Rows

(* An operation on the tables acts on the rows of each of them; it creates *)
(* its table unless it is an update or a deletion.                         *)
LEMMA WrittenIs ==
  ASSUME NEW d \in Data, NEW q \in Request, q.do \in Ops \cup {"sync"}
  PROVE  /\ Written(d, q) \in Data
         /\ \A t \in Tables :
              /\ RowsOf(Written(d, q), t) = Effect(t, RowsOf(d, t), q)
              /\ Written(d, q)[t] = NoTable <=> d[t] = NoTable /\ ~(q.table = t /\ Creates(q))
              /\ q.table # t => Written(d, q)[t] = d[t]
<1>1. q.table \in Tables
  BY DEF Request
<1>2. RowsOf(d, q.table) \in Rows /\ NoTable \notin Rows
  BY <1>1, RowsOfRows, TransactionsAssumption DEF Rows
<1>3. Apply(RowsOf(d, q.table), q) \in Rows
  BY <1>2, ApplyRows
<1>4. CASE d[q.table] = NoTable /\ ~Creates(q)
  <2>1. Written(d, q) = d
    BY <1>4 DEF Written, Creates
  <2>2. RowsOf(d, q.table) = <<>> /\ Apply(RowsOf(d, q.table), q) = <<>>
    BY <1>2, <1>4, ApplyRows DEF RowsOf, Creates
  <2>3. \A t \in Tables : Effect(t, RowsOf(d, t), q) = RowsOf(d, t)
    BY <2>2 DEF Effect
  <2> QED
    BY <1>4, <2>1, <2>3
<1>5. CASE ~(d[q.table] = NoTable /\ ~Creates(q))
  <2> DEFINE new == Apply(RowsOf(d, q.table), q)
  <2>1. Written(d, q) = [d EXCEPT ![q.table] = new]
    BY <1>5 DEF Written, Creates
  <2> HIDE DEF new
  <2>2. Written(d, q) \in Data /\ Written(d, q)[q.table] = new
    BY <1>1, <1>3, <2>1 DEF Data, new
  <2>3. \A t \in Tables : q.table # t => Written(d, q)[t] = d[t]
    BY <2>1 DEF Data
  <2>4. new # NoTable
    BY <1>2, <1>3 DEF new
  <2> QED
    BY <1>5, <2>2, <2>3, <2>4 DEF RowsOf, Effect, new
<1> QED
  BY <1>4, <1>5

-----------------------------------------------------------------------------
(* What the state is made of                                               *)

Snapshot == [table: Tables, rows: Rows, existed: BOOLEAN]
Committing == {"replay", "finalize", "restore", "finally"}

(* What a call does where it is.                                           *)
Suits(pc, do) ==
  /\ pc \in {"queue", "guarded"} => do \in {"begin", "create", "drop", "sync"}
  /\ pc = "guarded" => do # "begin"
  /\ pc \in {"view", "project"} => do \in {"read", "append", "update", "delete", "bulk"}
  /\ pc \in {"snap", "add"} => do \in Ops
  /\ pc = "direct" => do = "read" \/ do \in Ops
  /\ pc \in {"fetch", "fetched"} => do \in {"update", "bulk"}
  /\ pc = "put" => do = "over"
  /\ pc \in Committing => do = "commit"

CallTyped(s) ==
  /\ s.pc # "done" => s.q \in Request /\ s.rows \in Rows
  /\ Suits(s.pc, s.q.do)
  /\ s.pc = "replay" => s.todo \in Seq(OpRequest)
  /\ s.pc = "restore" => s.todo \in Seq(Snapshot)
  /\ s.pc \in Committing => s.base \in Data

ViewTyped(v) == DOMAIN v \subseteq Tables /\ \A t \in DOMAIN v : v[t] \in Rows
OneEach(snaps) == \A i, j \in 1..Len(snaps) : snaps[i].table = snaps[j].table => i = j

TxTyped(x) ==
  /\ x.owner \in Owners /\ x.ops \in Seq(OpRequest)
  /\ x.snaps \in Seq(Snapshot) /\ OneEach(x.snaps) /\ ViewTyped(x.view)

TInv ==
  /\ Shape /\ scope \in Scope /\ data \in Data /\ TxTyped(tx)
  /\ \A c \in Clients : CallTyped(call[c])

LEMMA NoTxTyped == ASSUME NEW c \in Clients PROVE TxTyped(NoTx)
<1>1. NoTx.owner \in Owners
  BY DEF NoTx, Owners
<1>2. ViewTyped(NoTx.view)
  BY DEF NoTx, ViewTyped
<1>3. NoTx.ops \in Seq(OpRequest) /\ NoTx.snaps \in Seq(Snapshot) /\ OneEach(NoTx.snaps)
  BY DEF NoTx, OneEach
<1> QED
  BY <1>1, <1>2, <1>3 DEF TxTyped

LEMMA DoneTyped == ASSUME NEW s, s.pc = "done" PROVE CallTyped(s)
  BY DEF CallTyped, Suits, Committing

LEMMA WithViewTyped ==
  ASSUME ViewTyped(tx.view), NEW t \in Tables, NEW rows \in Rows
  PROVE  ViewTyped(WithView(t, rows)) /\ ViewTyped(WithoutView(t))
  BY DEF ViewTyped, WithView, WithoutView

(* The calls after a step of c, whose call becomes s.                      *)
LEMMA GotoTyped ==
  ASSUME TInv, NEW c \in Clients, NEW s, IsCall(s), CallTyped(s), Goto(c, s)
  PROVE  \A d \in Clients : CallTyped(call'[d])
<1>1. \A d \in Clients : call'[d] = IF d = c THEN s ELSE call[d]
  BY GotoShape DEF TInv
<1> QED
  BY <1>1 DEF TInv

LEMMA ReturnTyped ==
  ASSUME TInv, NEW c \in Clients, NEW result, Return(c, result)
  PROVE  \A d \in Clients : CallTyped(call'[d])
<1>1. (\A d \in Clients : d # c => call'[d] = call[d]) /\ call'[c].pc = "done"
  BY ReturnShape DEF TInv
<1> QED
  BY <1>1, DoneTyped DEF TInv

LEMMA EndedTyped ==
  ASSUME TInv, NEW how, NEW d \in Clients
  PROVE  /\ CallTyped(Ended(call, how)[d])
         /\ \E l : Ended(call, how)[d] = [call[d] EXCEPT !.list = l]
<1>1. Ended(call, how)[d] = IF call[d].list = "live" THEN [call[d] EXCEPT !.list = how] ELSE call[d]
  BY DEF Ended
<1>2. IsCall(call[d]) /\ CallTyped(call[d])
  BY DEF TInv, Shape
<1>3. call[d] = [call[d] EXCEPT !.list = call[d].list]
  BY <1>2 DEF IsCall
<1>4. PICK l : Ended(call, how)[d] = [call[d] EXCEPT !.list = l]
  BY <1>1, <1>3
<1> DEFINE e == [call[d] EXCEPT !.list = l]
<1>5. /\ e.pc = call[d].pc /\ e.q = call[d].q /\ e.rows = call[d].rows
      /\ e.todo = call[d].todo /\ e.base = call[d].base
  BY <1>2 DEF IsCall
<1> HIDE DEF e
<1>6. CallTyped(e)
  BY <1>2, <1>5 DEF CallTyped
<1> QED
  BY <1>4, <1>6 DEF e

LEMMA FirstSuits ==
  ASSUME NEW q \in Request
  PROVE  Suits(FirstStep(q), q.do) /\ FirstStep(q) # "restore"
                                   /\ (FirstStep(q) \in Committing <=> q.do = "commit")
<1>0. q.do \in Kinds
  BY DEF Request
<1>1. CASE q.do \in {"begin", "create", "drop", "sync"}
  BY <1>1 DEF FirstStep, Suits, Committing
<1>2. CASE q.do = "commit"
  BY <1>2 DEF FirstStep, Suits, Committing
<1>3. CASE q.do \in {"append", "over"}
  BY <1>3 DEF FirstStep, Suits, Committing, Ops
<1>4. CASE q.do \in {"read", "delete"}
  BY <1>4 DEF FirstStep, Suits, Committing, Ops
<1>5. CASE q.do = "update"
  BY <1>5 DEF FirstStep, Suits, Committing, Ops
<1>6. CASE q.do = "bulk"
  BY <1>6 DEF FirstStep, Suits, Committing, Ops
<1>7. CASE q.do = "rollback"
  BY <1>7 DEF FirstStep, Suits, Committing, Ops
<1> QED
  BY <1>0, <1>1, <1>2, <1>3, <1>4, <1>5, <1>6, <1>7 DEF Kinds

LEMMA AskTyped ==
  ASSUME TInv, NEW c \in Clients, Ask(c)
  PROVE  data' \in Data /\ TxTyped(tx') /\ \A d \in Clients : CallTyped(call'[d])
<1>0. data' = data /\ data \in Data /\ TxTyped(tx) /\ scope \in Scope /\ Shape
  BY DEF Ask, TInv
<1>1. PICK q \in scope.requests[c] :
       IF Refused(c, q)
       THEN Goto(c, [NoCall(q) EXCEPT !.result = "refused"]) /\ UNCHANGED <<tx, boundary>>
       ELSE LET s == [NoCall(q) EXCEPT !.pc = FirstStep(q)] IN
            \/ /\ q.do = "rollback"
               /\ tx' = NoTx /\ call' = [Ended(call, "rolled") EXCEPT ![c] = s]
               /\ UNCHANGED boundary
            \/ /\ q.do = "commit"
               /\ Goto(c, [s EXCEPT !.todo = tx.ops, !.list = "live", !.base = data])
               /\ UNCHANGED <<tx, boundary>>
            \/ /\ q.do \notin {"rollback", "commit"}
               /\ Goto(c, s)
               /\ boundary' = IF s.pc = "queue" THEN Append(boundary, c) ELSE boundary
               /\ UNCHANGED tx
  BY DEF Ask
<1>2. q \in Request
  BY <1>0, <1>1 DEF Scope
<1> DEFINE s == [NoCall(q) EXCEPT !.pc = FirstStep(q)]
<1>3. IsCall(s) /\ s.pc = FirstStep(q) /\ s.q = q /\ s.rows = <<>>
  BY DEF IsCall, NoCall
<1>4. <<>> \in Rows
  BY DEF Rows
<1>5. CASE Refused(c, q)
  <2> DEFINE r == [NoCall(q) EXCEPT !.result = "refused"]
  <2>1. IsCall(r) /\ r.pc = "done"
    BY DEF IsCall, NoCall
  <2>2. Goto(c, r) /\ tx' = tx
    BY <1>1, <1>5
  <2> HIDE DEF r
  <2> QED
    BY <1>0, <2>1, <2>2, GotoTyped, DoneTyped
<1>6. CASE ~Refused(c, q) /\ q.do = "rollback"
  <2>1. tx' = NoTx /\ call' = [Ended(call, "rolled") EXCEPT ![c] = s]
    BY <1>1, <1>6
  <2>2. CallTyped(s)
    BY <1>3, <1>6, DoneTyped DEF FirstStep
  <2> HIDE DEF s
  <2>3. \A d \in Clients : call'[d] = IF d = c THEN s ELSE Ended(call, "rolled")[d]
    BY <1>0, <2>1, EndedShape
  <2> QED
    BY <1>0, <2>1, <2>2, <2>3, EndedTyped, NoTxTyped
<1>7. CASE ~Refused(c, q) /\ q.do = "commit"
  <2> DEFINE r == [s EXCEPT !.todo = tx.ops, !.list = "live", !.base = data]
  <2>1. Goto(c, r) /\ tx' = tx
    BY <1>1, <1>7
  <2>2. /\ IsCall(r) /\ r.pc = FirstStep(q) /\ r.q = q /\ r.rows = <<>>
        /\ r.todo = tx.ops /\ r.base = data
    <3> HIDE DEF s
    <3> QED
      BY <1>3 DEF IsCall
  <2> HIDE DEF r, s
  <2>3. CallTyped(r)
    BY <1>0, <1>2, <1>4, <2>2, FirstSuits DEF CallTyped, TxTyped
  <2> QED
    BY <1>0, <2>1, <2>2, <2>3, GotoTyped
<1>8. CASE ~Refused(c, q) /\ q.do \notin {"rollback", "commit"}
  <2>1. Goto(c, s) /\ tx' = tx
    BY <1>1, <1>8
  <2> HIDE DEF s
  <2>2. CallTyped(s)
    BY <1>2, <1>3, <1>4, <1>8, FirstSuits DEF CallTyped, Committing
  <2> QED
    BY <1>0, <1>3, <2>1, <2>2, GotoTyped
<1> QED
  BY <1>5, <1>6, <1>7, <1>8

LEMMA BoundaryTyped ==
  ASSUME TInv, NEW c \in Clients, Begin(c) \/ StartGuarded(c) \/ Guarded(c)
  PROVE  data' \in Data /\ TxTyped(tx') /\ \A d \in Clients : CallTyped(call'[d])
<1>0. data \in Data /\ TxTyped(tx) /\ Shape /\ IsCall(call[c]) /\ CallTyped(call[c])
  BY DEF TInv, Shape
<1>1. CASE Begin(c)
  <2>1. data' = data /\ \E r : Return(c, r)
    BY <1>1 DEF Begin
  <2>2. tx' = tx \/ tx' = [NoTx EXCEPT !.active = TRUE, !.owner = Owner[c]]
    BY <1>1 DEF Begin
  <2>3. TxTyped([NoTx EXCEPT !.active = TRUE, !.owner = Owner[c]])
    <3> DEFINE x == [NoTx EXCEPT !.active = TRUE, !.owner = Owner[c]]
    <3>1. x.owner = Owner[c] /\ x.ops = NoTx.ops /\ x.snaps = NoTx.snaps /\ x.view = NoTx.view
      BY DEF NoTx
    <3>2. Owner[c] \in Owners
      BY DEF Owners
    <3> HIDE DEF x
    <3> QED
      BY <3>1, <3>2, NoTxTyped DEF TxTyped
  <2> QED
    BY <1>0, <2>1, <2>2, <2>3, ReturnTyped
<1>2. CASE StartGuarded(c)
  <2>1. data' = data /\ tx' = tx
    BY <1>2 DEF StartGuarded
  <2>2. CASE \E r : Return(c, r)
    BY <1>0, <2>1, <2>2, ReturnTyped
  <2>3. CASE Goto(c, [call[c] EXCEPT !.pc = "guarded"])
    <3> DEFINE s == [call[c] EXCEPT !.pc = "guarded"]
    <3>1. IsCall(s) /\ s.pc = "guarded" /\ s.q = call[c].q /\ s.rows = call[c].rows
      BY <1>0 DEF IsCall
    <3>2. call[c].pc = "queue" /\ call[c].q.do # "begin"
      BY <1>2 DEF StartGuarded, At
    <3>3. Goto(c, s)
      BY <2>3
    <3> HIDE DEF s
    <3>4. CallTyped(s)
      BY <1>0, <3>1, <3>2 DEF CallTyped, Suits, Committing
    <3> QED
      BY <1>0, <2>1, <3>1, <3>3, <3>4, GotoTyped
  <2> QED
    BY <1>2, <2>2, <2>3 DEF StartGuarded
<1>3. CASE Guarded(c)
  <2>1. tx' = tx /\ \E r : Return(c, r)
    BY <1>3 DEF Guarded
  <2> DEFINE q == call[c].q
  <2>2. q \in Request /\ q.table \in Tables /\ q.rows \in Rows /\ q.do \in {"create", "drop", "sync"}
    BY <1>0, <1>3 DEF Guarded, At, CallTyped, Suits, Request, Rows
  <2>3. \/ data' = data
        \/ q.do = "drop" /\ data' = [data EXCEPT ![q.table] = NoTable]
        \/ q.do = "create" /\ data' = [data EXCEPT ![q.table] = IF @ = NoTable THEN q.rows ELSE @]
        \/ q.do = "sync" /\ data' = Written(data, q)
    BY <1>3, <2>2 DEF Guarded
  <2> HIDE DEF q
  <2>4. data' \in Data
    <3>1. CASE q.do = "sync" /\ data' = Written(data, q)
      BY <1>0, <2>2, <3>1, WrittenIs
    <3> QED
      BY <1>0, <2>2, <2>3, <3>1 DEF Data
  <2> QED
    BY <1>0, <2>1, <2>4, ReturnTyped
<1> QED
  BY <1>1, <1>2, <1>3

LEMMA PutTyped ==
  ASSUME NEW q \in Request, q.do \in Ops, NEW rows \in Rows
  PROVE  PutOf(q, rows) \in Request /\ PutOf(q, rows).do = "over" /\ PutOf(q, rows).table = q.table
<1>1. Apply(rows, q) \in Seq(Vals)
  BY ApplyRows DEF Rows
<1>2. "over" \in Kinds
  BY DEF Kinds
<1> QED
  BY <1>1, <1>2 DEF PutOf, Request

LEMMA AfterViewTyped ==
  ASSUME NEW s, IsCall(s), CallTyped(s), s.pc \in {"view", "project"}, NEW rows \in Rows
  PROVE  CallTyped(AfterView(s, rows))
<1>0. s.q \in Request /\ s.rows \in Rows /\ <<>> \in Rows
  BY DEF CallTyped, Rows
<1>1. CASE s.q.do = "update" /\ Matches(rows, s.q)
  <2> DEFINE r == AfterView(s, rows)
  <2>1. r = [s EXCEPT !.pc = IF tx.active THEN "snap" ELSE "put", !.rows = <<>>,
                      !.q = IF tx.active THEN @ ELSE PutOf(s.q, rows)]
    BY <1>1 DEF AfterView
  <2>2. /\ r.pc = (IF tx.active THEN "snap" ELSE "put") /\ r.rows = <<>>
        /\ r.q = IF tx.active THEN s.q ELSE PutOf(s.q, rows)
    BY <2>1 DEF IsCall
  <2>3. PutOf(s.q, rows) \in Request /\ PutOf(s.q, rows).do = "over"
    BY <1>0, <1>1, PutTyped DEF Ops
  <2> HIDE DEF r
  <2>4. CallTyped(r)
    <3>1. CASE tx.active
      BY <1>0, <1>1, <2>2, <3>1 DEF CallTyped, Suits, Committing, Ops
    <3>2. CASE ~tx.active
      BY <1>0, <1>1, <2>2, <2>3, <3>2 DEF CallTyped, Suits, Committing, Ops
    <3> QED
      BY <3>1, <3>2
  <2> QED
    BY <2>4 DEF r
<1>2. CASE s.q.do = "delete"
  <2> DEFINE r == AfterView(s, rows)
  <2>1. r = [s EXCEPT !.pc = "snap", !.rows = <<>>]
    BY <1>2 DEF AfterView
  <2>2. r.pc = "snap" /\ r.rows = <<>> /\ r.q = s.q
    BY <2>1 DEF IsCall
  <2> HIDE DEF r
  <2>3. CallTyped(r)
    BY <1>0, <1>2, <2>2 DEF CallTyped, Suits, Committing, Ops
  <2> QED
    BY <2>3 DEF r
<1>3. CASE s.q.do # "delete" /\ ~(s.q.do = "update" /\ Matches(rows, s.q))
  <2>1. AfterView(s, rows).pc = "done"
    BY <1>3 DEF AfterView, NoCall
  <2> QED
    BY <2>1, DoneTyped
<1> QED
  BY <1>1, <1>2, <1>3

LEMMA ProjectedRows ==
  ASSUME TxTyped(tx), NEW t, NEW rows \in Rows PROVE Projected(t, rows) \in Rows
  BY AfterRows DEF TxTyped, Projected

LEMMA ViewStepTyped ==
  ASSUME TInv, NEW c \in Clients, View(c) \/ Project(c)
  PROVE  data' \in Data /\ TxTyped(tx') /\ \A d \in Clients : CallTyped(call'[d])
<1>0. data \in Data /\ TxTyped(tx) /\ Shape /\ IsCall(call[c]) /\ CallTyped(call[c]) /\ IsTx(tx)
  BY DEF TInv, Shape
<1>1. data' = data /\ call[c].pc \in {"view", "project"}
  BY DEF View, Project, At
<1>2. T(c) \in Tables /\ call[c].rows \in Rows
  BY <1>0, <1>1 DEF CallTyped, T, Request
<1>3. ASSUME NEW rows \in Rows, Goto(c, AfterView(call[c], rows))
      PROVE  \A d \in Clients : CallTyped(call'[d])
  BY <1>0, <1>1, <1>3, AfterViewTyped, AfterViewShape, GotoTyped
<1>4. CASE View(c)
  <2>1. tx' = tx
    BY <1>4 DEF View
  <2>2. CASE T(c) \in DOMAIN tx.view
    <3>1. tx.view[T(c)] \in Rows
      BY <1>0, <2>2 DEF TxTyped, ViewTyped
    <3> QED
      BY <1>0, <1>1, <1>3, <1>4, <2>1, <2>2, <3>1 DEF View
  <2>3. CASE T(c) \notin DOMAIN tx.view
    <3> DEFINE s == [call[c] EXCEPT !.pc = "project", !.rows = RowsOf(data, T(c))]
    <3>1. Goto(c, s)
      BY <1>4, <2>3 DEF View
    <3>2. IsCall(s) /\ s.pc = "project" /\ s.rows = RowsOf(data, T(c)) /\ s.q = call[c].q
      BY <1>0 DEF IsCall
    <3> HIDE DEF s
    <3>3. RowsOf(data, T(c)) \in Rows
      BY <1>0, <1>2, RowsOfRows
    <3>4. call[c].pc = "view"
      BY <1>4 DEF View, At
    <3>5. CallTyped(s)
      BY <1>0, <3>2, <3>3, <3>4 DEF CallTyped, Suits, Committing
    <3> QED
      BY <1>0, <1>1, <2>1, <3>1, <3>2, <3>5, GotoTyped
  <2> QED
    BY <2>2, <2>3
<1>5. CASE Project(c)
  <2> DEFINE rows == Projected(T(c), call[c].rows)
  <2>1. tx' = [tx EXCEPT !.view = WithView(T(c), rows)] /\ Goto(c, AfterView(call[c], rows))
    BY <1>5 DEF Project
  <2>2. rows \in Rows
    BY <1>0, <1>2, ProjectedRows
  <2> HIDE DEF rows
  <2>3. ViewTyped(WithView(T(c), rows))
    BY <1>0, <1>2, <2>2, WithViewTyped DEF TxTyped
  <2>4. /\ tx'.owner = tx.owner /\ tx'.ops = tx.ops /\ tx'.snaps = tx.snaps
        /\ tx'.view = WithView(T(c), rows)
    BY <1>0, <2>1 DEF IsTx
  <2>5. TxTyped(tx')
    BY <1>0, <2>3, <2>4 DEF TxTyped
  <2> QED
    BY <1>0, <1>1, <1>3, <2>1, <2>2, <2>5
<1> QED
  BY <1>4, <1>5

LEMMA MoveTyped ==
  ASSUME TInv, NEW c \in Clients, Snap(c) \/ Fetch(c) \/ Fetched(c) \/ Put(c) \/ Direct(c)
  PROVE  data' \in Data /\ TxTyped(tx') /\ \A d \in Clients : CallTyped(call'[d])
<1>0. data \in Data /\ TxTyped(tx) /\ Shape /\ IsCall(call[c]) /\ CallTyped(call[c]) /\ IsTx(tx)
  BY DEF TInv, Shape
<1>1. tx' = tx /\ call[c].pc \in {"snap", "fetch", "fetched", "put", "direct"}
  BY DEF Snap, Fetch, Fetched, Put, Direct, At
<1>2. call[c].q \in Request /\ T(c) \in Tables /\ call[c].rows \in Rows
  BY <1>0, <1>1 DEF CallTyped, T, Request
<1>3. RowsOf(data, T(c)) \in Rows
  BY <1>0, <1>2, RowsOfRows
<1>5. CASE Snap(c) \/ Fetch(c)
  <2> DEFINE to == IF Snap(c) THEN "add" ELSE "fetched"
             s == [call[c] EXCEPT !.pc = to, !.rows = RowsOf(data, T(c))]
  <2>1. Goto(c, s) /\ data' = data
    BY <1>5 DEF Snap, Fetch
  <2>2. IsCall(s) /\ s.pc = to /\ s.rows = RowsOf(data, T(c)) /\ s.q = call[c].q
    BY <1>0 DEF IsCall
  <2>3. (to = "add" /\ call[c].pc = "snap") \/ (to = "fetched" /\ call[c].pc = "fetch")
    BY <1>5 DEF Snap, Fetch, At
  <2> HIDE DEF s, to
  <2>4. CallTyped(s)
    BY <1>0, <1>2, <1>3, <2>2, <2>3 DEF CallTyped, Suits, Committing
  <2> QED
    BY <1>0, <1>1, <2>1, <2>2, <2>4, GotoTyped
<1>6. CASE Fetched(c)
  <2> DEFINE put == PutOf(call[c].q, call[c].rows)
             direct == [call[c] EXCEPT !.q = put, !.pc = "direct"]
             later == [call[c] EXCEPT !.q = put, !.pc = "put"]
             snap == [call[c] EXCEPT !.pc = "snap"]
  <2>1. \/ Goto(c, direct)
        \/ Goto(c, NoCall(call[c].q))
        \/ Goto(c, snap)
        \/ Goto(c, later)
    BY <1>6 DEF Fetched
  <2>2. data' = data /\ call[c].pc = "fetched"
    BY <1>6 DEF Fetched, At
  <2>3. call[c].q.do \in {"update", "bulk"}
    BY <1>0, <2>2 DEF CallTyped, Suits
  <2>4. put \in Request /\ put.do = "over"
    BY <1>2, <2>3, PutTyped DEF Ops
  <2>5. /\ IsCall(direct) /\ direct.pc = "direct" /\ direct.q = put /\ direct.rows \in Rows
        /\ IsCall(later) /\ later.pc = "put" /\ later.q = put /\ later.rows \in Rows
        /\ IsCall(snap) /\ snap.pc = "snap" /\ snap.q = call[c].q /\ snap.rows \in Rows
    BY <1>0, <1>2 DEF IsCall
  <2> HIDE DEF put, direct, later, snap
  <2>6. CallTyped(direct) /\ CallTyped(later) /\ CallTyped(snap)
    BY <1>2, <2>3, <2>4, <2>5 DEF CallTyped, Suits, Committing, Ops
  <2>7. IsCall(NoCall(call[c].q)) /\ CallTyped(NoCall(call[c].q))
    BY NoCallShape, DoneTyped
  <2> QED
    BY <1>0, <1>1, <2>1, <2>2, <2>5, <2>6, <2>7, GotoTyped
<1>7. CASE Put(c)
  <2> DEFINE direct == [call[c] EXCEPT !.pc = "direct"]
             snap == [call[c] EXCEPT !.pc = "snap"]
  <2>1. Return(c, "refused") \/ Goto(c, snap) \/ Goto(c, direct)
    BY <1>7 DEF Put
  <2>2. data' = data /\ call[c].pc = "put"
    BY <1>7 DEF Put, At
  <2>3. call[c].q.do = "over"
    BY <1>0, <2>2 DEF CallTyped, Suits
  <2>4. /\ IsCall(direct) /\ direct.pc = "direct" /\ direct.q = call[c].q /\ direct.rows \in Rows
        /\ IsCall(snap) /\ snap.pc = "snap" /\ snap.q = call[c].q /\ snap.rows \in Rows
    BY <1>0, <1>2 DEF IsCall
  <2> HIDE DEF direct, snap
  <2>5. CallTyped(direct) /\ CallTyped(snap)
    BY <1>2, <2>3, <2>4 DEF CallTyped, Suits, Committing, Ops
  <2> QED
    BY <1>0, <1>1, <2>1, <2>2, <2>4, <2>5, GotoTyped, ReturnTyped
<1>8. CASE Direct(c)
  <2> DEFINE s == [NoCall(call[c].q) EXCEPT !.rows = RowsOf(data, T(c))]
  <2>1. IsCall(s) /\ s.pc = "done"
    BY DEF IsCall, NoCall
  <2>2. Goto(c, s) \/ Return(c, "ok") \/ Return(c, "failed")
    BY <1>8 DEF Direct
  <2>3. data' = data \/ (call[c].q.do # "read" /\ data' = Written(data, call[c].q))
    BY <1>8 DEF Direct
  <2>4. call[c].q.do = "read" \/ call[c].q.do \in Ops
    BY <1>0, <1>8 DEF CallTyped, Suits, Direct, At
  <2>5. data' \in Data
    BY <1>0, <1>2, <2>3, <2>4, WrittenIs
  <2> HIDE DEF s
  <2> QED
    BY <1>0, <1>1, <2>1, <2>2, <2>5, GotoTyped, ReturnTyped, DoneTyped
<1> QED
  BY <1>5, <1>6, <1>7, <1>8

(* A table is snapshotted once.                                            *)
LEMMA SnapshotsTyped ==
  ASSUME TxTyped(tx), NEW t \in Tables, NEW rows \in Rows
  PROVE  /\ Snapshots(t, rows) \in Seq(Snapshot) /\ OneEach(Snapshots(t, rows))
         /\ \E i \in 1..Len(Snapshots(t, rows)) : Snapshots(t, rows)[i].table = t
<1>0. tx.snaps \in Seq(Snapshot) /\ OneEach(tx.snaps)
  BY DEF TxTyped
<1>1. DOMAIN tx.snaps = 1..Len(tx.snaps) /\ Len(tx.snaps) \in Nat
  BY <1>0
<1>2. CASE HasSnapshot(t)
  BY <1>0, <1>1, <1>2 DEF Snapshots, HasSnapshot
<1>3. CASE ~HasSnapshot(t)
  <2> DEFINE new == [table |-> t, rows |-> rows, existed |-> data[t] # NoTable]
             more == Append(tx.snaps, new)
  <2>1. new \in Snapshot /\ new.table = t
    BY DEF Snapshot
  <2>2. Snapshots(t, rows) = more
    BY <1>3 DEF Snapshots
  <2> HIDE DEF new
  <2>3. more \in Seq(Snapshot) /\ Len(more) = Len(tx.snaps) + 1 /\ more[Len(tx.snaps) + 1] = new
    BY <1>0, <2>1
  <2>4. \A i \in 1..Len(tx.snaps) : more[i] = tx.snaps[i] /\ tx.snaps[i].table # t
    BY <1>0, <1>1, <1>3 DEF HasSnapshot
  <2> HIDE DEF more
  <2>5. \A i \in 1..Len(more) : i \in 1..Len(tx.snaps) \/ i = Len(tx.snaps) + 1
    BY <1>1, <2>3
  <2>6. OneEach(more)
    BY <1>0, <2>1, <2>3, <2>4, <2>5 DEF OneEach
  <2>7. Len(tx.snaps) + 1 \in 1..Len(more)
    BY <1>1, <2>3
  <2> QED
    BY <2>1, <2>2, <2>3, <2>6, <2>7
<1> QED
  BY <1>2, <1>3

(* What Add makes of the call of d.                                        *)
AddedTo(c, d) ==
  LET s == call[c] IN
  CASE d = c -> IF s.q.do \in {"append", "bulk"} THEN [s EXCEPT !.pc = "view", !.rows = <<>>]
                ELSE NoCall(s.q)
    [] d # c /\ call[d].list = "live" /\ call[d].pc = "replay" ->
         [call[d] EXCEPT !.todo = Append(@, s.q)]
    [] OTHER -> call[d]

LEMMA AddCases ==
  ASSUME NEW c \in Clients, Add(c), MayAdd(c)
  PROVE  /\ tx' = [tx EXCEPT !.ops = Append(@, call[c].q), !.snaps = Snapshots(T(c), call[c].rows),
                             !.view = WithoutView(T(c))]
         /\ \A d \in Clients : call'[d] = AddedTo(c, d)
         /\ hist' = [hist EXCEPT !.to = Written(@, call[c].q),
                                 !.wrong = @ \cup (IF Owner[c] # tx.owner THEN {"stranger"} ELSE {})]
  BY DEF Add, AddedTo

LEMMA AddTyped ==
  ASSUME TInv, NEW c \in Clients, Add(c)
  PROVE  data' \in Data /\ TxTyped(tx') /\ \A d \in Clients : CallTyped(call'[d])
<1>0. data \in Data /\ TxTyped(tx) /\ Shape /\ IsCall(call[c]) /\ CallTyped(call[c]) /\ IsTx(tx)
  BY DEF TInv, Shape
<1>1. data' = data /\ call[c].pc = "add"
  BY DEF Add, At
<1>2. /\ call[c].q \in Request /\ call[c].q.do \in Ops /\ T(c) \in Tables
      /\ call[c].rows \in Rows /\ <<>> \in Rows
  BY <1>0, <1>1 DEF CallTyped, Suits, T, Request, Rows
<1>3. CASE ~MayAdd(c)
  <2>1. tx' = tx /\ Return(c, "failed")
    BY <1>3 DEF Add
  <2> QED
    BY <1>0, <1>1, <2>1, ReturnTyped
<1>4. CASE MayAdd(c)
  <2>1. /\ tx'.owner = tx.owner /\ tx'.ops = Append(tx.ops, call[c].q)
        /\ tx'.snaps = Snapshots(T(c), call[c].rows) /\ tx'.view = WithoutView(T(c))
    BY <1>0, <1>4, AddCases DEF IsTx
  <2>2. call[c].q \in OpRequest
    BY <1>2 DEF OpRequest
  <2>3. ViewTyped(WithoutView(T(c)))
    BY <1>0, <1>2, WithViewTyped DEF TxTyped
  <2>4. TxTyped(tx')
    BY <1>0, <1>2, <2>1, <2>2, <2>3, SnapshotsTyped DEF TxTyped
  <2>5. ASSUME NEW d \in Clients PROVE CallTyped(AddedTo(c, d))
    <3>0. IsCall(call[d]) /\ CallTyped(call[d])
      BY DEF TInv, Shape
    <3>1. CASE d = c /\ call[c].q.do \in {"append", "bulk"}
      <4> DEFINE r == [call[c] EXCEPT !.pc = "view", !.rows = <<>>]
      <4>1. AddedTo(c, d) = r
        BY <3>1 DEF AddedTo
      <4>2. r.pc = "view" /\ r.rows = <<>> /\ r.q = call[c].q
        BY <1>0 DEF IsCall
      <4> HIDE DEF r
      <4>3. CallTyped(r)
        BY <1>2, <3>1, <4>2 DEF CallTyped, Suits, Committing
      <4> QED
        BY <4>1, <4>3
    <3>2. CASE d = c /\ call[c].q.do \notin {"append", "bulk"}
      <4>1. AddedTo(c, d) = NoCall(call[c].q)
        BY <3>2 DEF AddedTo
      <4> QED
        BY <4>1, NoCallShape, DoneTyped
    <3>3. CASE d # c /\ call[d].list = "live" /\ call[d].pc = "replay"
      <4> DEFINE r == [call[d] EXCEPT !.todo = Append(@, call[c].q)]
      <4>1. AddedTo(c, d) = r
        BY <3>3 DEF AddedTo
      <4>2. /\ r.pc = call[d].pc /\ r.rows = call[d].rows /\ r.q = call[d].q
            /\ r.todo = Append(call[d].todo, call[c].q) /\ r.base = call[d].base
        BY <3>0 DEF IsCall
      <4> HIDE DEF r
      <4>3. CallTyped(r)
        BY <2>2, <3>0, <3>3, <4>2 DEF CallTyped
      <4> QED
        BY <4>1, <4>3
    <3>4. CASE d # c /\ ~(call[d].list = "live" /\ call[d].pc = "replay")
      <4>1. AddedTo(c, d) = call[d]
        BY <3>4 DEF AddedTo
      <4> QED
        BY <3>0, <4>1
    <3> QED
      BY <3>1, <3>2, <3>3, <3>4
  <2> QED
    BY <1>0, <1>1, <1>4, <2>4, <2>5, AddCases
<1> QED
  BY <1>3, <1>4

-----------------------------------------------------------------------------
(* Commit                                                                  *)

LEMMA ReplayedTyped ==
  ASSUME data \in Data, TxTyped(tx), NEW q \in OpRequest
  PROVE  Replayed(q) \in Data /\ ViewTyped(ViewAfter(q))
<1> DEFINE seen == IF q.table \in DOMAIN tx.view THEN tx.view[q.table]
                   ELSE Projected(q.table, RowsOf(data, q.table))
<1>0. q \in Request /\ q.do \in Ops /\ q.table \in Tables /\ RowsOf(data, q.table) \in Rows
  BY RowsOfRows DEF OpRequest, Request
<1>1. seen \in Rows /\ Projected(q.table, RowsOf(data, q.table)) \in Rows
  BY <1>0, ProjectedRows DEF TxTyped, ViewTyped
<1>2. Replayed(q) \in {data, Written(data, q), [data EXCEPT ![q.table] = Apply(seen, q)]}
  BY DEF Replayed
<1> HIDE DEF seen
<1>3. Apply(seen, q) \in Rows
  BY <1>0, <1>1, ApplyRows
<1>4. [data EXCEPT ![q.table] = Apply(seen, q)] \in Data
  BY <1>0, <1>3 DEF Data
<1>5. Replayed(q) \in Data
  BY <1>0, <1>2, <1>4, WrittenIs
<1>6. RowsOf(Replayed(q), q.table) \in Rows
  BY <1>0, <1>5, RowsOfRows
<1>7. ViewTyped(tx.view)
  BY DEF TxTyped
<1>8. \/ ViewAfter(q) = tx.view
      \/ ViewAfter(q) = WithView(q.table, RowsOf(Replayed(q), q.table))
      \/ ViewAfter(q) = WithView(q.table, Projected(q.table, RowsOf(data, q.table)))
  BY DEF ViewAfter
<1> QED
  BY <1>0, <1>1, <1>5, <1>6, <1>7, <1>8, WithViewTyped

LEMMA ReverseTyped ==
  ASSUME NEW s \in Seq(Snapshot)
  PROVE  /\ Reverse(s) \in Seq(Snapshot) /\ Len(Reverse(s)) = Len(s)
         /\ \A i \in 1..Len(s) : /\ Reverse(s)[i] = s[(Len(s) - i) + 1]
                                 /\ (Len(s) - i) + 1 \in 1..Len(s)
                                 /\ s[i] = Reverse(s)[(Len(s) - i) + 1]
<1>1. Reverse(s) = [i \in 1..Len(s) |-> s[(Len(s) - i) + 1]]
  BY DEF Reverse
<1>2. Len(s) \in Nat /\ \A i \in 1..Len(s) : s[i] \in Snapshot
  OBVIOUS
<1>3. \A i \in 1..Len(s) : (Len(s) - i) + 1 \in 1..Len(s) /\ (Len(s) - ((Len(s) - i) + 1)) + 1 = i
  BY <1>2
<1>4. Reverse(s) \in [1..Len(s) -> Snapshot]
  BY <1>1, <1>2, <1>3
<1>5. Reverse(s) \in Seq(Snapshot) /\ Len(Reverse(s)) = Len(s)
  BY <1>2, <1>4
<1> QED
  BY <1>1, <1>3, <1>5

LEMMA ThrownTyped ==
  ASSUME TInv, NEW c \in Clients, call[c].pc \in Committing PROVE CallTyped(Thrown(c))
<1>0. /\ IsCall(call[c]) /\ CallTyped(call[c]) /\ TxTyped(tx)
      /\ Reverse(tx.snaps) \in Seq(Snapshot)
  BY ReverseTyped DEF TInv, Shape, TxTyped
<1> DEFINE r == Thrown(c)
<1>1. /\ r.q = call[c].q /\ r.rows = call[c].rows /\ r.base = call[c].base
      /\ \/ r.pc = "restore" /\ r.todo = Reverse(tx.snaps)
         \/ r.pc = "finally"
  <2>1. CASE tx.active /\ Allowed(c)
    BY <1>0, <2>1 DEF Thrown, IsCall
  <2>2. CASE ~(tx.active /\ Allowed(c))
    BY <1>0, <2>2 DEF Thrown, IsCall
  <2> QED
    BY <2>1, <2>2
<1> HIDE DEF r
<1>2. CallTyped(r)
  BY <1>0, <1>1 DEF CallTyped, Suits, Committing
<1> QED
  BY <1>2 DEF r

LEMMA CommitTyped ==
  ASSUME TInv, NEW c \in Clients, Replay(c) \/ EndReplay(c) \/ Finalize(c) \/ Restore(c)
  PROVE  data' \in Data /\ TxTyped(tx') /\ \A d \in Clients : CallTyped(call'[d])
<1>0. data \in Data /\ TxTyped(tx) /\ Shape /\ IsCall(call[c]) /\ CallTyped(call[c]) /\ IsTx(tx)
  BY DEF TInv, Shape
<1>1. call[c].pc \in Committing
  BY DEF Replay, EndReplay, Finalize, Restore, At, Committing
<1>2. CallTyped(Thrown(c)) /\ IsCall(Thrown(c))
  BY <1>0, <1>1, ThrownTyped, ThrownShape
<1>3. call[c].q \in Request /\ call[c].q.do = "commit" /\ call[c].rows \in Rows /\ call[c].base \in Data
  BY <1>0, <1>1 DEF CallTyped, Suits, Committing
<1>4. CASE Replay(c)
  <2> DEFINE q == Head(call[c].todo)
             s == [call[c] EXCEPT !.todo = Tail(@), !.count = @ + 1]
  <2>1. call[c].pc = "replay" /\ call[c].todo \in Seq(OpRequest) /\ call[c].todo # <<>>
    BY <1>0, <1>4 DEF Replay, At, CallTyped
  <2>2. q \in OpRequest /\ Tail(call[c].todo) \in Seq(OpRequest)
    BY <2>1
  <2>3. /\ IsCall(s) /\ s.pc = "replay" /\ s.q = call[c].q /\ s.rows = call[c].rows
        /\ s.todo = Tail(call[c].todo) /\ s.base = call[c].base
    BY <1>0, <2>1 DEF IsCall
  <2>4. \/ data' = Replayed(q) /\ tx' = [tx EXCEPT !.view = ViewAfter(q)] /\ Goto(c, s)
        \/ data' = data /\ tx' = tx /\ Goto(c, Thrown(c))
    BY <1>4 DEF Replay
  <2> HIDE DEF q, s
  <2>5. CallTyped(s)
    BY <1>3, <2>2, <2>3 DEF CallTyped, Suits, Committing
  <2>6. CASE data' = Replayed(q) /\ tx' = [tx EXCEPT !.view = ViewAfter(q)] /\ Goto(c, s)
    <3>1. tx'.owner = tx.owner /\ tx'.ops = tx.ops /\ tx'.snaps = tx.snaps /\ tx'.view = ViewAfter(q)
      BY <1>0, <2>6 DEF IsTx
    <3> QED
      BY <1>0, <2>2, <2>3, <2>5, <2>6, <3>1, ReplayedTyped, GotoTyped DEF TxTyped
  <2>7. CASE data' = data /\ tx' = tx /\ Goto(c, Thrown(c))
    BY <1>0, <1>2, <2>7, GotoTyped
  <2> QED
    BY <2>4, <2>6, <2>7
<1>5. CASE EndReplay(c) \/ Finalize(c)
  <2> DEFINE to == IF EndReplay(c) THEN "finalize" ELSE "finally"
             s == [call[c] EXCEPT !.pc = to]
  <2>1. (Goto(c, s) \/ Goto(c, Thrown(c))) /\ data' = data /\ tx' = tx
    BY <1>5 DEF EndReplay, Finalize, At
  <2>2. /\ IsCall(s) /\ s.pc \in {"finalize", "finally"} /\ s.q = call[c].q
        /\ s.rows = call[c].rows /\ s.base = call[c].base
    BY <1>0 DEF IsCall
  <2> HIDE DEF s, to
  <2>3. CallTyped(s)
    BY <1>3, <2>2 DEF CallTyped, Suits, Committing
  <2> QED
    BY <1>0, <1>2, <2>1, <2>2, <2>3, GotoTyped
<1>6. CASE Restore(c)
  <2> DEFINE s == [call[c] EXCEPT !.todo = Tail(@)]
             r == [call[c] EXCEPT !.todo = Tail(@), !.sick = TRUE]
             snap == Head(call[c].todo)
  <2>1. call[c].pc = "restore" /\ call[c].todo \in Seq(Snapshot) /\ call[c].todo # <<>>
    BY <1>0, <1>6 DEF Restore, At, CallTyped
  <2>2. snap \in Snapshot /\ Tail(call[c].todo) \in Seq(Snapshot)
    BY <2>1
  <2>3. /\ IsCall(s) /\ s.pc = "restore" /\ s.q = call[c].q /\ s.rows = call[c].rows
        /\ s.todo = Tail(call[c].todo) /\ s.base = call[c].base
        /\ IsCall(r) /\ r.pc = "restore" /\ r.q = call[c].q /\ r.rows = call[c].rows
        /\ r.todo = Tail(call[c].todo) /\ r.base = call[c].base
    BY <1>0, <2>1 DEF IsCall
  <2>4. (Goto(c, s) \/ Goto(c, r)) /\ tx' = tx /\ (data' = Restored(snap) \/ data' = data)
    BY <1>6 DEF Restore
  <2> HIDE DEF s, r, snap
  <2>5. CallTyped(s) /\ CallTyped(r)
    BY <1>3, <2>2, <2>3 DEF CallTyped, Suits, Committing
  <2>6. Restored(snap) \in Data
    BY <1>0, <2>2 DEF Restored, Data, Snapshot
  <2> QED
    BY <1>0, <2>3, <2>4, <2>5, <2>6, GotoTyped
<1> QED
  BY <1>4, <1>5, <1>6

LEMMA EndTyped ==
  ASSUME TInv, NEW c \in Clients, EndRestore(c) \/ Finally(c)
  PROVE  data' \in Data /\ TxTyped(tx') /\ \A d \in Clients : CallTyped(call'[d])
<1>0. data \in Data /\ TxTyped(tx) /\ Shape /\ IsCall(call[c]) /\ CallTyped(call[c])
  BY DEF TInv, Shape
<1>1. call[c].pc \in Committing
  BY DEF EndRestore, Finally, At, Committing
<1>2. call[c].q \in Request /\ call[c].q.do = "commit" /\ call[c].rows \in Rows /\ call[c].base \in Data
  BY <1>0, <1>1 DEF CallTyped, Suits, Committing
<1>3. (tx' = NoTx \/ tx' = tx) /\ (data' = data \/ data' = call[c].base)
  BY DEF EndRestore, Finally
<1>4. PICK s : CallTyped(s) /\ call' = [Ended(call, "ended") EXCEPT ![c] = s]
  <2>1. CASE EndRestore(c)
    <3> DEFINE s == [call[c] EXCEPT !.pc = "finally",
                       !.result = IF call[c].sick THEN "torn" ELSE "failed"]
    <3>1. s.pc = "finally" /\ s.q = call[c].q /\ s.rows = call[c].rows /\ s.base = call[c].base
      BY <1>0 DEF IsCall
    <3>2. call' = [Ended(call, "ended") EXCEPT ![c] = s]
      BY <2>1 DEF EndRestore
    <3> HIDE DEF s
    <3>3. CallTyped(s)
      BY <1>2, <3>1 DEF CallTyped, Suits, Committing
    <3> QED
      BY <3>2, <3>3
  <2>2. CASE Finally(c)
    <3> DEFINE s == [NoCall(call[c].q) EXCEPT !.result = call[c].result]
    <3>1. s.pc = "done"
      BY DEF NoCall
    <3>2. call' = [Ended(call, "ended") EXCEPT ![c] = s]
      BY <2>2 DEF Finally
    <3> HIDE DEF s
    <3> QED
      BY <3>1, <3>2, DoneTyped
  <2> QED
    BY <2>1, <2>2
<1>5. \A d \in Clients : call'[d] = IF d = c THEN s ELSE Ended(call, "ended")[d]
  BY <1>0, <1>4, EndedShape
<1> QED
  BY <1>0, <1>2, <1>3, <1>4, <1>5, EndedTyped, NoTxTyped

-----------------------------------------------------------------------------
(* The line at the boundary                                                *)

Waiting(s) == s.pc \in {"queue", "guarded"}
Lined == {boundary[i] : i \in 1..Len(boundary)}

(* Each call that waits at the boundary, or works behind it, is in line    *)
(* once, and no other.                                                     *)
InLine ==
  /\ \A i, j \in 1..Len(boundary) : boundary[i] = boundary[j] => i = j
  /\ \A c \in Clients : c \in Lined <=> Waiting(call[c])

(* A step that leaves the line alone keeps who waits.                      *)
LEMMA LineKept ==
  ASSUME InLine, boundary' = boundary,
         \A d \in Clients : Waiting(call'[d]) <=> Waiting(call[d])
  PROVE  InLine'
  BY DEF InLine, Lined

LEMMA LineGoto ==
  ASSUME Shape, InLine, NEW c \in Clients, NEW s, IsCall(s), Goto(c, s), boundary' = boundary,
         Waiting(s) <=> Waiting(call[c])
  PROVE  InLine'
<1>1. \A d \in Clients : call'[d] = IF d = c THEN s ELSE call[d]
  BY GotoShape
<1> QED
  BY <1>1, LineKept

LEMMA LineReturn ==
  ASSUME Shape, InLine, NEW c \in Clients, NEW result, Return(c, result), boundary' = boundary,
         ~Waiting(call[c])
  PROVE  InLine'
<1>1. (\A d \in Clients : d # c => call'[d] = call[d]) /\ call'[c].pc = "done"
  BY ReturnShape
<1> QED
  BY <1>1, LineKept DEF Waiting

(* The first in line leaves it.                                            *)
LEMMA LineLeave ==
  ASSUME Shape, InLine, NEW c \in Clients, NEW result, Return(c, result), CanRun(c), Leave(c)
  PROVE  InLine'
<1> DEFINE n == Len(boundary)
<1>0. boundary \in Seq(Clients) /\ boundary # <<>> /\ boundary[1] = c
  BY DEF CanRun, Shape
<1>1. /\ n \in Nat /\ n # 0 /\ Len(boundary') = n - 1
      /\ \A i \in 1..n - 1 : boundary'[i] = boundary[i + 1]
  BY <1>0 DEF Leave
<1>2. (\A d \in Clients : d # c => call'[d] = call[d]) /\ call'[c].pc = "done"
  BY ReturnShape
<1>3. \A i, j \in 1..n : boundary[i] = boundary[j] => i = j
  BY DEF InLine
<1>4. Lined' = {boundary'[i] : i \in 1..n - 1}
  BY <1>1 DEF Lined
<1> HIDE DEF n
<1>5. \A i \in 1..n - 1 : i + 1 \in 1..n /\ i + 1 # 1
  BY <1>1
<1>6. \A i \in 1..n : i = 1 \/ (i - 1 \in 1..n - 1 /\ (i - 1) + 1 = i)
  BY <1>1
<1>7. 1 \in 1..n
  BY <1>1
<1>8. c \notin Lined'
  BY <1>0, <1>1, <1>3, <1>4, <1>5, <1>7
<1>9. ASSUME NEW d \in Clients, d # c PROVE d \in Lined' <=> d \in Lined
  <2>1. d \in Lined <=> \E i \in 1..n : boundary[i] = d
    BY DEF Lined, n
  <2>2. d \in Lined' <=> \E i \in 1..n - 1 : boundary[i + 1] = d
    BY <1>1, <1>4
  <2> QED
    BY <1>0, <1>5, <1>6, <1>9, <2>1, <2>2
<1>10. \A i, j \in 1..n - 1 : boundary'[i] = boundary'[j] => i = j
  <2> SUFFICES ASSUME NEW i \in 1..n - 1, NEW j \in 1..n - 1, boundary'[i] = boundary'[j]
               PROVE  i = j
    OBVIOUS
  <2>1. i + 1 = j + 1
    BY <1>1, <1>3, <1>5
  <2> QED
    BY <2>1
<1>11. \A d \in Clients : d \in Lined' <=> Waiting(call'[d])
  BY <1>2, <1>8, <1>9 DEF InLine, Waiting
<1> QED
  BY <1>1, <1>10, <1>11 DEF InLine

(* A caller joins the line.                                                *)
LEMMA LineJoin ==
  ASSUME Shape, InLine, NEW c \in Clients, ~Waiting(call[c]), NEW s, IsCall(s), Goto(c, s),
         Waiting(s), boundary' = Append(boundary, c)
  PROVE  InLine'
<1> DEFINE n == Len(boundary)
<1>0. boundary \in Seq(Clients)
  BY DEF Shape
<1>1. /\ n \in Nat /\ Len(boundary') = n + 1 /\ boundary'[n + 1] = c
      /\ \A i \in 1..n : boundary'[i] = boundary[i]
  BY <1>0
<1>2. \A d \in Clients : call'[d] = IF d = c THEN s ELSE call[d]
  BY GotoShape
<1>3. \A i, j \in 1..n : boundary[i] = boundary[j] => i = j
  BY DEF InLine
<1>4. Lined' = {boundary'[i] : i \in 1..n + 1} /\ Lined = {boundary[i] : i \in 1..n}
  BY <1>1 DEF Lined
<1>5. c \notin Lined
  BY DEF InLine
<1> HIDE DEF n
<1>6. \A i \in 1..n + 1 : i = n + 1 \/ i \in 1..n
  BY <1>1
<1>7. \A i \in 1..n : i \in 1..n + 1
  BY <1>1
<1>8. n + 1 \in 1..n + 1
  BY <1>1
<1>9. Lined' = Lined \cup {c}
  BY <1>1, <1>4, <1>6, <1>7, <1>8
<1>10. \A i, j \in 1..n + 1 : boundary'[i] = boundary'[j] => i = j
  <2>1. \A i \in 1..n : boundary[i] # c
    BY <1>4, <1>5
  <2> QED
    BY <1>1, <1>3, <1>6, <2>1
<1>11. \A d \in Clients : d \in Lined' <=> Waiting(call'[d])
  BY <1>2, <1>9 DEF InLine
<1> QED
  BY <1>1, <1>10, <1>11 DEF InLine

LEMMA AfterViewPlace ==
  ASSUME NEW s, IsCall(s), NEW rows
  PROVE  /\ IsCall(AfterView(s, rows)) /\ AfterView(s, rows).pc \in {"snap", "put", "done"}
<1>1. CASE s.q.do = "update" /\ Matches(rows, s.q)
  BY <1>1 DEF AfterView, IsCall
<1>2. CASE s.q.do = "delete"
  BY <1>2 DEF AfterView, IsCall
<1>3. CASE s.q.do # "delete" /\ ~(s.q.do = "update" /\ Matches(rows, s.q))
  BY <1>3 DEF AfterView, IsCall, NoCall
<1> QED
  BY <1>1, <1>2, <1>3

LEMMA AskLine ==
  ASSUME Shape, InLine, NEW c \in Clients, Ask(c) PROVE InLine'
<1>0. ~Waiting(call[c]) /\ boundary \in Seq(Clients)
  BY DEF Ask, At, Waiting, Shape
<1>1. PICK q \in scope.requests[c] :
       IF Refused(c, q)
       THEN Goto(c, [NoCall(q) EXCEPT !.result = "refused"]) /\ UNCHANGED <<tx, boundary>>
       ELSE LET s == [NoCall(q) EXCEPT !.pc = FirstStep(q)] IN
            \/ /\ q.do = "rollback"
               /\ tx' = NoTx /\ call' = [Ended(call, "rolled") EXCEPT ![c] = s]
               /\ UNCHANGED boundary
            \/ /\ q.do = "commit"
               /\ Goto(c, [s EXCEPT !.todo = tx.ops, !.list = "live", !.base = data])
               /\ UNCHANGED <<tx, boundary>>
            \/ /\ q.do \notin {"rollback", "commit"}
               /\ Goto(c, s)
               /\ boundary' = IF s.pc = "queue" THEN Append(boundary, c) ELSE boundary
               /\ UNCHANGED tx
  BY DEF Ask
<1> DEFINE s == [NoCall(q) EXCEPT !.pc = FirstStep(q)]
<1>2. IsCall(s) /\ s.pc = FirstStep(q)
  BY DEF IsCall, NoCall
<1>3. FirstStep(q) # "guarded" /\ (q.do \in {"rollback", "commit"} => FirstStep(q) \in {"done", "replay"})
  BY DEF FirstStep
<1>4. CASE Refused(c, q)
  <2> DEFINE r == [NoCall(q) EXCEPT !.result = "refused"]
  <2>1. IsCall(r) /\ r.pc = "done"
    BY DEF IsCall, NoCall
  <2>2. Goto(c, r) /\ boundary' = boundary
    BY <1>1, <1>4
  <2> HIDE DEF r
  <2> QED
    BY <1>0, <2>1, <2>2, LineGoto DEF Waiting
<1>5. CASE ~Refused(c, q) /\ q.do = "rollback"
  <2>1. boundary' = boundary /\ call' = [Ended(call, "rolled") EXCEPT ![c] = s]
    BY <1>1, <1>5
  <2>2. ~Waiting(s)
    BY <1>2, <1>3, <1>5 DEF Waiting
  <2> HIDE DEF s
  <2>3. \A d \in Clients : call'[d] = IF d = c THEN s ELSE Ended(call, "rolled")[d]
    BY <2>1, EndedShape
  <2>4. \A d \in Clients : Waiting(call'[d]) <=> Waiting(call[d])
    BY <1>0, <2>2, <2>3, EndedShape DEF Waiting
  <2> QED
    BY <2>1, <2>4, LineKept
<1>6. CASE ~Refused(c, q) /\ q.do = "commit"
  <2> DEFINE r == [s EXCEPT !.todo = tx.ops, !.list = "live", !.base = data]
  <2>1. Goto(c, r) /\ boundary' = boundary
    BY <1>1, <1>6
  <2>2. IsCall(r) /\ r.pc = FirstStep(q)
    <3> HIDE DEF s
    <3> QED
      BY <1>2 DEF IsCall
  <2> HIDE DEF r, s
  <2>3. ~Waiting(r)
    BY <1>3, <1>6, <2>2 DEF Waiting
  <2> QED
    BY <1>0, <2>1, <2>2, <2>3, LineGoto
<1>7. CASE ~Refused(c, q) /\ q.do \notin {"rollback", "commit"}
  <2>1. Goto(c, s) /\ boundary' = IF s.pc = "queue" THEN Append(boundary, c) ELSE boundary
    BY <1>1, <1>7
  <2> HIDE DEF s
  <2>2. CASE s.pc = "queue"
    BY <1>0, <1>2, <2>1, <2>2, LineJoin DEF Waiting
  <2>3. CASE s.pc # "queue"
    BY <1>0, <1>2, <1>3, <2>1, <2>3, LineGoto DEF Waiting
  <2> QED
    BY <2>2, <2>3
<1> QED
  BY <1>4, <1>5, <1>6, <1>7

LEMMA BoundaryLine ==
  ASSUME Shape, GuardedFirst, InLine, NEW c \in Clients, Begin(c) \/ StartGuarded(c) \/ Guarded(c)
  PROVE  InLine'
<1>1. CASE Begin(c)
  <2>1. CanRun(c) /\ Leave(c) /\ \E r \in {"ok", "refused"} : Return(c, r)
    BY <1>1 DEF Begin
  <2> QED
    BY <2>1, LineLeave
<1>2. CASE StartGuarded(c) /\ tx.active
  <2>1. CanRun(c) /\ Leave(c) /\ Return(c, "refused")
    BY <1>2 DEF StartGuarded
  <2> QED
    BY <2>1, LineLeave
<1>3. CASE StartGuarded(c) /\ ~tx.active
  <2> DEFINE s == [call[c] EXCEPT !.pc = "guarded"]
  <2>1. Goto(c, s) /\ boundary' = boundary /\ Waiting(call[c])
    BY <1>3 DEF StartGuarded, At, Waiting
  <2>2. IsCall(s) /\ Waiting(s)
    BY DEF Shape, IsCall, Waiting
  <2> HIDE DEF s
  <2> QED
    BY <2>1, <2>2, LineGoto
<1>4. CASE Guarded(c)
  <2>1. CanRun(c)
    BY <1>4 DEF Guarded, GuardedFirst, At, CanRun
  <2>2. Leave(c) /\ \E r \in {"ok", "failed"} : Return(c, r)
    BY <1>4 DEF Guarded
  <2> QED
    BY <2>1, <2>2, LineLeave
<1> QED
  BY <1>1, <1>2, <1>3, <1>4

(* The steps of a call that is beyond the boundary.                        *)
LEMMA MoveLine ==
  ASSUME Shape, InLine, NEW c \in Clients,
         \/ View(c) \/ Project(c) \/ Snap(c) \/ Direct(c) \/ Fetch(c) \/ Fetched(c) \/ Put(c)
         \/ Replay(c) \/ EndReplay(c) \/ Finalize(c) \/ Restore(c)
  PROVE  InLine'
<1>0. boundary' = boundary /\ ~Waiting(call[c]) /\ IsCall(call[c])
  BY DEF View, Project, Snap, Direct, Fetch, Fetched, Put, Replay, EndReplay, Finalize,
         Restore, At, Waiting, Shape
<1>1. IsCall(Thrown(c)) /\ ~Waiting(Thrown(c))
  <2>1. CASE tx.active /\ Allowed(c)
    BY <1>0, <2>1 DEF Thrown, IsCall, Waiting
  <2>2. CASE ~(tx.active /\ Allowed(c))
    BY <1>0, <2>2 DEF Thrown, IsCall, Waiting
  <2> QED
    BY <2>1, <2>2
<1> SUFFICES (\E s : IsCall(s) /\ ~Waiting(s) /\ Goto(c, s)) \/ \E r : Return(c, r)
  BY <1>0, LineGoto, LineReturn
<1>2. CASE View(c)
  <2> DEFINE s == [call[c] EXCEPT !.pc = "project", !.rows = RowsOf(data, T(c))]
  <2>1. Goto(c, AfterView(call[c], tx.view[T(c)])) \/ Goto(c, s)
    BY <1>2 DEF View
  <2>2. IsCall(s) /\ ~Waiting(s)
    BY <1>0 DEF IsCall, Waiting
  <2> HIDE DEF s
  <2> QED
    BY <1>0, <2>1, <2>2, AfterViewPlace DEF Waiting
<1>3. CASE Project(c)
  <2>1. Goto(c, AfterView(call[c], Projected(T(c), call[c].rows)))
    BY <1>3 DEF Project
  <2> QED
    BY <1>0, <2>1, AfterViewPlace DEF Waiting
<1>4. CASE Snap(c)
  <2> DEFINE s == [call[c] EXCEPT !.pc = "add", !.rows = RowsOf(data, T(c))]
  <2>1. Goto(c, s) /\ IsCall(s) /\ ~Waiting(s)
    BY <1>0, <1>4 DEF Snap, IsCall, Waiting
  <2> HIDE DEF s
  <2> QED
    BY <2>1
<1>5. CASE Direct(c)
  <2> DEFINE s == [NoCall(call[c].q) EXCEPT !.rows = RowsOf(data, T(c))]
  <2>1. IsCall(s) /\ ~Waiting(s)
    BY DEF NoCall, IsCall, Waiting
  <2>2. Goto(c, s) \/ \E r : Return(c, r)
    BY <1>5 DEF Direct
  <2> HIDE DEF s
  <2> QED
    BY <2>1, <2>2
<1>6. CASE Fetch(c)
  <2> DEFINE s == [call[c] EXCEPT !.pc = "fetched", !.rows = RowsOf(data, T(c))]
  <2>1. Goto(c, s) /\ IsCall(s) /\ ~Waiting(s)
    BY <1>0, <1>6 DEF Fetch, IsCall, Waiting
  <2> HIDE DEF s
  <2> QED
    BY <2>1
<1>7. CASE Fetched(c)
  <2> DEFINE put == PutOf(call[c].q, call[c].rows)
             s1 == [call[c] EXCEPT !.q = put, !.pc = "direct"]
             s2 == NoCall(call[c].q)
             s3 == [call[c] EXCEPT !.pc = "snap"]
             s4 == [call[c] EXCEPT !.q = put, !.pc = "put"]
  <2>1. \E s \in {s1, s2, s3, s4} : Goto(c, s)
    BY <1>7 DEF Fetched
  <2> HIDE DEF put
  <2>2. /\ IsCall(s1) /\ ~Waiting(s1) /\ IsCall(s2) /\ ~Waiting(s2)
        /\ IsCall(s3) /\ ~Waiting(s3) /\ IsCall(s4) /\ ~Waiting(s4)
    BY <1>0 DEF IsCall, NoCall, Waiting
  <2> HIDE DEF s1, s2, s3, s4
  <2> QED
    BY <2>1, <2>2
<1>8. CASE Put(c)
  <2> DEFINE to == IF tx.active THEN "snap" ELSE "direct"
             s == [call[c] EXCEPT !.pc = to]
  <2>1. IsCall(s) /\ ~Waiting(s)
    BY <1>0 DEF IsCall, Waiting
  <2>2. Goto(c, s) \/ \E r : Return(c, r)
    BY <1>8 DEF Put
  <2> HIDE DEF s
  <2> QED
    BY <2>1, <2>2
<1>9. CASE Replay(c)
  <2> DEFINE s == [call[c] EXCEPT !.todo = Tail(@), !.count = @ + 1]
  <2>1. IsCall(s) /\ ~Waiting(s)
    BY <1>0 DEF IsCall, Waiting
  <2>2. Goto(c, s) \/ Goto(c, Thrown(c))
    BY <1>9 DEF Replay
  <2> HIDE DEF s
  <2> QED
    BY <1>1, <2>1, <2>2
<1>10. CASE EndReplay(c) \/ Finalize(c)
  <2> DEFINE s1 == [call[c] EXCEPT !.pc = "finalize"]
             s2 == [call[c] EXCEPT !.pc = "finally"]
  <2>1. IsCall(s1) /\ ~Waiting(s1) /\ IsCall(s2) /\ ~Waiting(s2)
    BY <1>0 DEF IsCall, Waiting
  <2>2. Goto(c, s1) \/ Goto(c, s2) \/ Goto(c, Thrown(c))
    BY <1>10 DEF EndReplay, Finalize
  <2> HIDE DEF s1, s2
  <2> QED
    BY <1>1, <2>1, <2>2
<1>11. CASE Restore(c)
  <2> DEFINE s1 == [call[c] EXCEPT !.todo = Tail(@)]
             s2 == [call[c] EXCEPT !.todo = Tail(@), !.sick = TRUE]
  <2>1. IsCall(s1) /\ ~Waiting(s1) /\ IsCall(s2) /\ ~Waiting(s2)
    BY <1>0 DEF IsCall, Waiting
  <2>2. Goto(c, s1) \/ Goto(c, s2)
    BY <1>11 DEF Restore
  <2> HIDE DEF s1, s2
  <2> QED
    BY <2>1, <2>2
<1> QED
  BY <1>2, <1>3, <1>4, <1>5, <1>6, <1>7, <1>8, <1>9, <1>10, <1>11

LEMMA EndLine ==
  ASSUME Shape, InLine, NEW c \in Clients, Add(c) \/ EndRestore(c) \/ Finally(c)
  PROVE  InLine'
<1>0. boundary' = boundary /\ ~Waiting(call[c]) /\ IsCall(call[c])
  BY DEF Add, EndRestore, Finally, At, Waiting, Shape
<1>1. CASE Add(c) /\ ~MayAdd(c)
  <2>1. Return(c, "failed")
    BY <1>1 DEF Add
  <2> QED
    BY <1>0, <2>1, LineReturn
<1>2. CASE Add(c) /\ MayAdd(c)
  <2>1. ~Waiting(AddedTo(c, c))
    <3>1. CASE call[c].q.do \in {"append", "bulk"}
      BY <1>0, <3>1 DEF AddedTo, Waiting, IsCall
    <3>2. CASE call[c].q.do \notin {"append", "bulk"}
      BY <3>2 DEF AddedTo, Waiting, NoCall
    <3> QED
      BY <3>1, <3>2
  <2>2. \A d \in Clients : d # c => AddedTo(c, d).pc = call[d].pc
    BY DEF AddedTo, Shape, IsCall
  <2>3. \A d \in Clients : Waiting(call'[d]) <=> Waiting(call[d])
    BY <1>0, <1>2, <2>1, <2>2, AddCases DEF Waiting
  <2> QED
    BY <1>0, <2>3, LineKept
<1>3. CASE EndRestore(c) \/ Finally(c)
  <2>1. PICK s : ~Waiting(s) /\ call' = [Ended(call, "ended") EXCEPT ![c] = s]
    <3>1. CASE EndRestore(c)
      <4> DEFINE s == [call[c] EXCEPT !.pc = "finally",
                         !.result = IF call[c].sick THEN "torn" ELSE "failed"]
      <4>1. ~Waiting(s)
        BY <1>0 DEF IsCall, Waiting
      <4>2. call' = [Ended(call, "ended") EXCEPT ![c] = s]
        BY <3>1 DEF EndRestore
      <4> HIDE DEF s
      <4> QED
        BY <4>1, <4>2
    <3>2. CASE Finally(c)
      <4> DEFINE s == [NoCall(call[c].q) EXCEPT !.result = call[c].result]
      <4>1. ~Waiting(s)
        BY DEF NoCall, Waiting
      <4>2. call' = [Ended(call, "ended") EXCEPT ![c] = s]
        BY <3>2 DEF Finally
      <4> HIDE DEF s
      <4> QED
        BY <4>1, <4>2
    <3> QED
      BY <1>3, <3>1, <3>2
  <2>2. \A d \in Clients : call'[d] = IF d = c THEN s ELSE Ended(call, "ended")[d]
    BY <2>1, EndedShape
  <2>3. \A d \in Clients : Waiting(call'[d]) <=> Waiting(call[d])
    BY <1>0, <2>1, <2>2, EndedShape DEF Waiting
  <2> QED
    BY <1>0, <2>3, LineKept
<1> QED
  BY <1>1, <1>2, <1>3

-----------------------------------------------------------------------------
(* The typing invariant.                                                   *)

TypeInv == TInv /\ GuardedFirst /\ InLine

LEMMA TypeInvInit == Init => TypeInv
<1> SUFFICES ASSUME Init PROVE TypeInv
  OBVIOUS
<1>1. Shape /\ GuardedFirst
  BY GInvInit DEF GInv
<1>2. \A c \in Clients : call[c] = NoCall([do |-> "begin"]) /\ call[c].pc = "done"
  BY DEF Init, NoCall
<1>3. data \in Data
  BY DEF Init, Data, Rows
<1>4. scope \in Scope
  BY TransactionsAssumption DEF Init
<1>5. TxTyped(tx)
  BY NoTxTyped, TransactionsAssumption DEF Init
<1>6. TInv
  BY <1>1, <1>2, <1>3, <1>4, <1>5, DoneTyped DEF TInv
<1>7. InLine
  <2>1. boundary = <<>> /\ Len(boundary) = 0 /\ 1..Len(boundary) = {}
    BY DEF Init
  <2> QED
    BY <1>2, <2>1 DEF InLine, Lined, Waiting
<1> QED
  BY <1>1, <1>6, <1>7 DEF TypeInv

LEMMA TypeInvNext == TypeInv /\ OnlyOwnerAdds /\ [Next]_vars => TypeInv'
<1> SUFFICES ASSUME TypeInv, OnlyOwnerAdds, [Next]_vars PROVE TypeInv'
  OBVIOUS
<1>0. TInv /\ Shape /\ GuardedFirst /\ InLine /\ GInv
  BY DEF TypeInv, TInv, GInv
<1>1. Shape' /\ GuardedFirst'
  BY <1>0, GInvNext DEF GInv
<1>2. CASE UNCHANGED vars
  <2>1. /\ data' = data /\ tx' = tx /\ boundary' = boundary /\ call' = call /\ scope' = scope
    BY <1>2 DEF vars
  <2> QED
    BY <1>0, <1>1, <2>1 DEF TypeInv, TInv, InLine, Lined
<1>3. CASE Next
  <2>1. PICK c \in Clients : Ask(c) \/ Step(c)
    BY <1>3 DEF Next
  <2>2. scope' = scope
    BY <2>1 DEF Ask, Step, Begin, StartGuarded, Guarded, View, Project, Snap, Add, Direct, Fetch,
                Fetched, Put, Replay, EndReplay, Finalize, Restore, EndRestore, Finally
  <2>3. data' \in Data /\ TxTyped(tx') /\ \A d \in Clients : CallTyped(call'[d])
    BY <1>0, <2>1, AskTyped, BoundaryTyped, ViewStepTyped, MoveTyped, AddTyped, CommitTyped,
       EndTyped DEF Step
  <2>4. InLine'
    BY <1>0, <2>1, AskLine, BoundaryLine, MoveLine, EndLine DEF Step
  <2>5. TInv'
    BY <1>0, <1>1, <2>2, <2>3 DEF TInv
  <2> QED
    BY <1>1, <2>4, <2>5 DEF TypeInv
<1> QED
  BY <1>2, <1>3

LEMMA TypeInvAlways == Spec => []TypeInv
<1>1. GInv => OnlyOwnerAdds
  BY DEF GInv
<1> QED
  BY <1>1, TypeInvInit, TypeInvNext, GInvAlways, PTL DEF Spec

LEMMA TypeInvTypes == TypeInv => TypeOK
<1> SUFFICES ASSUME TypeInv PROVE TypeOK
  OBVIOUS
<1>0. TInv /\ InLine /\ Shape /\ TxTyped(tx) /\ data \in Data
  BY DEF TypeInv, TInv
<1>1. \A t \in Tables : data[t] \in Rows \cup {NoTable}
  BY <1>0 DEF Data
<1>2. tx.owner \in Owners /\ tx.ops \in Seq(Request)
  <2>1. OpRequest \subseteq Request
    BY DEF OpRequest
  <2> QED
    BY <1>0, <2>1 DEF TxTyped
<1>3. DOMAIN tx.view \subseteq Tables /\ Range(tx.view) \subseteq Rows
  BY <1>0 DEF TxTyped, ViewTyped, Range
<1>4. IsInjective([i \in DOMAIN tx.snaps |-> tx.snaps[i].table])
  <2>1. DOMAIN tx.snaps = 1..Len(tx.snaps)
    BY <1>0 DEF TxTyped
  <2> QED
    BY <1>0, <2>1 DEF TxTyped, OneEach, IsInjective
<1>5. boundary \in Seq(Clients) /\ DOMAIN boundary = 1..Len(boundary)
  BY <1>0 DEF Shape
<1>6. IsInjective(boundary)
  BY <1>0, <1>5 DEF InLine, IsInjective
<1>7. \A c \in Clients : c \in Range(boundary) <=> call[c].pc \in {"queue", "guarded"}
  BY <1>0, <1>5 DEF InLine, Lined, Range, Waiting
<1> QED
  BY <1>1, <1>2, <1>3, <1>4, <1>5, <1>6, <1>7 DEF TypeOK

(* What the model keeps is well formed: the queue and the snapshots of the *)
(* transaction, the tables and the calls; a table is snapshotted once; and *)
(* the line at the boundary holds each waiting call, once.                 *)
THEOREM TypeCorrect == Spec => []TypeOK
  BY TypeInvAlways, TypeInvTypes, PTL

-----------------------------------------------------------------------------
(* One client                                                              *)

(* The operations make the tables to of the tables from.                   *)
Leads(ops, from, to) ==
  \A t \in Tables :
    /\ RowsOf(to, t) = After(ops, t, RowsOf(from, t))
    /\ to[t] = NoTable <=>
         from[t] = NoTable /\ ~ \E i \in 1..Len(ops) : ops[i].table = t /\ Creates(ops[i])

(* A snapshot holds the table as it was; x has one of t.                   *)
Shot(snap, from) == (IF snap.existed THEN snap.rows ELSE NoTable) = from[snap.table]
Covered(x, t) == \E i \in 1..Len(x.snaps) : x.snaps[i].table = t

(* The state s of the call of c is in step with the transaction x.         *)
Placed(c, s, x) ==
  /\ x.active => x.owner = Owner[c]
  /\ s.pc \in {"view", "project", "snap", "add", "replay", "finalize", "restore"} => x.active
  /\ s.pc \in {"direct", "fetch", "fetched", "put", "guarded"} => ~x.active

(* The snapshots are of the tables that the transaction began with.        *)
Snapped(x, h) ==
  x.active => /\ \A i \in 1..Len(x.snaps) : Shot(x.snaps[i], h.from)
              /\ \A i \in 1..Len(x.ops) : Covered(x, x.ops[i].table)

(* Until the commit the tables stay as the transaction began with, and     *)
(* its queue leads to the tables that it is to leave; the views have them. *)
Queued(s, d, x, h) ==
  x.active /\ s.pc \notin Committing =>
    /\ d = h.from /\ Leads(x.ops, d, h.to)
    /\ \A t \in DOMAIN x.view : x.view[t] = RowsOf(h.to, t)
    /\ s.pc \in {"project", "add"} => s.rows = RowsOf(d, s.q.table)
    /\ s.pc = "done" /\ s.q.do = "read" => s.rows = RowsOf(h.to, s.q.table)

Only(c) == scope.clients = {c}

Others(c) == \A d \in Clients \ {c} : call[d].pc = "done" /\ call[d].q.do = "begin"

-----------------------------------------------------------------------------
(* Its commits                                                             *)

(* An update of the SQLite adapter is replayed on the staged view, which   *)
(* has the operations behind it already: the replay is not the queue then. *)
Exact ==
  scope.engine = "sqlite" => \A c \in scope.clients : \A q \in scope.requests[c] : q.do # "update"

Unaltered(s, x, h) ==
  scope.engine = "sqlite" =>
    /\ s.pc # "done" => s.q.do # "update"
    /\ \A i \in 1..Len(x.ops) : x.ops[i].do # "update"
    /\ s.pc = "replay" => \A i \in 1..Len(s.todo) : s.todo[i].do # "update"
    /\ s.pc \in Committing => s.base = h.from

(* The replay is on its way to the tables the transaction is to leave, and *)
(* has written snapshotted tables only.                                    *)
Replays(s, d, x, h) ==
  s.pc = "replay" =>
    /\ ~s.sick /\ s.result = "ok" /\ Leads(s.todo, d, h.to)
    /\ \A t \in Tables : d[t] # h.from[t] => Covered(x, t)
    /\ \A i \in 1..Len(s.todo) : Covered(x, s.todo[i].table)

Finalizes(s, d, x, h) ==
  s.pc = "finalize" =>
    /\ ~s.sick /\ s.result = "ok" /\ d = h.to
    /\ \A t \in Tables : d[t] # h.from[t] => Covered(x, t)

(* Unless one could not be restored, what differs is yet to be restored.   *)
Restores(s, d, h) ==
  s.pc = "restore" =>
    /\ \A i \in 1..Len(s.todo) : Shot(s.todo[i], h.from)
    /\ ~s.sick => \A t \in Tables : d[t] # h.from[t] => \E i \in 1..Len(s.todo) : s.todo[i].table = t

Settles(s, d, h) ==
  /\ s.pc = "finally" => (s.result = "ok" => d = h.to) /\ (s.result = "failed" => d = h.from)
  /\ s.pc = "done" =>
       /\ s.q.do = "commit" /\ s.result = "ok" => d = h.to
       /\ s.q.do = "commit" /\ s.result = "failed" => d = h.from
       /\ s.q.do = "rollback" /\ s.result = "ok" => d = h.from

-----------------------------------------------------------------------------
(* What a queue of operations leads to                                     *)

LEMMA LeadsNone ==
  ASSUME NEW ops \in Seq(OpRequest), ops = <<>>, NEW d \in Data PROVE Leads(ops, d, d)
<1>1. \A t \in Tables : After(ops, t, RowsOf(d, t)) = RowsOf(d, t)
  BY AfterNone, RowsOfRows
<1>2. 1..Len(ops) = {}
  OBVIOUS
<1> QED
  BY <1>1, <1>2 DEF Leads

LEMMA LeadsEnd ==
  ASSUME NEW ops \in Seq(OpRequest), ops = <<>>, NEW d \in Data, NEW e \in Data, Leads(ops, d, e)
  PROVE  d = e
<1>1. \A t \in Tables : RowsOf(e, t) = RowsOf(d, t)
  BY AfterNone, RowsOfRows DEF Leads
<1>2. \A t \in Tables : e[t] = NoTable <=> d[t] = NoTable
  <2>1. 1..Len(ops) = {}
    OBVIOUS
  <2> QED
    BY <2>1 DEF Leads
<1>3. \A t \in Tables : d[t] = e[t]
  BY <1>1, <1>2 DEF RowsOf
<1> QED
  BY <1>3 DEF Data

LEMMA LeadsAppend ==
  ASSUME NEW ops \in Seq(OpRequest), NEW q \in OpRequest, NEW d \in Data, NEW e \in Data,
         Leads(ops, d, e)
  PROVE  Leads(Append(ops, q), d, Written(e, q))
<1> DEFINE n == Len(ops)  more == Append(ops, q)
<1>0. q \in Request /\ q.do \in Ops \cup {"sync"}
  BY DEF OpRequest
<1>1. /\ n \in Nat /\ Len(more) = n + 1 /\ more[n + 1] = q
      /\ \A i \in 1..n : more[i] = ops[i] /\ i \in 1..n + 1
  OBVIOUS
<1>2. (\A i \in 1..n + 1 : i = n + 1 \/ i \in 1..n) /\ n + 1 \in 1..n + 1
  BY <1>1
<1> SUFFICES ASSUME NEW t \in Tables
             PROVE  /\ RowsOf(Written(e, q), t) = After(more, t, RowsOf(d, t))
                    /\ Written(e, q)[t] = NoTable <=>
                         d[t] = NoTable /\ ~ \E i \in 1..Len(more) : more[i].table = t /\ Creates(more[i])
  BY DEF Leads
<1>3. /\ RowsOf(Written(e, q), t) = Effect(t, RowsOf(e, t), q)
      /\ Written(e, q)[t] = NoTable <=> e[t] = NoTable /\ ~(q.table = t /\ Creates(q))
  BY <1>0, WrittenIs
<1>4. /\ RowsOf(e, t) = After(ops, t, RowsOf(d, t))
      /\ e[t] = NoTable <=>
           d[t] = NoTable /\ ~ \E i \in 1..n : ops[i].table = t /\ Creates(ops[i])
  BY DEF Leads
<1>5. After(more, t, RowsOf(d, t)) = Effect(t, After(ops, t, RowsOf(d, t)), q)
  BY RowsOfRows, AfterAppend
<1> HIDE DEF n, more
<1>6. (\E i \in 1..Len(more) : more[i].table = t /\ Creates(more[i]))
        <=> (\E i \in 1..n : ops[i].table = t /\ Creates(ops[i])) \/ (q.table = t /\ Creates(q))
  BY <1>1, <1>2
<1> QED
  BY <1>3, <1>4, <1>5, <1>6

LEMMA LeadsFirst ==
  ASSUME NEW ops \in Seq(OpRequest), ops # <<>>, NEW d \in Data, NEW e \in Data, Leads(ops, d, e)
  PROVE  Leads(Tail(ops), Written(d, Head(ops)), e)
<1> DEFINE n == Len(ops)  rest == Tail(ops)  q == Head(ops)
<1>0. q \in OpRequest /\ q \in Request /\ q.do \in Ops \cup {"sync"} /\ q = ops[1]
  BY DEF OpRequest
<1>1. /\ n \in Nat /\ n # 0 /\ Len(rest) = n - 1
      /\ \A i \in 1..n - 1 : rest[i] = ops[i + 1]
  OBVIOUS
<1> SUFFICES ASSUME NEW t \in Tables
             PROVE  /\ RowsOf(e, t) = After(rest, t, RowsOf(Written(d, q), t))
                    /\ e[t] = NoTable <=>
                         Written(d, q)[t] = NoTable /\
                         ~ \E i \in 1..Len(rest) : rest[i].table = t /\ Creates(rest[i])
  BY DEF Leads
<1>2. /\ RowsOf(Written(d, q), t) = Effect(t, RowsOf(d, t), q)
      /\ Written(d, q)[t] = NoTable <=> d[t] = NoTable /\ ~(q.table = t /\ Creates(q))
  BY <1>0, WrittenIs
<1>3. /\ RowsOf(e, t) = After(ops, t, RowsOf(d, t))
      /\ e[t] = NoTable <=>
           d[t] = NoTable /\ ~ \E i \in 1..n : ops[i].table = t /\ Creates(ops[i])
  BY DEF Leads
<1>4. After(ops, t, RowsOf(d, t)) = After(rest, t, Effect(t, RowsOf(d, t), q))
  BY RowsOfRows, AfterFirst
<1> HIDE DEF n, rest, q
<1>5. \A i \in 1..n : i = 1 \/ (i - 1 \in 1..n - 1 /\ (i - 1) + 1 = i)
  BY <1>1
<1>6. (\A i \in 1..n - 1 : i + 1 \in 1..n) /\ 1 \in 1..n
  BY <1>1
<1>7. (\E i \in 1..n : ops[i].table = t /\ Creates(ops[i]))
        <=> (\E i \in 1..Len(rest) : rest[i].table = t /\ Creates(rest[i])) \/ (q.table = t /\ Creates(q))
  <2> DEFINE made(o) == o.table = t /\ Creates(o)
  <2>1. ASSUME NEW i \in 1..n, made(ops[i])
        PROVE  (\E j \in 1..n - 1 : made(rest[j])) \/ made(q)
    <3>1. i = 1 => made(q)
      BY <1>0, <2>1
    <3>2. i # 1 => i - 1 \in 1..n - 1 /\ rest[i - 1] = ops[i]
      BY <1>1, <1>5
    <3> HIDE DEF made
    <3> QED
      BY <2>1, <3>1, <3>2
  <2>2. ASSUME NEW j \in 1..n - 1, made(rest[j]) PROVE \E i \in 1..n : made(ops[i])
    <3>1. j + 1 \in 1..n /\ rest[j] = ops[j + 1]
      BY <1>1, <1>6
    <3> HIDE DEF made
    <3> QED
      BY <2>2, <3>1
  <2>3. made(q) => made(ops[1])
    BY <1>0
  <2> QED
    BY <1>1, <1>6, <2>1, <2>2, <2>3
<1> QED
  BY <1>2, <1>3, <1>4, <1>7

-----------------------------------------------------------------------------
(* What holds of the call s of the client c.                               *)

Settled(s, d, x, h) ==
  Exact => /\ Unaltered(s, x, h) /\ Replays(s, d, x, h) /\ Finalizes(s, d, x, h)
           /\ Restores(s, d, h) /\ Settles(s, d, h)

Good(c, s, d, x, h) ==
  /\ h.from \in Data /\ h.to \in Data /\ Placed(c, s, x) /\ Snapped(x, h)
  /\ Queued(s, d, x, h) /\ Settled(s, d, x, h)

(* The call of c now, before a step, and then, after it.                   *)
Now(c) == Good(c, call[c], data, tx, hist)
Then(c) == Good(c, call'[c], data', tx', hist')

Solo == \A c \in Clients : Only(c) => Others(c) /\ Now(c)

(* Nothing changes but the call, which commits nothing.                    *)
LEMMA QuietGood ==
  ASSUME NEW c, NEW s, NEW d, NEW x, NEW h, Good(c, s, d, x, h), s.pc \notin Committing,
         NEW r, r.pc \notin Committing, Placed(c, r, x),
         x.active /\ r.pc \in {"project", "add"} => r.rows = RowsOf(d, r.q.table),
         x.active /\ r.pc = "done" /\ r.q.do = "read" => r.rows = RowsOf(h.to, r.q.table),
         Exact /\ scope.engine = "sqlite" /\ r.pc # "done" => r.q.do # "update",
         r.pc = "done" /\ r.q.do \in {"commit", "rollback"} => r.result = "refused"
  PROVE  Good(c, r, d, x, h)
<1>1. Queued(r, d, x, h)
  BY DEF Good, Queued
<1>2. ASSUME Exact PROVE Unaltered(r, x, h)
  BY <1>2 DEF Good, Settled, Unaltered, Committing
<1>3. Replays(r, d, x, h) /\ Finalizes(r, d, x, h) /\ Restores(r, d, h) /\ Settles(r, d, h)
  BY DEF Replays, Finalizes, Restores, Settles, Committing
<1> QED
  BY <1>1, <1>2, <1>3 DEF Good, Settled

(* A call ends while no transaction is active, whatever it wrote.          *)
LEMMA OutsideGood ==
  ASSUME NEW c, NEW s, NEW d, NEW x, NEW h, Good(c, s, d, x, h), ~x.active,
         NEW r, r.pc = "done", r.q.do \notin {"commit", "rollback"}, NEW e
  PROVE  Good(c, r, e, x, h)
<1>1. Queued(r, e, x, h) /\ Placed(c, r, x)
  BY DEF Queued, Placed
<1>2. ASSUME Exact PROVE Unaltered(r, x, h)
  BY <1>2 DEF Good, Settled, Unaltered, Committing
<1>3. Replays(r, e, x, h) /\ Finalizes(r, e, x, h) /\ Restores(r, e, h) /\ Settles(r, e, h)
  BY DEF Replays, Finalizes, Restores, Settles
<1> QED
  BY <1>1, <1>2, <1>3 DEF Good, Settled

(* A transaction that is over, or not yet begun.                           *)
LEMMA EndedGood ==
  ASSUME NEW c, NEW r, NEW d, NEW h, h.from \in Data, h.to \in Data, r.pc \in {"done", "finally"},
         Exact => Settles(r, d, h),
         Exact /\ scope.engine = "sqlite" /\ r.pc = "finally" => r.q.do = "commit" /\ r.base = h.from
  PROVE  Good(c, r, d, NoTx, h)
<1>1. ~NoTx.active /\ Len(NoTx.ops) = 0
  BY DEF NoTx
<1>2. Queued(r, d, NoTx, h) /\ Placed(c, r, NoTx) /\ Snapped(NoTx, h)
  BY <1>1 DEF Queued, Placed, Snapped
<1>3. ASSUME Exact PROVE Unaltered(r, NoTx, h)
  <2>1. 1..Len(NoTx.ops) = {}
    BY <1>1
  <2> QED
    BY <1>3, <2>1 DEF Unaltered, Committing
<1>4. Replays(r, d, NoTx, h) /\ Finalizes(r, d, NoTx, h) /\ Restores(r, d, h)
  BY DEF Replays, Finalizes, Restores
<1> QED
  BY <1>2, <1>3, <1>4 DEF Good, Settled

-----------------------------------------------------------------------------
(* Steps of the only client                                                *)

LEMMA GotoIs ==
  ASSUME Shape, NEW c \in Clients, NEW s, Goto(c, s) PROVE call'[c] = s
<1>1. call' = [d \in Clients |-> IF d = c THEN s ELSE call[d]]
  BY DEF Goto, Shape
<1> QED
  BY <1>1

LEMMA ReturnIs ==
  ASSUME Shape, NEW c \in Clients, NEW r, Return(c, r)
  PROVE  call'[c].pc = "done" /\ call'[c].q = call[c].q /\ call'[c].result = r
<1> DEFINE s == [NoCall(call[c].q) EXCEPT !.result = r]
<1>1. s.pc = "done" /\ s.q = call[c].q /\ s.result = r
  BY DEF NoCall
<1>2. Goto(c, s)
  BY DEF Return
<1> HIDE DEF s
<1> QED
  BY <1>1, <1>2, GotoIs

LEMMA FirstPlaced ==
  ASSUME NEW q \in Request
  PROVE  /\ FirstStep(q) \in {"view", "project", "snap", "add"} => tx.active
         /\ FirstStep(q) \in {"direct", "fetch", "fetched", "put", "guarded"} => ~tx.active
         /\ FirstStep(q) \notin {"project", "add", "finalize", "restore", "finally"}
         /\ FirstStep(q) = "replay" <=> q.do = "commit"
         /\ FirstStep(q) = "done" <=> q.do = "rollback"
<1>0. q.do \in Kinds
  BY DEF Request
<1>1. CASE q.do \in {"begin", "create", "drop", "sync"}
  BY <1>1 DEF FirstStep
<1>2. CASE q.do = "commit"
  BY <1>2 DEF FirstStep
<1>3. CASE q.do \in {"append", "over"}
  BY <1>3 DEF FirstStep
<1>4. CASE q.do \in {"read", "delete"}
  BY <1>4 DEF FirstStep
<1>5. CASE q.do = "update"
  BY <1>5 DEF FirstStep
<1>6. CASE q.do = "bulk"
  BY <1>6 DEF FirstStep
<1>7. CASE q.do = "rollback"
  BY <1>7 DEF FirstStep
<1> QED
  BY <1>0, <1>1, <1>2, <1>3, <1>4, <1>5, <1>6, <1>7 DEF Kinds

LEMMA AskGood ==
  ASSUME TInv, NEW c \in Clients, Only(c), Now(c), Ask(c) PROVE Then(c)
<1>0. /\ Shape /\ scope \in Scope /\ call[c].pc = "done" /\ c \in scope.clients
      /\ data' = data /\ hist' = hist /\ tx.ops \in Seq(OpRequest)
  BY DEF TInv, Ask, At, TxTyped
<1>h. /\ hist.from \in Data /\ hist.to \in Data /\ Placed(c, call[c], tx) /\ Snapped(tx, hist)
      /\ Queued(call[c], data, tx, hist) /\ Settled(call[c], data, tx, hist)
  BY DEF Now, Good
<1>a. tx.active => /\ data = hist.from /\ Leads(tx.ops, data, hist.to)
                   /\ \A i \in 1..Len(tx.ops) : Covered(tx, tx.ops[i].table)
  BY <1>0, <1>h DEF Queued, Snapped, Committing
<1>1. PICK q \in scope.requests[c] :
       IF Refused(c, q)
       THEN Goto(c, [NoCall(q) EXCEPT !.result = "refused"]) /\ UNCHANGED <<tx, boundary>>
       ELSE LET s == [NoCall(q) EXCEPT !.pc = FirstStep(q)] IN
            \/ /\ q.do = "rollback"
               /\ tx' = NoTx /\ call' = [Ended(call, "rolled") EXCEPT ![c] = s]
               /\ UNCHANGED boundary
            \/ /\ q.do = "commit"
               /\ Goto(c, [s EXCEPT !.todo = tx.ops, !.list = "live", !.base = data])
               /\ UNCHANGED <<tx, boundary>>
            \/ /\ q.do \notin {"rollback", "commit"}
               /\ Goto(c, s)
               /\ boundary' = IF s.pc = "queue" THEN Append(boundary, c) ELSE boundary
               /\ UNCHANGED tx
  BY DEF Ask
<1>2. q \in Request /\ (Exact /\ scope.engine = "sqlite" => q.do # "update")
  BY <1>0, <1>1 DEF Scope, Exact
<1>3. Refused(c, q) <=> (~tx.active /\ q.do \in {"commit", "rollback"})
  BY <1>h DEF Refused, Allowed, Placed
<1> DEFINE s == [NoCall(q) EXCEPT !.pc = FirstStep(q)]
<1>4. /\ IsCall(s) /\ s.pc = FirstStep(q) /\ s.q = q /\ s.result = "ok" /\ s.sick = FALSE
  BY DEF IsCall, NoCall
<1>5. CASE Refused(c, q)
  <2> DEFINE r == [NoCall(q) EXCEPT !.result = "refused"]
  <2>1. r.pc = "done" /\ r.q = q /\ r.result = "refused"
    BY DEF NoCall
  <2>2. call'[c] = r /\ tx' = tx
    <3>1. Goto(c, r) /\ tx' = tx
      BY <1>1, <1>5
    <3> HIDE DEF r
    <3> QED
      BY <1>0, <3>1, GotoIs
  <2> HIDE DEF r
  <2>3. Placed(c, r, tx)
    BY <1>h, <2>1 DEF Placed
  <2>4. Good(c, r, data, tx, hist)
    BY <1>0, <1>3, <1>5, <2>1, <2>3, QuietGood DEF Now, Committing
  <2> QED
    BY <1>0, <2>2, <2>4 DEF Then
<1>6. CASE ~Refused(c, q) /\ q.do = "rollback"
  <2>1. tx' = NoTx /\ call' = [Ended(call, "rolled") EXCEPT ![c] = s]
    BY <1>1, <1>6
  <2>2. s.pc = "done"
    BY <1>4, <1>6 DEF FirstStep
  <2> HIDE DEF s
  <2>3. call'[c] = s
    BY <1>0, <2>1, EndedShape
  <2>4. Settles(s, data, hist)
    BY <1>3, <1>4, <1>6, <1>a, <2>2 DEF Settles
  <2>5. Good(c, s, data, NoTx, hist)
    BY <1>h, <2>2, <2>4, EndedGood
  <2> QED
    BY <1>0, <2>1, <2>3, <2>5 DEF Then
<1>7. CASE ~Refused(c, q) /\ q.do = "commit"
  <2> DEFINE r == [s EXCEPT !.todo = tx.ops, !.list = "live", !.base = data]
  <2>1. Goto(c, r) /\ tx' = tx /\ tx.active
    BY <1>1, <1>3, <1>7
  <2>2. /\ r.pc = FirstStep(q) /\ r.q = q /\ r.todo = tx.ops /\ r.base = data
        /\ r.result = "ok" /\ r.sick = FALSE
    <3> HIDE DEF s
    <3> QED
      BY <1>4 DEF IsCall
  <2>3. r.pc = "replay"
    BY <1>7, <2>2 DEF FirstStep
  <2> HIDE DEF r, s
  <2>4. call'[c] = r
    BY <1>0, <2>1, GotoIs
  <2>5. Placed(c, r, tx)
    BY <1>h, <2>1, <2>3 DEF Placed
  <2>6. Queued(r, data, tx, hist)
    BY <2>3 DEF Queued, Committing
  <2>7. ASSUME Exact PROVE Unaltered(r, tx, hist)
    BY <1>7, <1>h, <1>a, <2>1, <2>2, <2>7 DEF Settled, Unaltered
  <2>8. Replays(r, data, tx, hist)
    BY <1>a, <2>1, <2>2 DEF Replays
  <2>9. Finalizes(r, data, tx, hist) /\ Restores(r, data, hist) /\ Settles(r, data, hist)
    BY <2>3 DEF Finalizes, Restores, Settles
  <2>10. Good(c, r, data, tx, hist)
    BY <1>h, <2>5, <2>6, <2>7, <2>8, <2>9 DEF Good, Settled
  <2> QED
    BY <1>0, <2>1, <2>4, <2>10 DEF Then
<1>8. CASE ~Refused(c, q) /\ q.do \notin {"rollback", "commit"}
  <2>1. Goto(c, s) /\ tx' = tx
    BY <1>1, <1>8
  <2> HIDE DEF s
  <2>2. call'[c] = s
    BY <1>0, <2>1, GotoIs
  <2>3. Placed(c, s, tx) /\ s.pc \notin Committing /\ s.pc \notin {"project", "add", "done"}
    BY <1>2, <1>4, <1>8, <1>h, FirstPlaced DEF Placed, Committing
  <2>4. Good(c, s, data, tx, hist)
    BY <1>0, <1>2, <1>4, <2>3, QuietGood DEF Now, Committing
  <2> QED
    BY <1>0, <2>1, <2>2, <2>4 DEF Then
<1> QED
  BY <1>5, <1>6, <1>7, <1>8

LEMMA BoundaryGood ==
  ASSUME TInv, NEW c \in Clients, Only(c), Now(c), Begin(c) \/ StartGuarded(c) \/ Guarded(c)
  PROVE  Then(c)
<1>0. Shape /\ data \in Data /\ IsCall(call[c]) /\ CallTyped(call[c])
  BY DEF TInv, Shape
<1>1. call[c].pc \in {"queue", "guarded"}
  BY DEF Begin, StartGuarded, Guarded, At
<1>2. call[c].q.do \in {"begin", "create", "drop", "sync"}
  BY <1>0, <1>1 DEF CallTyped, Suits
<1>h. /\ hist.from \in Data /\ hist.to \in Data /\ Placed(c, call[c], tx) /\ Snapped(tx, hist)
      /\ Queued(call[c], data, tx, hist) /\ Settled(call[c], data, tx, hist)
  BY DEF Now, Good
<1>3. ASSUME NEW r, Return(c, r), tx' = tx, data' = data, hist' = hist PROVE Then(c)
  <2>1. call'[c].pc = "done" /\ call'[c].q = call[c].q
    BY <1>0, <1>3, ReturnIs
  <2>2. Placed(c, call'[c], tx)
    BY <1>h, <2>1 DEF Placed
  <2>3. Good(c, call'[c], data, tx, hist)
    BY <1>1, <1>2, <2>1, <2>2, QuietGood DEF Now, Committing
  <2> QED
    BY <1>3, <2>3 DEF Then
<1>4. CASE Begin(c) /\ tx.active
  BY <1>3, <1>4 DEF Begin
<1>5. CASE Begin(c) /\ ~tx.active
  <2> DEFINE x == [NoTx EXCEPT !.active = TRUE, !.owner = Owner[c]]
             h == [hist EXCEPT !.from = data, !.to = data]
  <2>1. Return(c, "ok") /\ tx' = x /\ hist' = h /\ data' = data /\ call[c].q.do = "begin"
    BY <1>5 DEF Begin
  <2>2. call'[c].pc = "done" /\ call'[c].q = call[c].q
    BY <1>0, <2>1, ReturnIs
  <2>3. h.from = data /\ h.to = data
    BY <1>0 DEF Shape, IsHist
  <2>4. /\ x.active /\ x.owner = Owner[c] /\ x.ops = <<>> /\ x.snaps = <<>> /\ x.view = <<>>
    BY DEF NoTx
  <2> DEFINE s == call'[c]
  <2> HIDE DEF x, h, s
  <2>5. Placed(c, s, x)
    BY <2>2, <2>4 DEF Placed, s
  <2>6. Snapped(x, h)
    BY <2>4 DEF Snapped
  <2>7. Leads(x.ops, data, data)
    <3>1. x.ops \in Seq(OpRequest)
      BY <2>4
    <3> QED
      BY <1>0, <2>4, <3>1, LeadsNone
  <2>8. Queued(s, data, x, h)
    BY <1>2, <2>1, <2>2, <2>3, <2>4, <2>7 DEF Queued, s
  <2>9. Unaltered(s, x, h)
    BY <2>2, <2>4 DEF Unaltered, Committing, s
  <2>10. Replays(s, data, x, h) /\ Finalizes(s, data, x, h) /\ Restores(s, data, h)
    BY <2>2 DEF Replays, Finalizes, Restores, s
  <2>11. Settles(s, data, h)
    BY <2>1, <2>2 DEF Settles, s
  <2>12. Good(c, s, data, x, h)
    BY <1>0, <2>3, <2>5, <2>6, <2>8, <2>9, <2>10, <2>11 DEF Good, Settled
  <2> QED
    BY <2>1, <2>12 DEF Then, s
<1>6. CASE StartGuarded(c) /\ tx.active
  BY <1>3, <1>6 DEF StartGuarded
<1>7. CASE StartGuarded(c) /\ ~tx.active
  <2> DEFINE s == [call[c] EXCEPT !.pc = "guarded"]
  <2>1. Goto(c, s) /\ tx' = tx /\ data' = data /\ hist' = hist
    BY <1>7 DEF StartGuarded
  <2>2. s.pc = "guarded" /\ s.q = call[c].q
    BY <1>0 DEF IsCall
  <2> HIDE DEF s
  <2>3. Placed(c, s, tx)
    BY <1>h, <1>7, <2>2 DEF Placed
  <2>4. Good(c, s, data, tx, hist)
    BY <1>1, <1>2, <2>2, <2>3, QuietGood DEF Now, Committing
  <2> QED
    BY <1>0, <2>1, <2>4, GotoIs DEF Then
<1>8. CASE Guarded(c)
  <2>1. (\E r : Return(c, r)) /\ tx' = tx /\ hist' = hist /\ call[c].pc = "guarded"
    BY <1>8 DEF Guarded, At
  <2>2. call'[c].pc = "done" /\ call'[c].q = call[c].q
    BY <1>0, <2>1, ReturnIs
  <2>3. ~tx.active
    BY <1>h, <2>1 DEF Placed
  <2>4. \A e : Good(c, call'[c], e, tx, hist)
    BY <1>2, <2>2, <2>3, OutsideGood DEF Now
  <2> QED
    BY <2>1, <2>4 DEF Then
<1> QED
  BY <1>4, <1>5, <1>6, <1>7, <1>8

(* The view that the call has found is that of the transaction.            *)
LEMMA AfterViewGood ==
  ASSUME NEW c, NEW s, IsCall(s), CallTyped(s), NEW d, NEW h, NEW x, Good(c, s, d, x, h),
         s.pc \in {"view", "project"}, tx.active, x.active, NEW rows, rows = RowsOf(h.to, s.q.table)
  PROVE  Good(c, AfterView(s, rows), d, x, h)
<1> DEFINE r == AfterView(s, rows)
<1>1. /\ r.q = s.q
      /\ r.pc = "snap" \/ (r.pc = "done" /\ r.rows = rows)
  <2>1. CASE s.q.do = "update" /\ Matches(rows, s.q)
    BY <2>1 DEF AfterView, IsCall
  <2>2. CASE s.q.do = "delete"
    BY <2>2 DEF AfterView, IsCall
  <2>3. CASE s.q.do # "delete" /\ ~(s.q.do = "update" /\ Matches(rows, s.q))
    BY <2>3 DEF AfterView, NoCall
  <2> QED
    BY <2>1, <2>2, <2>3
<1>2. s.q.do \in {"read", "append", "update", "delete", "bulk"}
  BY DEF CallTyped, Suits
<1> HIDE DEF r
<1>3. Placed(c, r, x)
  BY <1>1 DEF Good, Placed
<1>4. Exact /\ scope.engine = "sqlite" => s.q.do # "update"
  BY DEF Good, Settled, Unaltered
<1>5. Good(c, r, d, x, h)
  BY <1>1, <1>2, <1>3, <1>4, QuietGood DEF Committing
<1> QED
  BY <1>5 DEF r

LEMMA ViewGood ==
  ASSUME TInv, NEW c \in Clients, Only(c), Now(c), View(c) \/ Project(c) PROVE Then(c)
<1>0. /\ Shape /\ data \in Data /\ IsCall(call[c]) /\ CallTyped(call[c]) /\ IsTx(tx)
      /\ data' = data /\ hist' = hist /\ call[c].pc \in {"view", "project"} /\ TxTyped(tx)
  BY DEF TInv, Shape, View, Project, At
<1>h. /\ hist.from \in Data /\ hist.to \in Data /\ Placed(c, call[c], tx) /\ Snapped(tx, hist)
      /\ Queued(call[c], data, tx, hist) /\ Settled(call[c], data, tx, hist)
  BY DEF Now, Good
<1>1. tx.active /\ T(c) \in Tables /\ T(c) = call[c].q.table
  BY <1>0, <1>h DEF Placed, CallTyped, Request, T
<1>2. /\ data = hist.from /\ Leads(tx.ops, data, hist.to)
      /\ \A t \in DOMAIN tx.view : tx.view[t] = RowsOf(hist.to, t)
      /\ call[c].pc = "project" => call[c].rows = RowsOf(data, T(c))
  BY <1>0, <1>1, <1>h DEF Queued, Committing
<1>3. CASE View(c) /\ T(c) \in DOMAIN tx.view
  <2>1. Goto(c, AfterView(call[c], tx.view[T(c)])) /\ tx' = tx
    BY <1>3 DEF View
  <2>2. Good(c, AfterView(call[c], tx.view[T(c)]), data, tx, hist)
    BY <1>0, <1>1, <1>2, <1>3, AfterViewGood DEF Now
  <2> QED
    BY <1>0, <2>1, <2>2, GotoIs DEF Then
<1>4. CASE View(c) /\ T(c) \notin DOMAIN tx.view
  <2> DEFINE s == [call[c] EXCEPT !.pc = "project", !.rows = RowsOf(data, T(c))]
  <2>1. Goto(c, s) /\ tx' = tx
    BY <1>4 DEF View
  <2>2. s.pc = "project" /\ s.q = call[c].q /\ s.rows = RowsOf(data, T(c))
    BY <1>0 DEF IsCall
  <2> HIDE DEF s
  <2>3. Placed(c, s, tx)
    BY <1>h, <1>1, <2>2 DEF Placed
  <2>4. Exact /\ scope.engine = "sqlite" => call[c].q.do # "update"
    BY <1>0, <1>h DEF Settled, Unaltered
  <2>5. Good(c, s, data, tx, hist)
    BY <1>0, <1>1, <2>2, <2>3, <2>4, QuietGood DEF Now, Committing
  <2> QED
    BY <1>0, <2>1, <2>5, GotoIs DEF Then
<1>5. CASE Project(c)
  <2> DEFINE rows == Projected(T(c), call[c].rows)
             x == [tx EXCEPT !.view = WithView(T(c), rows)]
  <2>1. Goto(c, AfterView(call[c], rows)) /\ tx' = x /\ call[c].pc = "project"
    BY <1>5 DEF Project, At
  <2>2. rows = RowsOf(hist.to, T(c))
    BY <1>1, <1>2, <2>1 DEF Leads, Projected
  <2>3. /\ x.active = tx.active /\ x.owner = tx.owner /\ x.ops = tx.ops /\ x.snaps = tx.snaps
        /\ x.view = WithView(T(c), rows)
    BY <1>0 DEF IsTx
  <2> HIDE DEF rows, x
  <2>4. \A t \in DOMAIN x.view : x.view[t] = RowsOf(hist.to, t)
    BY <1>2, <2>2, <2>3 DEF WithView
  <2>5. Placed(c, call[c], x) /\ Snapped(x, hist)
    BY <1>h, <2>3 DEF Placed, Snapped, Covered
  <2>6. Queued(call[c], data, x, hist)
    BY <1>0, <1>1, <1>2, <2>1, <2>3, <2>4 DEF Queued
  <2>7. Settled(call[c], data, x, hist)
    BY <1>h, <2>3 DEF Settled, Unaltered, Replays, Finalizes, Covered
  <2>8. Good(c, call[c], data, x, hist)
    BY <1>h, <2>5, <2>6, <2>7 DEF Good
  <2>9. Good(c, AfterView(call[c], rows), data, x, hist)
    BY <1>0, <1>1, <2>2, <2>3, <2>8, AfterViewGood
  <2> QED
    BY <1>0, <2>1, <2>9, GotoIs DEF Then
<1> QED
  BY <1>3, <1>4, <1>5

(* The steps outside of a transaction, and the read for a snapshot.        *)
LEMMA MoveGood ==
  ASSUME TInv, NEW c \in Clients, Only(c), Now(c),
         Snap(c) \/ Fetch(c) \/ Fetched(c) \/ Put(c) \/ Direct(c)
  PROVE  Then(c)
<1>0. /\ Shape /\ data \in Data /\ IsCall(call[c]) /\ CallTyped(call[c])
      /\ hist' = hist /\ tx' = tx /\ call[c].pc \in {"snap", "fetch", "fetched", "put", "direct"}
  BY DEF TInv, Shape, Snap, Fetch, Fetched, Put, Direct, At
<1>h. /\ Placed(c, call[c], tx)
      /\ Exact /\ scope.engine = "sqlite" => call[c].q.do # "update"
  BY <1>0 DEF Now, Good, Settled, Unaltered
<1>1. call[c].pc # "snap" => ~tx.active
  BY <1>0, <1>h DEF Placed
<1>2. call[c].q.do \in Ops \cup {"read"} /\ call[c].pc # "done"
  BY <1>0 DEF CallTyped, Suits, Ops
<1>3. CASE Snap(c)
  <2> DEFINE s == [call[c] EXCEPT !.pc = "add", !.rows = RowsOf(data, T(c))]
  <2>1. Goto(c, s) /\ data' = data /\ tx.active
    BY <1>3, <1>h DEF Snap, At, Placed
  <2>2. s.pc = "add" /\ s.q = call[c].q /\ s.rows = RowsOf(data, call[c].q.table)
    BY <1>0 DEF IsCall, T
  <2> HIDE DEF s
  <2>3. Placed(c, s, tx)
    BY <1>h, <2>1, <2>2 DEF Placed
  <2>4. Good(c, s, data, tx, hist)
    BY <1>0, <1>h, <2>2, <2>3, QuietGood DEF Now, Committing
  <2> QED
    BY <1>0, <2>1, <2>4, GotoIs DEF Then
(* Nothing is written, and the call goes on outside of a transaction.      *)
<1>4. ASSUME NEW s, Goto(c, s), data' = data, ~tx.active, s.pc \in {"fetched", "put", "direct", "done"},
             s.q.do \in Ops \cup {"read"}, s.q.do = "update" => call[c].q.do = "update"
      PROVE  Then(c)
  <2>1. Placed(c, s, tx)
    BY <1>4, <1>h DEF Placed
  <2>2. Good(c, s, data, tx, hist)
    BY <1>0, <1>h, <1>4, <2>1, QuietGood DEF Now, Committing, Ops
  <2> QED
    BY <1>0, <1>4, <2>2, GotoIs DEF Then
<1>5. CASE Fetch(c)
  <2> DEFINE s == [call[c] EXCEPT !.pc = "fetched", !.rows = RowsOf(data, T(c))]
  <2>1. Goto(c, s) /\ data' = data /\ ~tx.active
    BY <1>1, <1>5 DEF Fetch, At
  <2>2. s.pc = "fetched" /\ s.q = call[c].q
    BY <1>0 DEF IsCall
  <2> HIDE DEF s
  <2> QED
    BY <1>2, <1>4, <2>1, <2>2
<1>6. CASE Fetched(c)
  <2> DEFINE put == PutOf(call[c].q, call[c].rows)
             s1 == [call[c] EXCEPT !.q = put, !.pc = "direct"]
             s2 == NoCall(call[c].q)
             s4 == [call[c] EXCEPT !.q = put, !.pc = "put"]
  <2>0. data' = data /\ ~tx.active /\ call[c].pc = "fetched"
    BY <1>1, <1>6 DEF Fetched, At
  <2>1. Goto(c, s1) \/ Goto(c, s2) \/ Goto(c, s4)
    BY <1>6, <2>0 DEF Fetched
  <2>2. put.do = "over"
    <3>1. call[c].q \in Request /\ call[c].rows \in Rows /\ call[c].q.do \in Ops
      BY <1>0, <2>0 DEF CallTyped, Suits, Ops
    <3> QED
      BY <3>1, PutTyped
  <2> HIDE DEF put
  <2>3. /\ s1.pc = "direct" /\ s1.q = put /\ s2.pc = "done" /\ s2.q = call[c].q
        /\ s4.pc = "put" /\ s4.q = put
    BY <1>0 DEF IsCall, NoCall
  <2> HIDE DEF s1, s2, s4
  <2> QED
    BY <1>2, <1>4, <2>0, <2>1, <2>2, <2>3 DEF Ops
<1>7. CASE Put(c)
  <2> DEFINE s == [call[c] EXCEPT !.pc = "direct"]
             to == IF tx.active THEN "snap" ELSE "direct"
  <2>1. data' = data /\ ~tx.active
    BY <1>1, <1>7 DEF Put, At
  <2>2. Goto(c, s)
    <3>1. Allowed(c)
      BY <2>1 DEF Allowed
    <3>2. Goto(c, [call[c] EXCEPT !.pc = to])
      BY <1>7, <3>1 DEF Put
    <3>3. to = "direct"
      BY <2>1
    <3> HIDE DEF to
    <3> QED
      BY <3>2, <3>3
  <2>3. s.pc = "direct" /\ s.q = call[c].q
    BY <1>0 DEF IsCall
  <2> HIDE DEF s
  <2> QED
    BY <1>2, <1>4, <2>1, <2>2, <2>3
<1>8. CASE Direct(c)
  <2> DEFINE s == [NoCall(call[c].q) EXCEPT !.rows = RowsOf(data, T(c))]
  <2>1. ~tx.active /\ (Goto(c, s) \/ \E r : Return(c, r))
    BY <1>1, <1>8 DEF Direct, At
  <2>2. s.pc = "done" /\ s.q = call[c].q
    BY DEF NoCall
  <2> HIDE DEF s
  <2>3. call'[c].pc = "done" /\ call'[c].q = call[c].q
    BY <1>0, <2>1, <2>2, GotoIs, ReturnIs
  <2>4. \A e : Good(c, call'[c], e, tx, hist)
    BY <1>2, <2>1, <2>3, OutsideGood DEF Now, Ops
  <2> QED
    BY <1>0, <2>4 DEF Then
<1> QED
  BY <1>0, <1>3, <1>5, <1>6, <1>7, <1>8

(* The snapshot is of the table as the transaction found it.               *)
LEMMA SnapshotsShot ==
  ASSUME TxTyped(tx), NEW t \in Tables, data \in Data, data = hist.from, tx.active, Snapped(tx, hist),
         NEW x, x.snaps = Snapshots(t, RowsOf(data, t))
  PROVE  /\ \A i \in 1..Len(x.snaps) : Shot(x.snaps[i], hist.from)
         /\ Covered(x, t) /\ \A u : Covered(tx, u) => Covered(x, u)
<1>0. tx.snaps \in Seq(Snapshot) /\ DOMAIN tx.snaps = 1..Len(tx.snaps) /\ Len(tx.snaps) \in Nat
  BY DEF TxTyped
<1>1. \A i \in 1..Len(tx.snaps) : Shot(tx.snaps[i], hist.from)
  BY DEF Snapped
<1>2. CASE HasSnapshot(t)
  BY <1>0, <1>1, <1>2 DEF Snapshots, HasSnapshot, Covered
<1>3. CASE ~HasSnapshot(t)
  <2> DEFINE new == [table |-> t, rows |-> RowsOf(data, t), existed |-> data[t] # NoTable]
             n == Len(tx.snaps)
  <2>1. x.snaps = Append(tx.snaps, new)
    BY <1>3 DEF Snapshots
  <2>2. new.table = t /\ Shot(new, hist.from)
    BY DEF Shot, RowsOf
  <2> HIDE DEF new
  <2>3. Len(x.snaps) = n + 1 /\ x.snaps[n + 1] = new /\ \A i \in 1..n : x.snaps[i] = tx.snaps[i]
    BY <1>0, <2>1
  <2>4. (\A i \in 1..n + 1 : i = n + 1 \/ i \in 1..n) /\ n + 1 \in 1..n + 1 /\ 1..n \subseteq 1..n + 1
    BY <1>0
  <2> HIDE DEF n
  <2>5. \A i \in 1..n : Shot(tx.snaps[i], hist.from)
    BY <1>1 DEF n
  <2>6. \A i \in 1..Len(x.snaps) : Shot(x.snaps[i], hist.from)
    BY <2>2, <2>3, <2>4, <2>5
  <2>7. Covered(x, t)
    BY <2>2, <2>3, <2>4 DEF Covered
  <2>8. ASSUME NEW u, Covered(tx, u) PROVE Covered(x, u)
    <3>1. PICK i \in 1..n : tx.snaps[i].table = u
      BY <2>8 DEF Covered, n
    <3> QED
      BY <2>3, <2>4, <3>1 DEF Covered
  <2> QED
    BY <2>6, <2>7, <2>8
<1> QED
  BY <1>2, <1>3

LEMMA AddGood ==
  ASSUME TInv, NEW c \in Clients, Only(c), Now(c), Add(c) PROVE Then(c)
<1>0. /\ Shape /\ data \in Data /\ IsCall(call[c]) /\ CallTyped(call[c]) /\ IsTx(tx) /\ IsHist(hist)
      /\ data' = data /\ call[c].pc = "add" /\ TxTyped(tx)
  BY DEF TInv, Shape, Add, At
<1>h. /\ hist.from \in Data /\ hist.to \in Data /\ Placed(c, call[c], tx) /\ Snapped(tx, hist)
      /\ Queued(call[c], data, tx, hist) /\ Settled(call[c], data, tx, hist)
  BY DEF Now, Good
<1> DEFINE q == call[c].q
<1>1. /\ q \in Request /\ q.do \in Ops /\ q \in OpRequest /\ T(c) = q.table /\ q.table \in Tables
  BY <1>0 DEF CallTyped, Suits, T, Request, OpRequest
<1>2. tx.active /\ tx.owner = Owner[c] /\ MayAdd(c)
  BY <1>0, <1>h DEF Placed, MayAdd, Allowed
<1>3. /\ data = hist.from /\ Leads(tx.ops, data, hist.to)
      /\ \A t \in DOMAIN tx.view : tx.view[t] = RowsOf(hist.to, t)
      /\ call[c].rows = RowsOf(data, q.table)
  BY <1>0, <1>2, <1>h DEF Queued, Committing
<1>4. /\ tx'.active /\ tx'.owner = Owner[c] /\ tx'.ops = Append(tx.ops, q)
      /\ tx'.snaps = Snapshots(q.table, RowsOf(data, q.table)) /\ tx'.view = WithoutView(q.table)
  <2>1. tx' = [tx EXCEPT !.ops = Append(@, call[c].q), !.snaps = Snapshots(T(c), call[c].rows),
                         !.view = WithoutView(T(c))]
    BY <1>2, AddCases
  <2>2. /\ tx'.active = tx.active /\ tx'.owner = tx.owner /\ tx'.ops = Append(tx.ops, call[c].q)
        /\ tx'.snaps = Snapshots(T(c), call[c].rows) /\ tx'.view = WithoutView(T(c))
    BY <1>0, <2>1 DEF IsTx
  <2> QED
    BY <1>1, <1>2, <1>3, <2>2
<1>5. hist'.from = hist.from /\ hist'.to = Written(hist.to, q)
  BY <1>0, <1>2, AddCases DEF IsHist
<1>6. call'[c].pc \in {"view", "done"} /\ call'[c].q = q
  <2>1. call'[c] = AddedTo(c, c)
    BY <1>2, AddCases
  <2>2. CASE q.do \in {"append", "bulk"}
    BY <1>0, <2>1, <2>2 DEF AddedTo, IsCall
  <2>3. CASE q.do \notin {"append", "bulk"}
    BY <2>1, <2>3 DEF AddedTo, NoCall
  <2> QED
    BY <2>2, <2>3
<1> DEFINE s == call'[c]  x == tx'  h == hist'
<1> HIDE DEF s, x, h, q
<1>7. q \in Request /\ q.do \in Ops \cup {"sync"}
  BY <1>1
<1>8. /\ Written(hist.to, q) \in Data
      /\ \A t \in Tables : q.table # t => Written(hist.to, q)[t] = hist.to[t]
  BY <1>7, <1>h, WrittenIs
<1>9. Placed(c, s, x)
  BY <1>4, <1>6 DEF Placed, s, x
<1>10. /\ \A i \in 1..Len(x.snaps) : Shot(x.snaps[i], hist.from)
       /\ Covered(x, q.table) /\ \A u : Covered(tx, u) => Covered(x, u)
  <2>1. x.snaps = Snapshots(q.table, RowsOf(data, q.table))
    BY <1>4 DEF x
  <2> QED
    BY <1>0, <1>1, <1>2, <1>3, <1>h, <2>1, SnapshotsShot
<1>11. /\ tx.ops \in Seq(OpRequest) /\ Len(tx.ops) \in Nat
       /\ x.ops = Append(tx.ops, q) /\ \A i \in 1..Len(x.ops) : x.ops[i] = q \/ \E j \in 1..Len(tx.ops) : x.ops[i] = tx.ops[j]
  <2>1. tx.ops \in Seq(OpRequest) /\ Len(tx.ops) \in Nat /\ x.ops = Append(tx.ops, q)
    BY <1>0, <1>4 DEF TxTyped, x
  <2>2. /\ Len(x.ops) = Len(tx.ops) + 1 /\ x.ops[Len(tx.ops) + 1] = q
        /\ \A j \in 1..Len(tx.ops) : x.ops[j] = tx.ops[j]
    BY <1>1, <2>1
  <2>3. \A i \in 1..Len(tx.ops) + 1 : i = Len(tx.ops) + 1 \/ i \in 1..Len(tx.ops)
    BY <2>1
  <2> QED
    BY <2>1, <2>2, <2>3
<1>12. Snapped(x, h)
  <2>1. \A j \in 1..Len(tx.ops) : Covered(x, tx.ops[j].table)
    BY <1>2, <1>h, <1>10 DEF Snapped
  <2>2. \A i \in 1..Len(x.ops) : Covered(x, x.ops[i].table)
    BY <1>10, <1>11, <2>1
  <2> QED
    BY <1>5, <1>10, <2>2 DEF Snapped, h
<1>13. Queued(s, data, x, h)
  <2>1. Leads(x.ops, data, h.to)
    BY <1>0, <1>1, <1>3, <1>5, <1>11, <1>h, LeadsAppend DEF h
  <2>2. ASSUME NEW t \in DOMAIN x.view PROVE x.view[t] = RowsOf(h.to, t)
    <3>1. t \in DOMAIN tx.view /\ t # q.table /\ x.view[t] = tx.view[t] /\ t \in Tables
      BY <1>0, <1>4, <2>2 DEF WithoutView, x, TxTyped, ViewTyped
    <3> QED
      BY <1>3, <1>5, <1>8, <3>1 DEF RowsOf, h
  <2> QED
    BY <1>1, <1>3, <1>5, <1>6, <2>1, <2>2 DEF Queued, s, h, Ops
<1>14. ASSUME Exact PROVE Unaltered(s, x, h)
  <2>1. scope.engine = "sqlite" => q.do # "update" /\ \A i \in 1..Len(tx.ops) : tx.ops[i].do # "update"
    BY <1>0, <1>14, <1>h DEF Settled, Unaltered, q
  <2> QED
    BY <1>6, <1>11, <2>1 DEF Unaltered, Committing, s
<1>15. Replays(s, data, x, h) /\ Finalizes(s, data, x, h) /\ Restores(s, data, h) /\ Settles(s, data, h)
  BY <1>1, <1>6 DEF Replays, Finalizes, Restores, Settles, Ops, s
<1>16. Good(c, s, data, x, h)
  BY <1>5, <1>8, <1>9, <1>12, <1>13, <1>14, <1>15, <1>h DEF Good, Settled, h
<1> QED
  BY <1>0, <1>16 DEF Then, s, x, h

-----------------------------------------------------------------------------
(* The commit that fails: what it has written is covered by snapshots.     *)
LEMMA ThrownGood ==
  ASSUME TInv, NEW c \in Clients, Now(c), call[c].pc \in {"replay", "finalize"}
  PROVE  Good(c, Thrown(c), data, tx, hist)
<1>0. Shape /\ IsCall(call[c]) /\ TxTyped(tx)
  BY DEF TInv, Shape
<1>h. /\ hist.from \in Data /\ hist.to \in Data /\ Placed(c, call[c], tx) /\ Snapped(tx, hist)
      /\ Queued(call[c], data, tx, hist) /\ Settled(call[c], data, tx, hist)
  BY DEF Now, Good
<1>1. tx.active /\ Allowed(c)
  BY <1>h DEF Placed, Allowed
<1> DEFINE s == Thrown(c)
<1>2. /\ s.pc = "restore" /\ s.todo = Reverse(tx.snaps) /\ s.q = call[c].q /\ s.sick = call[c].sick
      /\ s.base = call[c].base
  BY <1>0, <1>1 DEF Thrown, IsCall
<1> HIDE DEF s
<1>3. Placed(c, s, tx) /\ Queued(s, data, tx, hist)
  BY <1>1, <1>2, <1>h DEF Placed, Queued, Committing
<1>4. ASSUME Exact PROVE Unaltered(s, tx, hist) /\ Restores(s, data, hist)
  <2>1. Unaltered(s, tx, hist)
    BY <1>2, <1>4, <1>h DEF Settled, Unaltered, Committing
  <2>2. ~call[c].sick /\ \A t \in Tables : data[t] # hist.from[t] => Covered(tx, t)
    BY <1>4, <1>h DEF Settled, Replays, Finalizes
  <2>3. /\ Len(s.todo) = Len(tx.snaps)
        /\ \A i \in 1..Len(tx.snaps) : /\ \E j \in 1..Len(tx.snaps) : s.todo[i] = tx.snaps[j]
                                       /\ \E j \in 1..Len(tx.snaps) : tx.snaps[i] = s.todo[j]
    BY <1>0, <1>2, ReverseTyped DEF TxTyped
  <2>4. \A i \in 1..Len(s.todo) : Shot(s.todo[i], hist.from)
    BY <1>1, <1>h, <2>3 DEF Snapped
  <2>5. ASSUME NEW t \in Tables, data[t] # hist.from[t]
        PROVE  \E i \in 1..Len(s.todo) : s.todo[i].table = t
    <3>1. PICK i \in 1..Len(tx.snaps) : tx.snaps[i].table = t
      BY <2>2, <2>5 DEF Covered
    <3> QED
      BY <2>3, <3>1
  <2> QED
    BY <2>1, <2>4, <2>5 DEF Restores
<1>5. Replays(s, data, tx, hist) /\ Finalizes(s, data, tx, hist) /\ Settles(s, data, hist)
  BY <1>2 DEF Replays, Finalizes, Settles
<1>6. Good(c, s, data, tx, hist)
  BY <1>3, <1>4, <1>5, <1>h DEF Good, Settled
<1> QED
  BY <1>6 DEF s

LEMMA ReplayGood ==
  ASSUME TInv, NEW c \in Clients, Only(c), Now(c), Replay(c) PROVE Then(c)
<1>0. /\ Shape /\ data \in Data /\ IsCall(call[c]) /\ CallTyped(call[c]) /\ IsTx(tx) /\ IsHist(hist)
      /\ call[c].pc = "replay" /\ call[c].todo # <<>> /\ TxTyped(tx)
  BY DEF TInv, Shape, Replay, At
<1>h. /\ hist.from \in Data /\ hist.to \in Data /\ Placed(c, call[c], tx) /\ Snapped(tx, hist)
      /\ Queued(call[c], data, tx, hist) /\ Settled(call[c], data, tx, hist)
  BY DEF Now, Good
<1> DEFINE q == Head(call[c].todo)
           r == [call[c] EXCEPT !.todo = Tail(@), !.count = @ + 1]
<1>1. \/ /\ data' = Replayed(q) /\ tx' = [tx EXCEPT !.view = ViewAfter(q)] /\ Goto(c, r)
         /\ hist' = [hist EXCEPT !.wrong = @ \cup (IF call[c].list = "rolled" THEN {"stray"} ELSE {})]
      \/ Goto(c, Thrown(c)) /\ data' = data /\ tx' = tx /\ hist' = hist
  BY DEF Replay
<1>2. CASE Goto(c, Thrown(c)) /\ data' = data /\ tx' = tx /\ hist' = hist
  BY <1>0, <1>2, ThrownGood, GotoIs DEF Then
<1>3. CASE /\ data' = Replayed(q) /\ tx' = [tx EXCEPT !.view = ViewAfter(q)] /\ Goto(c, r)
           /\ hist' = [hist EXCEPT !.wrong = @ \cup (IF call[c].list = "rolled" THEN {"stray"} ELSE {})]
  <2>1. /\ tx'.active = tx.active /\ tx'.owner = tx.owner /\ tx'.ops = tx.ops /\ tx'.snaps = tx.snaps
        /\ hist'.from = hist.from /\ hist'.to = hist.to
    BY <1>0, <1>3 DEF IsTx, IsHist
  <2>2. /\ r.pc = "replay" /\ r.q = call[c].q /\ r.todo = Tail(call[c].todo) /\ r.sick = call[c].sick
        /\ r.result = call[c].result /\ r.base = call[c].base
    BY <1>0 DEF IsCall
  <2>3. call'[c] = r
    BY <1>0, <1>3, GotoIs
  <2>4. call[c].todo \in Seq(OpRequest)
    BY <1>0 DEF CallTyped
  <2>5. /\ q \in OpRequest /\ q = call[c].todo[1] /\ 1 \in 1..Len(call[c].todo)
        /\ \A i \in 1..Len(Tail(call[c].todo)) :
             i + 1 \in 1..Len(call[c].todo) /\ Tail(call[c].todo)[i] = call[c].todo[i + 1]
    BY <1>0, <2>4
  <2> DEFINE x == tx'  h == hist'  d == data'
  <2> HIDE DEF x, h, d, r, q
  <2>6. Placed(c, r, x) /\ Snapped(x, h) /\ Queued(r, d, x, h)
    BY <1>0, <1>h, <2>1, <2>2 DEF Placed, Snapped, Covered, Queued, Committing, x, h
  <2>7. ASSUME Exact PROVE Unaltered(r, x, h) /\ Replays(r, d, x, h)
    <3>0. Unaltered(call[c], tx, hist) /\ Replays(call[c], data, tx, hist)
      BY <1>h, <2>7 DEF Settled
    <3>1. Unaltered(r, x, h)
      BY <1>0, <2>1, <2>2, <2>5, <3>0 DEF Unaltered, Committing, x, h
    <3>2. scope.engine = "sqlite" => q.do # "update"
      BY <1>0, <2>5, <3>0 DEF Unaltered
    <3>3. d = Written(data, q)
      BY <1>3, <3>2 DEF Replayed, d
    <3>4. ~r.sick /\ r.result = "ok"
      BY <1>0, <2>2, <3>0 DEF Replays
    <3>5. Leads(r.todo, d, h.to)
      BY <1>0, <1>h, <2>1, <2>2, <2>4, <3>0, <3>3, LeadsFirst DEF Replays, h, q
    <3>6. \A t : Covered(x, t) <=> Covered(tx, t)
      BY <2>1 DEF Covered, x
    <3>7. ASSUME NEW t \in Tables, d[t] # h.from[t] PROVE Covered(x, t)
      <4>1. q \in Request /\ q.do \in Ops \cup {"sync"}
        BY <2>5 DEF OpRequest
      <4>2. q.table = t \/ d[t] = data[t]
        BY <1>0, <3>3, <4>1, WrittenIs
      <4>3. Covered(tx, q.table)
        BY <1>0, <2>5, <3>0 DEF Replays
      <4> QED
        BY <1>0, <2>1, <3>0, <3>6, <3>7, <4>2, <4>3 DEF Replays, h
    <3>8. \A i \in 1..Len(r.todo) : Covered(x, r.todo[i].table)
      BY <1>0, <2>2, <2>5, <3>0, <3>6 DEF Replays
    <3> QED
      BY <3>1, <3>4, <3>5, <3>7, <3>8 DEF Replays
  <2>8. Finalizes(r, d, x, h) /\ Restores(r, d, h) /\ Settles(r, d, h)
    BY <2>2 DEF Finalizes, Restores, Settles
  <2>9. h.from \in Data /\ h.to \in Data
    BY <1>h, <2>1 DEF h
  <2>10. Good(c, r, d, x, h)
    BY <2>6, <2>7, <2>8, <2>9 DEF Good, Settled
  <2> QED
    BY <2>3, <2>10 DEF Then, d, x, h
<1> QED
  BY <1>1, <1>2, <1>3

LEMMA FinalizeGood ==
  ASSUME TInv, NEW c \in Clients, Only(c), Now(c), EndReplay(c) \/ Finalize(c) PROVE Then(c)
<1>0. /\ Shape /\ data \in Data /\ IsCall(call[c]) /\ CallTyped(call[c])
      /\ data' = data /\ hist' = hist /\ tx' = tx /\ call[c].pc \in {"replay", "finalize"}
  BY DEF TInv, Shape, EndReplay, Finalize, At
<1>h. /\ hist.from \in Data /\ hist.to \in Data /\ Placed(c, call[c], tx) /\ Snapped(tx, hist)
      /\ Queued(call[c], data, tx, hist) /\ Settled(call[c], data, tx, hist)
  BY DEF Now, Good
<1>1. CASE Goto(c, Thrown(c))
  BY <1>0, <1>1, ThrownGood, GotoIs DEF Then
<1>2. CASE EndReplay(c)
  <2> DEFINE s == [call[c] EXCEPT !.pc = "finalize"]
  <2>1. Goto(c, s) /\ call[c].pc = "replay" /\ call[c].todo = <<>>
    BY <1>2 DEF EndReplay, At
  <2>2. /\ s.pc = "finalize" /\ s.q = call[c].q /\ s.sick = call[c].sick
        /\ s.result = call[c].result /\ s.base = call[c].base
    BY <1>0 DEF IsCall
  <2> HIDE DEF s
  <2>3. Placed(c, s, tx) /\ Queued(s, data, tx, hist)
    BY <1>0, <1>h, <2>1, <2>2 DEF Placed, Queued, Committing
  <2>4. ASSUME Exact PROVE Unaltered(s, tx, hist) /\ Finalizes(s, data, tx, hist)
    <3>0. Unaltered(call[c], tx, hist) /\ Replays(call[c], data, tx, hist)
      BY <1>h, <2>4 DEF Settled
    <3>1. Unaltered(s, tx, hist)
      BY <2>1, <2>2, <3>0 DEF Unaltered, Committing
    <3>2. call[c].todo \in Seq(OpRequest)
      BY <1>0, <2>1 DEF CallTyped
    <3>3. data = hist.to
      BY <1>0, <1>h, <2>1, <3>0, <3>2, LeadsEnd DEF Replays
    <3> QED
      BY <2>1, <2>2, <3>0, <3>1, <3>3 DEF Replays, Finalizes
  <2>5. Replays(s, data, tx, hist) /\ Restores(s, data, hist) /\ Settles(s, data, hist)
    BY <2>2 DEF Replays, Restores, Settles
  <2>6. Good(c, s, data, tx, hist)
    BY <1>h, <2>3, <2>4, <2>5 DEF Good, Settled
  <2> QED
    BY <1>0, <2>1, <2>6, GotoIs DEF Then
<1>3. CASE Finalize(c) /\ Goto(c, [call[c] EXCEPT !.pc = "finally"])
  <2> DEFINE s == [call[c] EXCEPT !.pc = "finally"]
  <2>1. Goto(c, s) /\ call[c].pc = "finalize"
    BY <1>3 DEF Finalize, At
  <2>2. /\ s.pc = "finally" /\ s.q = call[c].q /\ s.result = call[c].result /\ s.base = call[c].base
    BY <1>0 DEF IsCall
  <2> HIDE DEF s
  <2>3. Placed(c, s, tx) /\ Queued(s, data, tx, hist)
    BY <1>0, <1>h, <2>1, <2>2 DEF Placed, Queued, Committing
  <2>4. ASSUME Exact PROVE Unaltered(s, tx, hist) /\ Settles(s, data, hist)
    BY <1>h, <2>1, <2>2, <2>4 DEF Settled, Unaltered, Finalizes, Settles, Committing
  <2>5. Replays(s, data, tx, hist) /\ Finalizes(s, data, tx, hist) /\ Restores(s, data, hist)
    BY <2>2 DEF Replays, Finalizes, Restores
  <2>6. Good(c, s, data, tx, hist)
    BY <1>h, <2>3, <2>4, <2>5 DEF Good, Settled
  <2> QED
    BY <1>0, <2>1, <2>6, GotoIs DEF Then
<1> QED
  BY <1>1, <1>2, <1>3 DEF Finalize

LEMMA RestoreGood ==
  ASSUME TInv, NEW c \in Clients, Only(c), Now(c), Restore(c) PROVE Then(c)
<1>0. /\ Shape /\ data \in Data /\ IsCall(call[c]) /\ CallTyped(call[c])
      /\ hist' = hist /\ tx' = tx /\ call[c].pc = "restore" /\ call[c].todo # <<>>
  BY DEF TInv, Shape, Restore, At
<1>h. /\ hist.from \in Data /\ hist.to \in Data /\ Placed(c, call[c], tx) /\ Snapped(tx, hist)
      /\ Queued(call[c], data, tx, hist) /\ Settled(call[c], data, tx, hist)
  BY DEF Now, Good
<1> DEFINE snap == Head(call[c].todo)
           s == [call[c] EXCEPT !.todo = Tail(@)]
           r == [call[c] EXCEPT !.todo = Tail(@), !.sick = TRUE]
<1>1. \/ data' = Restored(snap) /\ Goto(c, s)
      \/ data' = data /\ Goto(c, r)
  BY DEF Restore
<1>2. call[c].todo \in Seq(Snapshot)
  BY <1>0 DEF CallTyped
<1>3. /\ snap \in Snapshot /\ snap = call[c].todo[1] /\ 1 \in 1..Len(call[c].todo)
      /\ \A i \in 1..Len(Tail(call[c].todo)) :
           i + 1 \in 1..Len(call[c].todo) /\ Tail(call[c].todo)[i] = call[c].todo[i + 1]
      /\ \A i \in 1..Len(call[c].todo) :
           i = 1 \/ \E j \in 1..Len(Tail(call[c].todo)) : Tail(call[c].todo)[j] = call[c].todo[i]
  <2> DEFINE todo == call[c].todo  n == Len(todo)
  <2>1. n \in Nat /\ n # 0 /\ Len(Tail(todo)) = n - 1 /\ Head(todo) = todo[1] /\ todo[1] \in Snapshot
    BY <1>0, <1>2
  <2>2. \A i \in 1..n - 1 : Tail(todo)[i] = todo[i + 1]
    BY <1>0, <1>2
  <2> HIDE DEF n, todo
  <2>3. 1 \in 1..n /\ \A i \in 1..n - 1 : i + 1 \in 1..n
    BY <2>1
  <2>4. \A i \in 1..n : i = 1 \/ (i - 1 \in 1..n - 1 /\ (i - 1) + 1 = i)
    BY <2>1
  <2>5. \A i \in 1..n : i = 1 \/ \E j \in 1..n - 1 : Tail(todo)[j] = todo[i]
    BY <2>2, <2>4
  <2> QED
    BY <2>1, <2>2, <2>3, <2>5 DEF n, todo
<1>4. /\ s.pc = "restore" /\ s.q = call[c].q /\ s.todo = Tail(call[c].todo) /\ s.sick = call[c].sick
      /\ s.base = call[c].base
      /\ r.pc = "restore" /\ r.q = call[c].q /\ r.todo = Tail(call[c].todo) /\ r.sick
      /\ r.base = call[c].base
  BY <1>0 DEF IsCall
<1> HIDE DEF snap, s, r
<1>5. ASSUME NEW u, u.pc = "restore", u.q = call[c].q, u.base = call[c].base, NEW d,
             Exact => Restores(u, d, hist)
      PROVE  Good(c, u, d, tx, hist)
  <2>1. Placed(c, u, tx) /\ Queued(u, d, tx, hist)
    BY <1>0, <1>h, <1>5 DEF Placed, Queued, Committing
  <2>2. ASSUME Exact PROVE Unaltered(u, tx, hist)
    BY <1>0, <1>h, <1>5, <2>2 DEF Settled, Unaltered, Committing
  <2>3. Replays(u, d, tx, hist) /\ Finalizes(u, d, tx, hist) /\ Settles(u, d, hist)
    BY <1>5 DEF Replays, Finalizes, Settles
  <2> QED
    BY <1>h, <1>5, <2>1, <2>2, <2>3 DEF Good, Settled
<1>6. ASSUME Exact
      PROVE  \A i \in 1..Len(call[c].todo) : Shot(call[c].todo[i], hist.from)
  BY <1>0, <1>6, <1>h DEF Settled, Restores
<1>7. CASE data' = data /\ Goto(c, r)
  <2>1. Exact => Restores(r, data, hist)
    BY <1>3, <1>4, <1>6 DEF Restores
  <2> QED
    BY <1>0, <1>4, <1>5, <1>7, <2>1, GotoIs DEF Then
<1>8. CASE data' = Restored(snap) /\ Goto(c, s)
  <2> DEFINE d == Restored(snap)
  <2>1. ASSUME Exact PROVE Restores(s, d, hist)
    <3>1. Shot(snap, hist.from)
      BY <1>3, <1>6, <2>1
    <3>2. d = [data EXCEPT ![snap.table] = hist.from[snap.table]]
      BY <3>1 DEF Restored, Shot
    <3>3. \A t \in Tables : d[t] = IF t = snap.table THEN hist.from[t] ELSE data[t]
      BY <1>0, <3>2 DEF Data
    <3> HIDE DEF d
    <3>4. ~call[c].sick => \A t \in Tables : data[t] # hist.from[t] =>
            \E i \in 1..Len(call[c].todo) : call[c].todo[i].table = t
      BY <1>0, <1>h, <2>1 DEF Settled, Restores
    <3>5. ASSUME ~s.sick, NEW t \in Tables, d[t] # hist.from[t]
          PROVE  \E i \in 1..Len(s.todo) : s.todo[i].table = t
      <4>1. t # snap.table /\ data[t] # hist.from[t]
        BY <3>3, <3>5
      <4>2. PICK i \in 1..Len(call[c].todo) : call[c].todo[i].table = t
        BY <1>4, <3>4, <3>5, <4>1
      <4> QED
        BY ZenonT(60), <1>3, <1>4, <4>1, <4>2
    <3>6. \A i \in 1..Len(s.todo) : Shot(s.todo[i], hist.from)
      BY <1>3, <1>4, <1>6, <2>1
    <3> QED
      BY <3>5, <3>6 DEF Restores
  <2> HIDE DEF d
  <2>2. Good(c, s, d, tx, hist)
    BY <1>4, <1>5, <2>1
  <2> QED
    BY <1>0, <1>8, <2>2, GotoIs DEF Then, d
<1> QED
  BY <1>1, <1>7, <1>8

LEMMA EndGood ==
  ASSUME TInv, NEW c \in Clients, Only(c), Now(c), EndRestore(c) \/ Finally(c) PROVE Then(c)
<1>0. Shape /\ data \in Data /\ IsCall(call[c]) /\ CallTyped(call[c]) /\ IsHist(hist)
  BY DEF TInv, Shape
<1>h. /\ hist.from \in Data /\ hist.to \in Data /\ Placed(c, call[c], tx) /\ Snapped(tx, hist)
      /\ Queued(call[c], data, tx, hist) /\ Settled(call[c], data, tx, hist)
  BY DEF Now, Good
<1>1. CASE EndRestore(c)
  <2> DEFINE s == [call[c] EXCEPT !.pc = "finally",
                     !.result = IF call[c].sick THEN "torn" ELSE "failed"]
  <2>1. /\ call' = [Ended(call, "ended") EXCEPT ![c] = s] /\ tx' = NoTx /\ data' = data /\ hist' = hist
        /\ call[c].pc = "restore" /\ call[c].todo = <<>>
    BY <1>1 DEF EndRestore, At
  <2>2. /\ s.pc = "finally" /\ s.q = call[c].q /\ s.base = call[c].base
        /\ s.result = IF call[c].sick THEN "torn" ELSE "failed"
    BY <1>0 DEF IsCall
  <2> HIDE DEF s
  <2>3. call'[c] = s
    BY <1>0, <2>1, EndedShape
  <2>4. s.q.do = "commit"
    BY <1>0, <2>1, <2>2 DEF CallTyped, Suits, Committing
  <2>5. ASSUME Exact PROVE Settles(s, data, hist)
    <3>1. 1..Len(call[c].todo) = {}
      BY <2>1
    <3>2. ~call[c].sick => \A t \in Tables : data[t] = hist.from[t]
      BY <1>h, <2>1, <2>5, <3>1 DEF Settled, Restores
    <3>3. ~call[c].sick => data = hist.from
      BY <1>0, <1>h, <3>2 DEF Data
    <3> QED
      BY <2>2, <3>3 DEF Settles
  <2>6. Exact /\ scope.engine = "sqlite" => s.base = hist.from
    BY <1>h, <2>1, <2>2 DEF Settled, Unaltered, Committing
  <2>7. Good(c, s, data, NoTx, hist)
    BY <1>h, <2>2, <2>4, <2>5, <2>6, EndedGood
  <2> QED
    BY <2>1, <2>3, <2>7 DEF Then
<1>2. CASE Finally(c)
  <2> DEFINE s == [NoCall(call[c].q) EXCEPT !.result = call[c].result]
             d == IF scope.engine = "sqlite" /\ call[c].result # "ok" THEN call[c].base ELSE data
  <2>1. /\ call' = [Ended(call, "ended") EXCEPT ![c] = s] /\ call[c].pc = "finally"
        /\ tx' = (IF tx.active THEN NoTx ELSE tx) /\ data' = d
    BY <1>2 DEF Finally, At
  <2>2. hist'.from = hist.from /\ hist'.to = hist.to
    <3>1. \E w : hist' = [hist EXCEPT !.wrong = w]
      BY <1>0, <1>2 DEF Finally, IsHist
    <3> QED
      BY <1>0, <3>1 DEF IsHist
  <2>3. s.pc = "done" /\ s.q = call[c].q /\ s.result = call[c].result
    BY DEF NoCall
  <2> DEFINE h == hist'
  <2> HIDE DEF s, h
  <2>4. call'[c] = s
    BY <1>0, <2>1, EndedShape
  <2>5. s.q.do = "commit"
    BY <1>0, <2>1, <2>3 DEF CallTyped, Suits, Committing
  <2>6. ASSUME Exact PROVE Settles(s, d, h)
    <3>1. /\ call[c].result = "ok" => data = hist.to
          /\ call[c].result = "failed" => data = hist.from
          /\ scope.engine = "sqlite" => call[c].base = hist.from
      BY <1>h, <2>1, <2>6 DEF Settled, Unaltered, Settles, Committing
    <3> QED
      BY <2>2, <2>3, <2>5, <3>1 DEF Settles, h
  <2> HIDE DEF d
  <2>7. h.from \in Data /\ h.to \in Data
    BY <1>h, <2>2 DEF h
  <2>8. CASE tx.active
    <3>1. Good(c, s, d, NoTx, h)
      BY <2>3, <2>6, <2>7, EndedGood
    <3> QED
      BY <2>1, <2>4, <2>8, <3>1 DEF Then, h
  <2>9. CASE ~tx.active
    <3>1. Placed(c, s, tx) /\ Snapped(tx, h) /\ Queued(s, d, tx, h)
      BY <2>9, <2>3 DEF Placed, Snapped, Queued
    <3>2. ASSUME Exact PROVE Unaltered(s, tx, h)
      BY <1>h, <2>3, <3>2 DEF Settled, Unaltered, Committing
    <3>3. Replays(s, d, tx, h) /\ Finalizes(s, d, tx, h) /\ Restores(s, d, h)
      BY <2>3 DEF Replays, Finalizes, Restores
    <3>4. Good(c, s, d, tx, h)
      BY <2>6, <2>7, <3>1, <3>2, <3>3 DEF Good, Settled
    <3> QED
      BY <2>1, <2>4, <2>9, <3>4 DEF Then, h
  <2> QED
    BY <2>8, <2>9
<1> QED
  BY <1>1, <1>2

-----------------------------------------------------------------------------

(* A step of c leaves what the others do alone.                            *)
LEMMA OthersKept ==
  ASSUME Shape, NEW c \in Clients, Ask(c) \/ Step(c), NEW d \in Clients, d # c
  PROVE  call'[d].pc = call[d].pc /\ call'[d].q = call[d].q
<1>0. IsCall(call[d]) /\ call = [e \in Clients |-> call[e]]
  BY DEF Shape
<1>1. ASSUME NEW s, call' = [call EXCEPT ![c] = s] PROVE call'[d] = call[d]
  BY <1>0, <1>1
<1>2. ASSUME NEW how, NEW s, call' = [Ended(call, how) EXCEPT ![c] = s]
      PROVE  call'[d].pc = call[d].pc /\ call'[d].q = call[d].q
  <2>1. call'[d] = Ended(call, how)[d]
    BY <1>2, EndedShape
  <2>2. CASE call[d].list = "live"
    BY <1>0, <2>1, <2>2 DEF Ended, IsCall
  <2>3. CASE call[d].list # "live"
    BY <2>1, <2>3 DEF Ended
  <2> QED
    BY <2>2, <2>3
<1>3. CASE Ask(c)
  <2>1. PICK q \in scope.requests[c] :
          \/ \E s : call' = [call EXCEPT ![c] = s]
          \/ \E s : call' = [Ended(call, "rolled") EXCEPT ![c] = s]
    BY <1>3 DEF Ask, Goto
  <2> QED
    BY <1>1, <1>2, <2>1
<1>4. CASE Add(c) /\ MayAdd(c)
  <2>1. call'[d] = AddedTo(c, d)
    BY <1>4, AddCases
  <2> QED
    BY <1>0, <2>1 DEF AddedTo, IsCall
<1>5. CASE EndRestore(c) \/ Finally(c)
  <2>1. \E s : call' = [Ended(call, "ended") EXCEPT ![c] = s]
    BY <1>5 DEF EndRestore, Finally
  <2> QED
    BY <1>2, <2>1
<1>6. CASE Step(c) /\ ~(Add(c) /\ MayAdd(c)) /\ ~EndRestore(c) /\ ~Finally(c)
  <2>1. \E s : call' = [call EXCEPT ![c] = s]
    BY <1>6 DEF Step, Begin, StartGuarded, Guarded, View, Project, Snap, Add, Direct, Fetch,
                Fetched, Put, Replay, EndReplay, Finalize, Restore, Goto, Return
  <2> QED
    BY <1>1, <2>1
<1> QED
  BY <1>3, <1>4, <1>5, <1>6

LEMMA SoloInit == Init => Solo
<1> SUFFICES ASSUME Init PROVE Solo
  OBVIOUS
<1>1. /\ tx = NoTx /\ hist.from = data /\ hist.to = data
      /\ \A c \in Clients : call[c] = NoCall([do |-> "begin"])
  BY DEF Init
<1>2. data \in Data
  BY DEF Init, Data, Rows
<1>3. ASSUME NEW c \in Clients PROVE Now(c) /\ Others(c)
  <2>1. \A d \in Clients : call[d].pc = "done" /\ call[d].q.do = "begin"
    BY <1>1 DEF NoCall
  <2>2. Settles(call[c], data, hist)
    BY <2>1 DEF Settles
  <2>3. Good(c, call[c], data, NoTx, hist)
    BY <1>1, <1>2, <2>1, <2>2, EndedGood
  <2> QED
    BY <1>1, <2>1, <2>3 DEF Others, Now
<1> QED
  BY <1>3 DEF Solo

LEMMA SoloNext == TypeInv /\ Solo /\ [Next]_vars => Solo'
<1> SUFFICES ASSUME TInv, Solo, [Next]_vars PROVE Solo'
  BY DEF TypeInv
<1>0. scope' = scope
  BY DEF Next, Ask, Step, Begin, StartGuarded, Guarded, View, Project, Snap, Add, Direct, Fetch,
         Fetched, Put, Replay, EndReplay, Finalize, Restore, EndRestore, Finally, vars
<1>1. ASSUME NEW c \in Clients, Only(c) PROVE Then(c) /\ Others(c)'
  <2>1. Now(c) /\ Others(c)
    BY <1>1 DEF Solo
  <2>2. CASE UNCHANGED vars
    BY <2>1, <2>2 DEF vars, Now, Then, Others
  <2>3. CASE Next
    <3>1. PICK e \in Clients : Ask(e) \/ Step(e)
      BY <2>3 DEF Next
    <3>2. e = c
      <4>1. Ask(e) => e \in scope.clients
        BY DEF Ask
      <4>2. Step(e) => call[e].pc # "done"
        BY DEF Step, Begin, StartGuarded, Guarded, View, Project, Snap, Add, Direct, Fetch,
               Fetched, Put, Replay, EndReplay, Finalize, Restore, EndRestore, Finally, At
      <4> QED
        BY <1>1, <2>1, <3>1, <4>1, <4>2 DEF Only, Others
    <3>3. Then(c)
      BY <1>1, <2>1, <3>1, <3>2, AskGood, BoundaryGood, ViewGood, MoveGood, AddGood, ReplayGood,
         FinalizeGood, RestoreGood, EndGood DEF Step
    <3>4. Others(c)'
      BY <2>1, <3>1, <3>2, OthersKept DEF Others, TInv
    <3> QED
      BY <3>3, <3>4
  <2> QED
    BY <2>2, <2>3
<1>2. ASSUME NEW c \in Clients, Then(c) PROVE Now(c)'
  BY <1>0, <1>2 DEF Then, Now, Good, Settled, Exact, Unaltered
<1> QED
  BY <1>0, <1>1, <1>2 DEF Solo, Only

LEMMA SoloAlways == Spec => []Solo
  BY SoloInit, SoloNext, TypeInvAlways, PTL DEF Spec

(* Reads inside a transaction see what it has queued, on top of the        *)
(* tables, for one client and any requests, tables and rows: each view is  *)
(* what the queue leads to from the tables the transaction began with.     *)
THEOREM ConsistentHolds == Spec => []Consistent
<1>1. TypeInv /\ Solo => Consistent
  <2> SUFFICES ASSUME TypeInv, Solo PROVE Consistent
    OBVIOUS
  <2>1. TypeOK
    BY TypeInvTypes
  <2>2. ASSUME NEW e \in Clients, scope.clients = {e},
               NEW c \in Clients, At(c, "done"), tx.active, call[c].q.do = "read"
        PROVE  call[c].rows = RowsOf(hist.to, T(c))
    <3>1. Now(e) /\ Others(e)
      BY <2>2 DEF Solo, Only
    <3>2. c = e
      BY <2>2, <3>1 DEF Others
    <3> QED
      BY <2>2, <3>1, <3>2 DEF Now, Good, Queued, Committing, At, T
  <2> QED
    BY <2>1, <2>2 DEF Consistent, ReadsOwnWrites, Alone
<1> QED
  BY <1>1, TypeInvAlways, SoloAlways, PTL

(* A commit of one client is all or nothing, and its rollback leaves no    *)
(* trace, whatever fails: on the file engine for all requests, on SQLite   *)
(* for those without updates (Exact).                                      *)
THEOREM CommitIsAllOrNothingHolds == Spec /\ Exact => []CommitIsAllOrNothing
<1>1. Exact /\ [Next]_vars => Exact'
  <2> SUFFICES ASSUME Exact, [Next]_vars PROVE Exact'
    OBVIOUS
  <2>1. scope' = scope
    BY DEF Next, Ask, Step, Begin, StartGuarded, Guarded, View, Project, Snap, Add, Direct, Fetch,
           Fetched, Put, Replay, EndReplay, Finalize, Restore, EndRestore, Finally, vars
  <2> QED
    BY <2>1 DEF Exact
<1>2. Solo /\ Exact => CommitIsAllOrNothing
  <2> SUFFICES ASSUME Solo, Exact, NEW e \in Clients, scope.clients = {e},
                      NEW c \in Clients, At(c, "done")
               PROVE  /\ call[c].q.do = "commit" /\ call[c].result = "ok" => data = hist.to
                      /\ call[c].q.do = "commit" /\ call[c].result = "failed" => data = hist.from
                      /\ call[c].q.do = "rollback" /\ call[c].result = "ok" => data = hist.from
    BY DEF CommitIsAllOrNothing, Alone
  <2>1. Now(e) /\ Others(e)
    BY DEF Solo, Only
  <2>2. CASE c = e
    BY <2>1, <2>2 DEF Now, Good, Settled, Settles, At
  <2>3. CASE c # e
    BY <2>1, <2>3 DEF Others
  <2> QED
    BY <2>2, <2>3
<1> QED
  BY <1>1, <1>2, SoloAlways, PTL DEF Spec
=============================================================================
