----------------------------- MODULE AtomicTable -----------------------------
(* What one table promises its clients: a value that changes only while an *)
(* operation runs, and then only between the value the operation found and *)
(* the value it writes.  A success report means that the new value is in   *)
(* place; an error report, or a kill, leaves one of the two; a table on    *)
(* which nothing runs never changes, whatever recovery does behind it.     *)
CONSTANT Values

VARIABLES table, call

CallStates == [status: {"idle", "running", "ok"}, from: Values, to: Values]

Idle == [status |-> "idle", from |-> table, to |-> table]

Init == table \in Values /\ call = Idle

(* An operation starts: to is what it writes, from itself for a read.      *)
Begin ==
  /\ call.status = "idle"
  /\ call' \in CallStates /\ call'.status = "running" /\ call'.from = table
  /\ UNCHANGED table

(* A read-modify-write decides what it writes after it has read.           *)
Decide ==
  /\ call.status = "running" /\ call.to = call.from
  /\ call' \in CallStates /\ call'.status = "running" /\ call'.from = call.from
  /\ UNCHANGED table

(* The new value takes effect, or is rolled back.                          *)
Flip ==
  /\ call.status = "running"
  /\ table' \in {call.from, call.to}
  /\ UNCHANGED call

Succeed ==
  /\ call.status = "running" /\ table = call.to
  /\ call' = [call EXCEPT !.status = "ok"]
  /\ UNCHANGED table

(* The operation reports its outcome, or the process is killed.            *)
End ==
  /\ call.status # "idle"
  /\ call' = Idle
  /\ UNCHANGED table

Next == Begin \/ Decide \/ Flip \/ Succeed \/ End

Spec == Init /\ [][Next]_<<table, call>> /\ WF_<<table, call>>(End)
=============================================================================
