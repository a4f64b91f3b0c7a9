------------------------------- MODULE FifoLock -------------------------------
(***************************************************************************)
(* The in-process lock that orders the work on one path or table: a map    *)
(* from keys to promise tails.  An arrival chains its own tail behind the  *)
(* one it finds in the map and waits for that one, at most for a fixed     *)
(* time.  The same protocol is written three times in the code:            *)
(* FileHandlerBase.acquirePathLock (per file), withMetadataPathLock in     *)
(* meta/MetadataManager.ts (per metadata file) and DataWriter.acquireLock  *)
(* (per table, with operation slots on top: see WriterLock).               *)
(*                                                                         *)
(* A ticket is one call.  Its gate is the promise it resolves when it      *)
(* releases the lock or gives up; its tail settles, some microtasks later, *)
(* once the previous tail has settled and its own gate is resolved.        *)
(***************************************************************************)
EXTENDS Naturals

CONSTANTS
  Keys,        \* paths or tables
  MaxTickets   \* bound on the calls of a behaviour

ASSUME FifoLockAssumption == Keys # {} /\ MaxTickets \in Nat

VARIABLES
  next,      \* the next ticket
  key,       \* the key a ticket asked for
  previous,  \* the ticket whose tail it waits for, 0 when the map had none
  phase,     \* how far its call has come
  tails,     \* the map from keys to tails, 0 for no entry
  settled,   \* tickets whose tail promise has settled
  cleaned    \* timed-out tickets whose tail.then callback has run

lockVars == <<next, key, previous, phase, tails, settled, cleaned>>

Tickets == 1..MaxTickets
Phases == {"new", "waiting", "holding", "released", "timedOut"}

(* The gate of a ticket is resolved. *)
Gone(t) == phase[t] \in {"released", "timedOut"}

(* The promise a ticket awaits has settled. *)
PreviousSettled(t) == previous[t] = 0 \/ previous[t] \in settled

(* Removal of a tail from the map, by its own ticket only. *)
Forget(t) == tails' = IF tails[key[t]] = t THEN [tails EXCEPT ![key[t]] = 0] ELSE tails

TypeOK ==
  /\ next \in 1..(MaxTickets + 1)
  /\ key \in [Tickets -> Keys]
  /\ previous \in [Tickets -> 0..MaxTickets]
  /\ phase \in [Tickets -> Phases]
  /\ tails \in [Keys -> 0..MaxTickets]
  /\ settled \in SUBSET Tickets
  /\ cleaned \in SUBSET Tickets

Init ==
  /\ next = 1
  /\ key = [t \in Tickets |-> CHOOSE k \in Keys : TRUE]
  /\ previous = [t \in Tickets |-> 0]
  /\ phase = [t \in Tickets |-> "new"]
  /\ tails = [k \in Keys |-> 0]
  /\ settled = {} /\ cleaned = {}

(* A call arrives: it reads the map and publishes its own tail at once.    *)
Arrive(k) ==
  /\ next \in Tickets
  /\ next' = next + 1
  /\ key' = [key EXCEPT ![next] = k]
  /\ previous' = [previous EXCEPT ![next] = tails[k]]
  /\ phase' = [phase EXCEPT ![next] = "waiting"]
  /\ tails' = [tails EXCEPT ![k] = next]
  /\ UNCHANGED <<settled, cleaned>>

(* The awaited tail wins the race against the timer.                       *)
Enter(t) ==
  /\ phase[t] = "waiting" /\ PreviousSettled(t)
  /\ phase' = [phase EXCEPT ![t] = "holding"]
  /\ UNCHANGED <<next, key, previous, tails, settled, cleaned>>

(* Mutant of Timeout: empties the map before the earlier calls are over.   *)
Timeout_Forgetting(t) ==
  /\ phase[t] = "waiting"
  /\ phase' = [phase EXCEPT ![t] = "timedOut"]
  /\ Forget(t)
  /\ UNCHANGED <<next, key, previous, settled, cleaned>>

(* The timer wins: the call opens its gate and throws.                     *)
Timeout(t) ==
  /\ phase[t] = "waiting"
  /\ phase' = [phase EXCEPT ![t] = "timedOut"]
  /\ UNCHANGED <<next, key, previous, tails, settled, cleaned>>

(* Mutant of Release: leaves its tail in the map.                          *)
Release_Leaking(t) ==
  /\ phase[t] = "holding"
  /\ phase' = [phase EXCEPT ![t] = "released"]
  /\ UNCHANGED <<next, key, previous, tails, settled, cleaned>>

(* The holder opens its gate and, if nobody came after it, empties the map. *)
Release(t) ==
  /\ phase[t] = "holding"
  /\ phase' = [phase EXCEPT ![t] = "released"]
  /\ Forget(t)
  /\ UNCHANGED <<next, key, previous, settled, cleaned>>

(* previous.then(() => gate): the tail of a ticket settles.                *)
SettleTail(t) ==
  /\ t \notin settled /\ Gone(t) /\ PreviousSettled(t)
  /\ settled' = settled \cup {t}
  /\ UNCHANGED <<next, key, previous, phase, tails, cleaned>>

(* tail.then(...) of a call that timed out: the map is emptied only now.   *)
CleanTimedOut(t) ==
  /\ phase[t] = "timedOut" /\ t \in settled /\ t \notin cleaned
  /\ cleaned' = cleaned \cup {t}
  /\ Forget(t)
  /\ UNCHANGED <<next, key, previous, phase, settled>>

Next ==
  \/ \E k \in Keys : Arrive(k)
  \/ \E t \in Tickets :
       Enter(t) \/ Timeout(t) \/ Release(t) \/ SettleTail(t) \/ CleanTimedOut(t)

(* Promises settle, timers fire and a holder's operation comes to an end.  *)
Fairness ==
  \A t \in Tickets :
    /\ WF_lockVars(Enter(t) \/ Timeout(t)) /\ WF_lockVars(Release(t))
    /\ WF_lockVars(SettleTail(t)) /\ WF_lockVars(CleanTimedOut(t))

Spec == Init /\ [][Next]_lockVars
FairSpec == Spec /\ Fairness

-----------------------------------------------------------------------------
(* Two calls for the same key are never past the lock together, even when  *)
(* calls between them have given up (runWithPathLock, acquireLock).        *)
MutualExclusion ==
  \A t, u \in Tickets :
    t # u /\ phase[t] = "holding" /\ phase[u] = "holding" => key[t] # key[u]

(* Nobody overtakes: a holder's predecessors on its key have all released  *)
(* the lock or given up.                                                   *)
NoBypass ==
  \A t, u \in Tickets :
    phase[t] = "holding" /\ u < t /\ key[u] = key[t] => Gone(u)

(* The static map does not leak: a key whose calls are all over, callbacks *)
(* of the timed-out ones included, has no entry.                           *)
NoLeak ==
  \A k \in Keys :
    (\A t \in 1..(next - 1) : key[t] = k => phase[t] = "released" \/ t \in cleaned)
      => tails[k] = 0

=============================================================================
