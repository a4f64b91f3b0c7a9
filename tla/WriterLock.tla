------------------------------ MODULE WriterLock ------------------------------
(***************************************************************************)
(* The table lock of core/data/DataWriter.ts (acquireLock): the FIFO lock  *)
(* of FifoLock, shared by every writer of the process, followed by an      *)
(* operation slot of the writer the call was made on.  A call that has the *)
(* table but no slot queues behind the slots of its writer, without a      *)
(* timeout and with the table lock held.                                   *)
(***************************************************************************)
EXTENDS FifoLock, Sequences, FiniteSets

CONSTANTS
  Writers,        \* DataWriter instances
  MaxConcurrent   \* maxConcurrentOperations of each of them

ASSUME WriterLockAssumption == Writers # {} /\ MaxConcurrent \in Nat \ {0}

VARIABLES
  writer,   \* the instance a ticket's call was made on
  active,   \* activeOperations of each instance
  queue,    \* operationQueue of each instance
  working   \* tickets whose acquireLock has returned

slotVars == <<writer, active, queue, working>>
vars == <<lockVars, slotVars>>

SlotTypeOK ==
  /\ TypeOK
  /\ writer \in [Tickets -> Writers]
  /\ active \in [Writers -> 0..MaxConcurrent]
  /\ queue \in [Writers -> Seq(Tickets)]
  /\ working \in SUBSET Tickets

SlotInit ==
  /\ Init
  /\ writer = [t \in Tickets |-> CHOOSE w \in Writers : TRUE]
  /\ active = [w \in Writers |-> 0]
  /\ queue = [w \in Writers |-> <<>>]
  /\ working = {}

Call(w, k) ==
  /\ Arrive(k)
  /\ writer' = [writer EXCEPT ![next] = w]
  /\ UNCHANGED <<active, queue, working>>

HasFreeSlot(w) == active[w] < MaxConcurrent /\ queue[w] = <<>>

(* The table is ours: acquireOperationSlot takes a slot or queues.         *)
EnterAndAskForSlot(t) ==
  /\ Enter(t)
  /\ LET w == writer[t] IN
       IF HasFreeSlot(w)
       THEN /\ active' = [active EXCEPT ![w] = @ + 1]
            /\ working' = working \cup {t}
            /\ UNCHANGED queue
       ELSE /\ queue' = [queue EXCEPT ![w] = Append(@, t)]
            /\ UNCHANGED <<active, working>>
  /\ UNCHANGED writer

GiveUp(t) == Timeout(t) /\ UNCHANGED slotVars

(* Mutants of PassSlotOn: wakes nobody; wakes one without counting it.     *)
PassSlotOn_Lost(w) ==
  /\ active' = [active EXCEPT ![w] = IF @ > 0 THEN @ - 1 ELSE 0]
  /\ UNCHANGED <<queue, working>>

PassSlotOn_Uncounted(w) ==
  /\ active' = [active EXCEPT ![w] = IF @ > 0 THEN @ - 1 ELSE 0]
  /\ IF queue[w] # <<>>
     THEN /\ queue' = [queue EXCEPT ![w] = Tail(@)]
          /\ working' = working \cup {Head(queue[w])}
     ELSE UNCHANGED <<queue, working>>

(* releaseOperationSlot: the freed slot goes to the head of the queue.     *)
PassSlotOn(w) ==
  LET freed == IF active[w] > 0 THEN active[w] - 1 ELSE 0 IN
  IF queue[w] # <<>> /\ freed < MaxConcurrent
  THEN /\ active' = [active EXCEPT ![w] = freed + 1]
       /\ queue' = [queue EXCEPT ![w] = Tail(@)]
       /\ working' = working \cup {Head(queue[w])}
  ELSE /\ active' = [active EXCEPT ![w] = freed]
       /\ UNCHANGED <<queue, working>>

(* The operation ends: lock and slot are released in one turn.             *)
Finish(t) ==
  /\ t \in working
  /\ Release(t)
  /\ PassSlotOn(writer[t])
  /\ UNCHANGED writer

Settle(t) == (SettleTail(t) \/ CleanTimedOut(t)) /\ UNCHANGED slotVars

SlotNext ==
  \/ \E w \in Writers, k \in Keys : Call(w, k)
  \/ \E t \in Tickets : EnterAndAskForSlot(t) \/ GiveUp(t) \/ Finish(t) \/ Settle(t)

SlotFairness ==
  \A t \in Tickets :
    /\ WF_vars(EnterAndAskForSlot(t) \/ GiveUp(t)) /\ WF_vars(Finish(t))
    /\ WF_vars(SettleTail(t) /\ UNCHANGED slotVars)
    /\ WF_vars(CleanTimedOut(t) /\ UNCHANGED slotVars)

SlotSpec == SlotInit /\ [][SlotNext]_vars
SlotFairSpec == SlotSpec /\ SlotFairness

-----------------------------------------------------------------------------
Running(w) == {t \in working : phase[t] = "holding" /\ writer[t] = w}

(* The slot counter is exact: it is the number of operations that run, so  *)
(* never more than maxConcurrentOperations of an instance run at once.     *)
SlotsExact ==
  \A w \in Writers : active[w] = Cardinality(Running(w)) /\ active[w] <= MaxConcurrent

(* No slot is lost: an operation queues only while every slot is taken,    *)
(* and the queue holds exactly the calls that own a table without a slot.  *)
NoLostSlot ==
  \A w \in Writers :
    /\ queue[w] # <<>> => active[w] = MaxConcurrent
    /\ {queue[w][i] : i \in DOMAIN queue[w]} =
         {t \in Tickets : phase[t] = "holding" /\ writer[t] = w /\ t \notin working}

(* Behind the slots the table lock is still the FIFO lock.                 *)
ImplementsFifoLock == Spec

(* Every call runs and ends, or times out: holding a table while waiting   *)
(* for a slot cannot block everybody.                                      *)
EveryCallEnds == \A t \in Tickets : phase[t] = "waiting" ~> Gone(t)

(* The slots of a writer: every call that runs is counted, nobody waits  *)
(* for a slot while one is free, and a key whose calls are over has no   *)
(* entry in the static map (acquireOperationSlot, releaseOperationSlot). *)
Consistent == SlotTypeOK /\ NoLeak /\ SlotsExact /\ NoLostSlot
=============================================================================
