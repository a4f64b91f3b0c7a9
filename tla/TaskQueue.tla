----------------------------- MODULE TaskQueue -----------------------------
(***************************************************************************)
(* The task queue (taskQueue.ts) and the outcomes that its storage         *)
(* processor (StorageTaskProcessor.ts) can have.                           *)
(*                                                                         *)
(* A task waits in queue, runs as a race of its processor with a timeout,  *)
(* or waits for its next attempt in a retry timer.  Every method is        *)
(* synchronous, stop apart, which polls until nothing runs.  Callbacks do  *)
(* not call the queue.                                                     *)
(*                                                                         *)
(* told counts the calls of a task's callback; lost and forced record what *)
(* the calls of stop, clear and cleanup gave up.                           *)
(***************************************************************************)
EXTENDS Integers, FiniteSets, SequencesExt

CONSTANTS
  Tasks,
  Attributes,     \* [Tasks -> [priority, maxRetries, kind]]
  MaxConcurrent,  \* maxConcurrentTasks
  MaxClock,       \* bound on the times of creation
  MaxStops        \* bound on the calls of stop, clear and cleanup

Kinds == {"valid", "malformed", "foreign"}

ASSUME QueueAssumption ==
  /\ MaxConcurrent \in Nat \ {0} /\ MaxClock \in Nat /\ MaxStops \in Nat
  /\ Attributes \in [Tasks -> [priority: 0..3, maxRetries: Nat, kind: Kinds]]

VARIABLES
  isRunning,
  queue,
  status,       \* [Tasks -> Statuses]
  retries,      \* retryCount
  created,      \* createdAt
  runningTasks,
  racing,       \* tasks whose race is not settled
  left,         \* processors that outlived the timeout of their task
  retryTimers,  \* tasks that wait for a retry timer
  stopper,      \* a call of stop that polls
  processor,    \* whether the processor is registered
  clock,
  told, wiped,  \* callbacks made, and taken away by cleanup
  lost, forced, stops

places == <<queue, runningTasks, racing, retryTimers>>
ghosts == <<lost, forced, stops>>
vars == <<isRunning, places, status, retries, created, left, stopper, processor, clock,
          told, wiped, ghosts>>

Statuses == {"none", "pending", "running", "completed", "failed", "cancelled"}
Ended(s) == s \in {"completed", "failed", "cancelled"}

Supports(t) == processor /\ Attributes[t].kind # "foreign"

-----------------------------------------------------------------------------
(* enqueue, processNext and completeTask                                   *)

Before(s, t, times) ==
  \/ Attributes[s].priority > Attributes[t].priority
  \/ Attributes[s].priority = Attributes[t].priority /\ times[s] < times[t]

\* Before the first task that is less urgent.
Enqueued(q, t, times) ==
  LET later == {i \in 1..Len(q) : Before(t, q[i], times)}
  IN IF later = {} THEN Append(q, t)
     ELSE InsertAt(q, CHOOSE i \in later : \A j \in later : i <= j, t)

\* Tasks are taken while the queue runs and there is room.
MayStart(run, q) == isRunning' /\ Cardinality(run) < MaxConcurrent /\ q # <<>>

\* What one call of processNext takes: the tasks without a processor at the
\* head, which fail at once, each with a call of processNext after it, and
\* the first task that has one.
Taken(run, q) ==
  IF ~MayStart(run, q) THEN 0
  ELSE LET has == {i \in 1..Len(q) : Supports(q[i])}
       IN IF has = {} THEN Len(q) ELSE CHOOSE i \in has : \A j \in has : i <= j

\* A callback is called once, if it is still there.
Called(ts) == [t \in Tasks |-> IF t \in ts \ wiped THEN told[t] + 1 ELSE told[t]]

\* Mutant: a task that fails for want of a processor tells nobody.
ProcessNext_Silent(run, race, q, st, ends) ==
  LET taken == {q[i] : i \in 1..Taken(run, q)}
      starts == {t \in taken : Supports(t)}
  IN /\ queue' = SubSeq(q, Taken(run, q) + 1, Len(q))
     /\ runningTasks' = run \cup starts
     /\ racing' = race \cup starts
     /\ status' = [t \in Tasks |-> IF t \in starts THEN "running"
                                   ELSE IF t \in taken THEN "failed" ELSE st[t]]
     /\ told' = Called(ends)

\* processNext on the given places, after the callbacks of ends.
ProcessNext(run, race, q, st, ends) ==
  LET taken == {q[i] : i \in 1..Taken(run, q)}
      starts == {t \in taken : Supports(t)}
  IN /\ queue' = SubSeq(q, Taken(run, q) + 1, Len(q))
     /\ runningTasks' = run \cup starts
     /\ racing' = race \cup starts
     /\ status' = [t \in Tasks |-> IF t \in starts THEN "running"
                                   ELSE IF t \in taken THEN "failed" ELSE st[t]]
     /\ told' = Called(ends \cup (taken \ starts))

AddTask(t) ==
  /\ status[t] = "none"
  /\ clock' \in {clock, clock + 1} /\ clock' <= MaxClock
  /\ created' = [created EXCEPT ![t] = clock']
  /\ UNCHANGED isRunning
  /\ ProcessNext(runningTasks, racing, Enqueued(queue, t, created'),
                 [status EXCEPT ![t] = "pending"], {})
  /\ UNCHANGED <<retries, left, retryTimers, stopper, processor, wiped, ghosts>>

-----------------------------------------------------------------------------
(* The end of a race                                                       *)

Completes(t, s) ==
  /\ UNCHANGED isRunning
  /\ ProcessNext(runningTasks \ {t}, racing \ {t}, queue, [status EXCEPT ![t] = s], {t})
  /\ UNCHANGED <<retries, retryTimers>>

\* The storage operation was called and worked; malformed payloads throw.
Succeeds(t) ==
  /\ t \in racing /\ Attributes[t].kind = "valid"
  /\ Completes(t, "completed")
  /\ UNCHANGED <<created, left, stopper, processor, clock, wiped, ghosts>>

\* Mutant: a task that waits for its retry keeps its slot.
Rejected_HoldingSlot(t) ==
  IF retries[t] < Attributes[t].maxRetries /\ isRunning
  THEN /\ retries' = [retries EXCEPT ![t] = @ + 1]
       /\ retryTimers' = retryTimers \cup {t}
       /\ UNCHANGED isRunning
       /\ ProcessNext(runningTasks, racing \ {t}, queue, [status EXCEPT ![t] = "pending"], {})
  ELSE Completes(t, "failed")

\* Mutant: a task that waits for its retry lets nobody else run.
Rejected_NotNext(t) ==
  IF retries[t] < Attributes[t].maxRetries /\ isRunning
  THEN /\ retries' = [retries EXCEPT ![t] = @ + 1]
       /\ retryTimers' = retryTimers \cup {t}
       /\ runningTasks' = runningTasks \ {t} /\ racing' = racing \ {t}
       /\ status' = [status EXCEPT ![t] = "pending"]
       /\ UNCHANGED <<isRunning, queue, told>>
  ELSE /\ runningTasks' = runningTasks \ {t} /\ racing' = racing \ {t}
       /\ status' = [status EXCEPT ![t] = "failed"]
       /\ told' = Called({t})
       /\ UNCHANGED <<isRunning, queue, retries, retryTimers>>

\* The catch of the race: a retry without a slot, or the end.
Rejected(t) ==
  IF retries[t] < Attributes[t].maxRetries /\ isRunning
  THEN /\ retries' = [retries EXCEPT ![t] = @ + 1]
       /\ retryTimers' = retryTimers \cup {t}
       /\ UNCHANGED isRunning
       /\ ProcessNext(runningTasks \ {t}, racing \ {t}, queue,
                      [status EXCEPT ![t] = "pending"], {})
  ELSE Completes(t, "failed")

\* The operation, or the validation of its payload, threw.
Fails(t) ==
  /\ t \in racing
  /\ Rejected(t)
  /\ UNCHANGED <<created, left, stopper, processor, clock, wiped, ghosts>>

\* The processor is not stopped by the timeout.
TimesOut(t) ==
  /\ t \in racing
  /\ Rejected(t)
  /\ left' = left \cup {<<t, retries[t]>>}
  /\ UNCHANGED <<created, stopper, processor, clock, wiped, ghosts>>

\* Its late answer is ignored.
LeftEnds(l) ==
  /\ left' = left \ {l}
  /\ UNCHANGED <<isRunning, places, status, retries, created, stopper, processor, clock,
                 told, wiped, ghosts>>

\* A retry timer fires; stop clears the timers, so the queue runs.
Retries(t) ==
  /\ t \in retryTimers
  /\ retryTimers' = retryTimers \ {t}
  /\ UNCHANGED isRunning
  /\ ProcessNext(runningTasks, racing, Enqueued(queue, t, created), status, {})
  /\ UNCHANGED <<retries, created, left, stopper, processor, clock, wiped, ghosts>>

-----------------------------------------------------------------------------
(* start, stop, cleanup, cancelTask and clear                              *)

AddProcessor ==
  /\ ~processor /\ processor' = TRUE
  /\ UNCHANGED <<isRunning, places, status, retries, created, left, stopper, clock,
                 told, wiped, ghosts>>

Start ==
  /\ ~isRunning /\ isRunning' = TRUE
  /\ ProcessNext(runningTasks, racing, queue, status, {})
  /\ UNCHANGED <<retryTimers, retries, created, left, stopper, processor, clock, wiped, ghosts>>

\* The first lines of stop: the tasks in the timers are given up.
Halt ==
  /\ stops < MaxStops /\ stops' = stops + 1
  /\ isRunning' = FALSE
  /\ retryTimers' = {}
  /\ lost' = lost \cup retryTimers

ForgetRunning ==
  /\ runningTasks' = {}
  /\ forced' = (forced \/ racing # {})

Stop ==
  /\ stopper = "none" /\ stopper' = "polls"
  /\ Halt
  /\ UNCHANGED <<queue, runningTasks, racing, status, retries, created, left, processor, clock,
                 told, wiped, forced>>

StopReturns ==
  /\ stopper = "polls" /\ runningTasks = {}
  /\ stopper' = "none"
  /\ UNCHANGED <<isRunning, places, status, retries, created, left, processor, clock,
                 told, wiped, ghosts>>

\* Also when the queue was started again in the meantime.
StopTimesOut ==
  /\ stopper = "polls" /\ runningTasks # {}
  /\ stopper' = "none"
  /\ ForgetRunning
  /\ UNCHANGED <<isRunning, queue, racing, retryTimers, status, retries, created, left,
                 processor, clock, told, wiped, lost, stops>>

StopForced ==
  /\ Halt
  /\ ForgetRunning
  /\ UNCHANGED <<queue, racing, status, retries, created, left, stopper, processor, clock,
                 told, wiped>>

\* cleanup: what waits is dropped, and no callback is left.
Cleanup ==
  /\ stops < MaxStops /\ stops' = stops + 1
  /\ isRunning' = FALSE
  /\ retryTimers' = {} /\ queue' = <<>>
  /\ lost' = lost \cup retryTimers \cup ToSet(queue)
  /\ ForgetRunning
  /\ wiped' = {t \in Tasks : status[t] # "none" /\ told[t] = 0} \cup wiped
  /\ UNCHANGED <<racing, status, retries, created, left, stopper, processor, clock, told>>

\* Mutant: the task stays in the queue.
CancelTask_Leaving(t) ==
  /\ t \in ToSet(queue)
  /\ status' = [status EXCEPT ![t] = "cancelled"]
  /\ told' = Called({t})
  /\ UNCHANGED <<isRunning, places, retries, created, left, stopper,
                 processor, clock, wiped, ghosts>>

\* Only a task that waits in the queue can be cancelled.
CancelTask(t) ==
  /\ \E i \in 1..Len(queue) :
        queue[i] = t /\ (\A j \in 1..i - 1 : queue[j] # t) /\ queue' = RemoveAt(queue, i)
  /\ status' = [status EXCEPT ![t] = "cancelled"]
  /\ told' = Called({t})
  /\ UNCHANGED <<isRunning, runningTasks, racing, retryTimers, retries, created, left, stopper,
                 processor, clock, wiped, ghosts>>

\* clear cancels what waits in the queue; what waits in a timer is given up.
Clear ==
  /\ stops < MaxStops /\ stops' = stops + 1
  /\ queue' = <<>> /\ retryTimers' = {}
  /\ status' = [t \in Tasks |-> IF t \in ToSet(queue) THEN "cancelled" ELSE status[t]]
  /\ told' = Called(ToSet(queue))
  /\ lost' = lost \cup retryTimers
  /\ UNCHANGED <<isRunning, runningTasks, racing, retries, created, left, stopper,
                 processor, clock, wiped, forced>>

-----------------------------------------------------------------------------
Init ==
  /\ isRunning = FALSE /\ processor = FALSE /\ stopper = "none"
  /\ queue = <<>> /\ runningTasks = {} /\ racing = {} /\ left = {} /\ retryTimers = {}
  /\ status = [t \in Tasks |-> "none"]
  /\ retries = [t \in Tasks |-> 0] /\ created = [t \in Tasks |-> 0] /\ clock = 0
  /\ told = [t \in Tasks |-> 0] /\ wiped = {}
  /\ lost = {} /\ forced = FALSE /\ stops = 0

Settles(t) == Succeeds(t) \/ Fails(t) \/ TimesOut(t)

Next ==
  \/ \E t \in Tasks : AddTask(t) \/ Settles(t) \/ Retries(t) \/ CancelTask(t)
  \/ \E l \in left : LeftEnds(l)
  \/ AddProcessor \/ Start \/ Stop \/ StopReturns \/ StopTimesOut \/ StopForced
  \/ Cleanup \/ Clear

\* Timeouts settle every race, timers fire and polls end.
Fairness ==
  /\ \A t \in Tasks : WF_vars(Settles(t)) /\ WF_vars(Retries(t))
  /\ WF_vars(StopReturns \/ StopTimesOut)

Spec == Init /\ [][Next]_vars /\ Fairness

-----------------------------------------------------------------------------
(* Properties                                                              *)

\* The shape of every variable; no task is in the queue twice.
TypeOK ==
  /\ isRunning \in BOOLEAN /\ processor \in BOOLEAN /\ forced \in BOOLEAN
  /\ stopper \in {"none", "polls"}
  /\ queue \in Seq(Tasks) /\ IsInjective(queue)
  /\ runningTasks \subseteq Tasks /\ racing \subseteq Tasks /\ retryTimers \subseteq Tasks
  /\ wiped \subseteq Tasks /\ lost \subseteq Tasks
  /\ status \in [Tasks -> Statuses]
  /\ retries \in [Tasks -> Nat] /\ \A t \in Tasks : retries[t] <= Attributes[t].maxRetries
  /\ created \in [Tasks -> 0..MaxClock] /\ clock \in 0..MaxClock
  /\ left \subseteq Tasks \X Nat
  /\ told \in [Tasks -> Nat] /\ stops \in 0..MaxStops

\* A task that has not ended is in one place only, through every retry,
\* timeout and restart, unless a call of stop, clear or cleanup dropped it.
InOnePlace ==
  \A t \in Tasks :
     LET where == {p \in {"queue", "race", "timer"} :
                     \/ p = "queue" /\ t \in ToSet(queue)
                     \/ p = "race" /\ t \in racing
                     \/ p = "timer" /\ t \in retryTimers}
     IN Cardinality(where) = IF status[t] \in {"pending", "running"} /\ t \notin lost THEN 1 ELSE 0

\* A task that ended told its caller, exactly once, unless cleanup took the
\* callback away.
ToldOnce ==
  \A t \in Tasks : told[t] = IF Ended(status[t]) /\ t \notin wiped THEN 1 ELSE 0

\* The slots are the unsettled races, and there are enough, until somebody
\* forces a stop: a task that waits for its retry holds none.
SlotsAreRaces ==
  /\ Cardinality(runningTasks) <= MaxConcurrent
  /\ ~forced => runningTasks = racing

\* While the queue runs, every task that it holds ends.
EveryTaskEnds ==
  \A t \in Tasks :
     status[t] \in {"pending", "running"} ~> (Ended(status[t]) \/ t \in lost \/ ~isRunning)

\* What the comment on the class promises: at most MaxConcurrent processors
\* work at a time.
ProcessorsBounded == forced \/ Cardinality(racing) + Cardinality(left) <= MaxConcurrent

\* A task is in one place, its caller hears of its end once, and the slots
\* are the unsettled races.
Consistent == TypeOK /\ InOnePlace /\ ToldOnce /\ SlotsAreRaces
=============================================================================
