---------------------------- MODULE MetadataFile ----------------------------
(***************************************************************************)
(* The metadata snapshot and the managers that share it                    *)
(* (core/meta/MetadataManager.ts): every manager keeps the tables in       *)
(* memory with the mutations it has not yet saved; a flush takes the path  *)
(* lock, rereads the snapshot, merges its mutations and publishes the      *)
(* result through a temporary file and a backup.                           *)
(*                                                                         *)
(* A call of a client goes from one await to the next in a step, so the    *)
(* calls of a manager interleave as promises let them; each filesystem     *)
(* call is a step that may fail and the process may be killed between any  *)
(* two.  The path lock is a variable: FifoLock models its queue, and a     *)
(* wait for it may run into its deadline (a fault here).  Time is a        *)
(* counter: no two creations of a table have the same createdAt.           *)
(***************************************************************************)
EXTENDS Naturals, Sequences, SequencesExt, FiniteSets

CONSTANTS
  Tables,
  Calls,        \* the calls that clients make, each of them once
  Timers,       \* the calls that the debounce timers make, at most one per manager
  Managers,
  ManagerOf,    \* [Calls \cup Timers -> Managers]
  Does,         \* [Calls -> SUBSET {"mutate", "latest", "reload"}]
  None, Absent, Torn,
  Overtaking,   \* TRUE: two saves may pass the test for a running one together
  MaxClock,     \* bound on the mutations of a behaviour
  MaxFaults,    \* bound on failing filesystem calls and lock deadlines
  MaxCrashes    \* bound on process kills

VARIABLES
  file,     \* primary, backup and the two temporary files
  holder,   \* the call that has the path lock
  epoch,    \* mutation epoch of the path
  mgr,      \* the managers; late: unsaved mutations of it are durable already (history)
  call,     \* the calls
  clock, faults, crashes

vars == <<file, holder, epoch, mgr, call, clock, faults, crashes>>
bounds == <<clock, faults, crashes>>

Everyone == Calls \cup Timers
Record == [created: 1..MaxClock, val: 1..MaxClock]
Snapshot == [Tables -> Record \cup {None}]
NoTables == [t \in Tables |-> None]
Mutation ==
  [type: {"update", "upsert"}, table: Tables, created: 0..MaxClock, val: 1..MaxClock]
  \cup [type: {"delete"}, table: Tables, created: 0..MaxClock, val: {0}]

(* A manager is reloaded by one call only, and that call once: the         *)
(* initialisation of the adapter that it belongs to.                       *)
ASSUME CallAssumption ==
  /\ ManagerOf \in [Calls \cup Timers -> Managers] /\ Calls \cap Timers = {}
  /\ \A t, u \in Timers : ManagerOf[t] = ManagerOf[u] => t = u
  /\ Does \in [Calls -> SUBSET {"mutate", "latest", "reload"}]
  /\ \A c, d \in Calls : "reload" \in Does[c] \cap Does[d] /\ ManagerOf[c] = ManagerOf[d] => c = d
  /\ None \notin Everyone \cup Record /\ Absent # Torn /\ {Absent, Torn} \cap Snapshot = {}
  /\ Overtaking \in BOOLEAN
  /\ MaxClock \in Nat \ {0} /\ MaxFaults \in Nat /\ MaxCrashes \in Nat

-----------------------------------------------------------------------------
(* Mutations                                                               *)

ApplyOne(s, mu) ==
  CASE mu.type = "delete" ->
         IF s[mu.table] # None /\ s[mu.table].created = mu.created
         THEN [s EXCEPT ![mu.table] = None] ELSE s
    [] mu.type = "update" ->
         IF s[mu.table] # None /\ s[mu.table].created = mu.created
         THEN [s EXCEPT ![mu.table].val = mu.val] ELSE s
    [] mu.type = "upsert" ->
         IF s[mu.table] # None THEN s
         ELSE [s EXCEPT ![mu.table] = [created |-> mu.val, val |-> mu.val]]

(* applyTableMutations                                                     *)
Apply(s, mutations) ==
  LET after[n \in 0..Len(mutations)] ==
        IF n = 0 THEN s ELSE ApplyOne(after[n - 1], mutations[n])
  IN after[Len(mutations)]

-----------------------------------------------------------------------------
(* Steps of a call                                                         *)

NewCall == [pc |-> "ready", kind |-> "none", muts |-> <<>>, snap |-> NoTables,
            on |-> None, then |-> "done", epoch |-> 0]

(* A call that is over, or back at a label where it keeps nothing.         *)
Fresh(label) == [NewCall EXCEPT !.pc = label]

Me(c) == mgr[ManagerOf[c]]
At(c, label) == call[c].pc = label
Goto(c, label) == call' = [call EXCEPT ![c].pc = label]
End(c, label) == call' = [call EXCEPT ![c] = Fresh(label)]

Fault == faults < MaxFaults /\ faults' = faults + 1
NoFault == UNCHANGED faults

(* One filesystem call: f, or an error and one of the states in partial.   *)
FileCall(c, f, partial, next, onError) ==
  \/ file' = f /\ Goto(c, next) /\ NoFault
  \/ Fault /\ file' \in {file} \cup partial /\ Goto(c, onError)

-----------------------------------------------------------------------------
(* Mutant of Save: a running save is taken for one's own.                  *)
Save_NotWaiting(c) ==
  /\ At(c, "save")
  /\ IF Me(c).save # None THEN End(c, "done") ELSE Goto(c, "awaitLoad")
  /\ UNCHANGED <<file, holder, epoch, mgr, bounds>>

(* save: one flush at a time, unless two calls pass the test before the    *)
(* first of them has begun to flush.                                       *)
Save(c) ==
  /\ At(c, "save")
  /\ IF Me(c).save # None
     THEN call' = [call EXCEPT ![c].pc = "waitSave", ![c].on = Me(c).save]
     ELSE /\ Overtaking \/ \A d \in Everyone : ManagerOf[d] = ManagerOf[c] => ~At(d, "awaitLoad")
          /\ Goto(c, "awaitLoad")
  /\ UNCHANGED <<file, holder, epoch, mgr, bounds>>

(* The load that is under way or over is awaited.                          *)
SaveAfterLoad(c) ==
  /\ At(c, "awaitLoad") /\ Me(c).load # "running"
  /\ CASE Me(c).load = "failed" -> End(c, "failed") /\ UNCHANGED mgr
       [] Me(c).load # "failed" /\ ~Me(c).dirty ->
              /\ call' = [call EXCEPT ![c] = [Fresh(call[c].then) EXCEPT !.then = call[c].then]]
              /\ UNCHANGED mgr
       [] OTHER -> Goto(c, "take") /\ mgr' = [mgr EXCEPT ![ManagerOf[c]].save = c]
  /\ UNCHANGED <<file, holder, epoch, bounds>>

(* flushDirtyState: the pending mutations become those of this flush.      *)
Take(c) ==
  /\ At(c, "take")
  /\ LET m == ManagerOf[c]
     IN  IF mgr[m].dirty
         THEN /\ mgr' = [mgr EXCEPT ![m].pending = <<>>, ![m].dirty = FALSE]
              /\ call' = [call EXCEPT ![c].muts = mgr[m].pending, ![c].kind = "flush",
                            ![c].pc = IF mgr[m].pending = <<>> THEN "flushed" ELSE "lock"]
         ELSE Goto(c, "flushed") /\ UNCHANGED mgr
  /\ UNCHANGED <<file, holder, epoch, bounds>>

(* withMetadataPathLock, or its deadline.                                  *)
Lock(c) ==
  /\ At(c, "lock")
  /\ \/ holder = None /\ holder' = c /\ Goto(c, "read") /\ NoFault
     \/ holder # None /\ Fault /\ Goto(c, "error") /\ UNCHANGED holder
  /\ UNCHANGED <<file, epoch, mgr, clock, crashes>>

-----------------------------------------------------------------------------
(* readLatestSnapshot                                                      *)

AfterRead(c) ==
  CASE call[c].kind = "flush" -> "wTmp" [] call[c].kind = "load" -> "discard"
    [] OTHER -> "refreshed"

(* The primary if it is there, damaged or not; else the backup.            *)
Read(c) ==
  /\ At(c, "read")
  /\ \/ /\ CASE file.main \in Snapshot ->
                  call' = [call EXCEPT ![c].snap = file.main,
                                       ![c].pc = AfterRead(c)]
             [] file.main = Torn -> Goto(c, "error")
             [] file.main = Absent /\ file.bak \in Snapshot ->
                  call' = [call EXCEPT ![c].snap = file.bak,
                                       ![c].pc = "restore"]
             [] file.main = Absent /\ file.bak = Absent ->
                  call' = [call EXCEPT ![c].snap = NoTables,
                             ![c].pc = IF call[c].kind = "load" THEN "wTmp" ELSE AfterRead(c)]
        /\ NoFault
     \/ Fault /\ Goto(c, "error")
  /\ UNCHANGED <<file, holder, epoch, mgr, clock, crashes>>

(* restoreBackupSnapshot writes the primary in place.                      *)
RestoreBackup(c) ==
  /\ \/ /\ At(c, "restore")
        /\ FileCall(c, [file EXCEPT !.main = call[c].snap], {[file EXCEPT !.main = Torn]},
                    "restored", "error")
     \/ /\ At(c, "restored")
        /\ FileCall(c, [file EXCEPT !.bak = Absent], {},
                    IF call[c].kind = "load" THEN "loadRead" ELSE AfterRead(c), "error")
  /\ UNCHANGED <<holder, epoch, mgr, clock, crashes>>

-----------------------------------------------------------------------------
(* Mutant of Merged: the manager's memory is taken for the latest snapshot. *)
Merged_FromMemory(c) ==
  IF call[c].kind = "flush" THEN Apply(Me(c).cache, call[c].muts) ELSE call[c].snap

(* What a flush publishes; the empty snapshot of a fresh root by a load.   *)
Merged(c) == Apply(call[c].snap, call[c].muts)

(* Mutant of Persist: the primary goes before its backup is in place.      *)
Persist_DeleteFirst(c) ==
  /\ CASE At(c, "wTmp") -> FileCall(c, [file EXCEPT !.tmp = Merged(c)],
                                    {[file EXCEPT !.tmp = Torn]},
                                    IF file.main = Absent THEN "mTmp" ELSE "dMain", "cleanup")
       [] At(c, "dMain") -> FileCall(c, [file EXCEPT !.main = Absent], {}, "mTmp", "cleanup")
       [] OTHER -> FALSE
  /\ UNCHANGED <<holder, epoch, mgr, clock, crashes>>

(* persistSnapshot before the move that publishes.                         *)
Persist(c) ==
  /\ \/ /\ At(c, "wTmp")
        /\ FileCall(c, [file EXCEPT !.tmp = Merged(c)], {[file EXCEPT !.tmp = Torn]},
                    IF file.main = Absent THEN "mTmp" ELSE "wBakTmp", "cleanup")
     \/ /\ At(c, "wBakTmp")
        /\ FileCall(c, [file EXCEPT !.btmp = file.main], {[file EXCEPT !.btmp = Torn]},
                    "dBak", "cleanup")
     \/ At(c, "dBak") /\ FileCall(c, [file EXCEPT !.bak = Absent], {}, "mBak", "cleanup")
     \/ /\ At(c, "mBak")
        /\ FileCall(c, [file EXCEPT !.bak = file.btmp, !.btmp = Absent], {}, "dMain", "cleanup")
     \/ At(c, "dMain") /\ FileCall(c, [file EXCEPT !.main = Absent], {}, "mTmp", "cleanup")
  /\ UNCHANGED <<holder, epoch, mgr, clock, crashes>>

(* The move of persistSnapshot.                                            *)
Move(c) ==
  /\ At(c, "mTmp")
  /\ FileCall(c, [file EXCEPT !.main = file.tmp, !.tmp = Absent], {}, "dStale", "cleanup")
  /\ mgr' = [mgr EXCEPT ![ManagerOf[c]].late = @ \/ (file' # file /\ call[c].kind = "flush")]
  /\ UNCHANGED <<holder, epoch, clock, crashes>>

(* Both temporary files are deleted, whether or not that works.            *)
Cleanup(c) ==
  /\ At(c, "cleanup")
  /\ \/ file' = [file EXCEPT !.tmp = Absent, !.btmp = Absent] /\ NoFault
     \/ Fault /\ file' \in {file, [file EXCEPT !.tmp = Absent], [file EXCEPT !.btmp = Absent]}
  /\ Goto(c, "error")
  /\ UNCHANGED <<holder, epoch, mgr, clock, crashes>>

-----------------------------------------------------------------------------
(* How a flush, a load and a refresh end                                   *)

(* The stale backup is gone: the epoch advances and the lock is released.  *)
DropStale(c) ==
  /\ At(c, "dStale")
  /\ \/ /\ file' = [file EXCEPT !.bak = Absent] /\ NoFault
        /\ epoch' = epoch + 1 /\ holder' = None
        /\ call' = [call EXCEPT ![c].epoch = epoch + 1,
                       ![c].muts = <<>>, ![c].snap = Merged(c),
                       ![c].pc = IF call[c].kind = "flush" THEN "publish" ELSE "loaded"]
        /\ mgr' = [mgr EXCEPT ![ManagerOf[c]].late = @ /\ call[c].kind # "flush"]
     \/ Fault /\ Goto(c, "cleanup") /\ UNCHANGED <<file, holder, epoch, mgr>>
  /\ UNCHANGED <<clock, crashes>>

(* Mutant of Publish: what was changed meanwhile is overwritten in memory. *)
Publish_Overwriting(c) ==
  /\ At(c, "publish")
  /\ mgr' = [mgr EXCEPT ![ManagerOf[c]].cache = call[c].snap,
                        ![ManagerOf[c]].observed = call[c].epoch]
  /\ Goto(c, "take")
  /\ UNCHANGED <<file, holder, epoch, bounds>>

(* The next round of the loop, if there is one, awaits the path again.     *)
Publish(c) ==
  /\ At(c, "publish")
  /\ LET m == ManagerOf[c]
     IN  mgr' = [mgr EXCEPT ![m].cache = Apply(call[c].snap, mgr[m].pending),
                            ![m].observed = call[c].epoch]
  /\ Goto(c, "take")
  /\ UNCHANGED <<file, holder, epoch, bounds>>

(* The flush is over, and with it the waiting of others for it.            *)
Settle(c, ok) ==
  /\ holder' = IF holder = c THEN None ELSE holder
  /\ mgr' = [mgr EXCEPT ![ManagerOf[c]].save = IF @ = c THEN None ELSE @,
               ![ManagerOf[c]].pending = IF ok THEN @ ELSE call[c].muts \o @,
               ![ManagerOf[c]].dirty = @ \/ ~ok]
  /\ call' = [d \in Everyone |->
       IF d = c THEN [Fresh(CASE ~ok -> "failed" [] ok /\ Me(c).dirty -> "save"
                              [] OTHER -> call[c].then) EXCEPT !.then = call[c].then]
       ELSE IF call[d].on = c
       THEN [call[d] EXCEPT !.on = None,
               !.pc = CASE ~ok -> IF call[d].kind = "load" THEN "error" ELSE "failed"
                        [] ok /\ call[d].pc = "waitSave" ->
                             IF Me(d).dirty THEN "save" ELSE call[d].then
                        [] ok /\ call[d].pc = "waitSave2" -> "latest"
                        [] OTHER -> "lock"]
       ELSE call[d]]
  /\ UNCHANGED <<file, epoch, bounds>>

Flushed(c) == At(c, "flushed") /\ Settle(c, TRUE)

(* Mutant of Requeue: the mutations of a failed flush are forgotten.       *)
Requeue_Dropping(c) == At(c, "error") /\ call[c].kind = "flush" /\ Settle(c, TRUE)

(* A failed flush puts its mutations back in front of the newer ones.      *)
Requeue(c) == At(c, "error") /\ call[c].kind = "flush" /\ Settle(c, FALSE)

-----------------------------------------------------------------------------
(* load, reload                                                            *)

(* An active save is awaited first.                                        *)
StartLoad(c) ==
  /\ At(c, "load")
  /\ mgr' = [mgr EXCEPT ![ManagerOf[c]].load = "running"]
  /\ call' = [call EXCEPT ![c].kind = "load", ![c].on = Me(c).save,
                          ![c].pc = IF Me(c).save = None THEN "lock" ELSE "waitLoadSave"]
  /\ UNCHANGED <<file, holder, epoch, bounds>>

(* readLatestSnapshot(_, true) drops a stale backup, then the lock goes.   *)
LoadRead(c) ==
  /\ \/ At(c, "discard") /\ FileCall(c, [file EXCEPT !.bak = Absent], {}, "loadRead", "error")
        /\ UNCHANGED <<holder, epoch>>
     \/ /\ At(c, "loadRead") /\ holder' = None
        /\ call' = [call EXCEPT ![c].epoch = epoch, ![c].pc = "loaded"]
        /\ UNCHANGED <<file, epoch, faults>>
  /\ UNCHANGED <<mgr, clock, crashes>>

Loaded(c) ==
  /\ At(c, "loaded")
  /\ LET m == ManagerOf[c]
     IN  mgr' = [mgr EXCEPT ![m].cache = Apply(call[c].snap, mgr[m].pending),
                            ![m].dirty = mgr[m].pending # <<>>,
                            ![m].observed = call[c].epoch, ![m].load = "ok"]
  /\ End(c, IF call[c].then = "load" THEN "done" ELSE call[c].then)
  /\ UNCHANGED <<file, holder, epoch, bounds>>

(* Mutant of LoadFailed: an error leaves the path lock held.               *)
LoadFailed_Holding(c) ==
  /\ At(c, "error") /\ call[c].kind # "flush"
  /\ mgr' = [mgr EXCEPT ![ManagerOf[c]].load = IF call[c].kind = "load" THEN "failed" ELSE @]
  /\ End(c, "failed")
  /\ UNCHANGED <<file, holder, epoch, bounds>>

(* The promise of a failed load is kept, and stays rejected.               *)
LoadFailed(c) ==
  /\ At(c, "error") /\ call[c].kind # "flush"
  /\ holder' = IF holder = c THEN None ELSE holder
  /\ mgr' = [mgr EXCEPT ![ManagerOf[c]].load = IF call[c].kind = "load" THEN "failed" ELSE @]
  /\ End(c, "failed")
  /\ UNCHANGED <<file, epoch, bounds>>

-----------------------------------------------------------------------------
(* getLatest                                                               *)

(* waitForLoad, an active save, and the snapshot unless it was seen.       *)
Latest(c) ==
  /\ At(c, "latest") /\ Me(c).load # "running"
  /\ CASE Me(c).load = "failed" -> End(c, "failed")
       [] Me(c).load # "failed" /\ Me(c).save # None ->
            call' = [call EXCEPT ![c].pc = "waitSave2", ![c].on = Me(c).save]
       [] Me(c).load # "failed" /\ Me(c).save = None ->
            IF Me(c).observed = epoch THEN End(c, "done")
            ELSE call' = [call EXCEPT ![c].kind = "refresh", ![c].pc = "lock"]
  /\ UNCHANGED <<file, holder, epoch, mgr, bounds>>

Refreshed(c) ==
  /\ At(c, "refreshed")
  /\ holder' = None
  /\ call' = [call EXCEPT ![c].epoch = epoch, ![c].kind = "none", ![c].pc = "refresh"]
  /\ UNCHANGED <<file, epoch, mgr, bounds>>

(* Nothing is taken over when a save began or the epoch moved meanwhile.   *)
Refresh(c) ==
  /\ At(c, "refresh")
  /\ LET m == ManagerOf[c]
     IN  CASE mgr[m].save # None ->
                call' = [call EXCEPT ![c].pc = "waitSave2", ![c].on = mgr[m].save] /\ UNCHANGED mgr
           [] mgr[m].save = None /\ call[c].epoch # epoch -> Goto(c, "latest") /\ UNCHANGED mgr
           [] OTHER -> /\ mgr' = [mgr EXCEPT ![m].cache = Apply(call[c].snap, mgr[m].pending),
                                             ![m].dirty = mgr[m].pending # <<>>,
                                             ![m].observed = call[c].epoch]
                       /\ End(c, "done")
  /\ UNCHANGED <<file, holder, epoch, bounds>>

-----------------------------------------------------------------------------
(* What clients do                                                         *)

Ready(c, what) == At(c, "ready") /\ c \in Calls /\ what \in Does[c] /\ Me(c).load = "ok"

(* The adapter loads the metadata before it serves its first call.         *)
StartUp(c) ==
  /\ At(c, "ready") /\ c \in Calls /\ Me(c).load = "none"
  /\ call' = [call EXCEPT ![c].pc = "load", ![c].then = "ready"]
  /\ mgr' = [mgr EXCEPT ![ManagerOf[c]].load = "running"]
  /\ UNCHANGED <<file, holder, epoch, bounds>>

(* update and delete change the memory, queue a mutation and arm the timer. *)
Mutate(c, t, drop) ==
  /\ Ready(c, "mutate") /\ clock < MaxClock /\ clock' = clock + 1
  /\ LET m == ManagerOf[c]
         old == mgr[m].cache[t]
         mu == [type |-> CASE drop -> "delete" [] ~drop /\ old = None -> "upsert" [] OTHER -> "update",
                table |-> t, val |-> IF drop THEN 0 ELSE clock + 1,
                created |-> IF old = None THEN 0 ELSE old.created]
     IN  mgr' = [mgr EXCEPT ![m].pending = Append(@, mu), ![m].dirty = TRUE, ![m].timer = TRUE,
                   ![m].cache[t] = IF drop THEN None
                                   ELSE [created |-> IF old = None THEN clock + 1 ELSE old.created,
                                         val |-> clock + 1]]
  /\ Goto(c, "mutated")
  /\ UNCHANGED <<file, holder, epoch, faults, crashes>>

(* saveImmediately stops the timer.                                        *)
SaveImmediately(c) ==
  /\ At(c, "mutated") /\ Goto(c, "save")
  /\ mgr' = [mgr EXCEPT ![ManagerOf[c]].timer = FALSE]
  /\ UNCHANGED <<file, holder, epoch, bounds>>

BeginLatest(c) ==
  /\ Ready(c, "latest") /\ Goto(c, "latest")
  /\ UNCHANGED <<file, holder, epoch, mgr, bounds>>

(* reload saves first; it is called before the manager is used again.      *)
BeginReload(c) ==
  /\ Ready(c, "reload")
  /\ call' = [call EXCEPT ![c].pc = "save", ![c].then = "load"]
  /\ mgr' = [mgr EXCEPT ![ManagerOf[c]].timer = FALSE]
  /\ UNCHANGED <<file, holder, epoch, bounds>>

TimerFires(c) ==
  /\ c \in Timers /\ call[c].pc \in {"ready", "done", "failed"} /\ Me(c).timer
  /\ mgr' = [mgr EXCEPT ![ManagerOf[c]].timer = FALSE]
  /\ call' = [call EXCEPT ![c] = Fresh("save")]
  /\ UNCHANGED <<file, holder, epoch, bounds>>

-----------------------------------------------------------------------------
(* The environment                                                         *)

NewManager == [cache |-> NoTables, pending |-> <<>>, dirty |-> FALSE, save |-> None,
               load |-> "none", observed |-> None, timer |-> FALSE, late |-> FALSE]

(* What a kill inside a call that writes a file may leave.                 *)
HalfWritten ==
  IF holder = None THEN {}
  ELSE CASE At(holder, "restore") -> {[file EXCEPT !.main = Torn]}
         [] At(holder, "wTmp") -> {[file EXCEPT !.tmp = Torn]}
         [] At(holder, "wBakTmp") -> {[file EXCEPT !.btmp = Torn]}
         [] OTHER -> {}

Crash ==
  /\ crashes < MaxCrashes /\ crashes' = crashes + 1
  /\ file' \in {file} \cup HalfWritten
  /\ holder' = None /\ epoch' = 0
  /\ mgr' = [m \in Managers |-> NewManager]
  /\ call' = [c \in Everyone |-> IF call[c].pc = "ready" THEN call[c]
                                 ELSE Fresh("failed")]
  /\ UNCHANGED <<clock, faults>>

-----------------------------------------------------------------------------
(* Specification                                                           *)

Readable == file.main \in Snapshot \/ file.bak \in Snapshot
Durable == CASE file.main \in Snapshot -> file.main
             [] file.main \notin Snapshot /\ file.bak \in Snapshot -> file.bak
             [] OTHER -> NoTables

(* The mutations of a manager that are not durable: those of its flush,    *)
(* then the pending ones.                                                  *)
InFlight(m) ==
  LET S == {c \in Everyone : ManagerOf[c] = m /\ call[c].muts # <<>>}
  IN  IF S = {} THEN <<>> ELSE call[CHOOSE c \in S : TRUE].muts
Unsaved(m) == InFlight(m) \o mgr[m].pending

InLock == {"read", "restore", "restored", "wTmp", "wBakTmp", "dBak", "mBak", "dMain",
           "mTmp", "dStale", "cleanup", "discard", "loadRead", "refreshed"}
Over == {"ready", "done", "failed"}

TypeOK ==
  /\ \A f \in {"main", "bak", "tmp", "btmp"} : file[f] \in Snapshot \cup {Absent, Torn}
  /\ holder \in Everyone \cup {None} /\ epoch \in Nat
  /\ \A c \in Everyone : /\ (holder = c => call[c].pc \in InLock \cup {"error"})
                          /\ (call[c].pc \in InLock => holder = c)
  /\ \A m \in Managers : /\ mgr[m].cache \in Snapshot /\ mgr[m].pending \in Seq(Mutation)
                          /\ {mgr[m].dirty, mgr[m].timer, mgr[m].late} \subseteq BOOLEAN
                          /\ mgr[m].save \in Everyone \cup {None}
                          /\ mgr[m].load \in {"none", "running", "ok", "failed"}
                          /\ mgr[m].observed \in Nat \cup {None}
  /\ clock \in 0..MaxClock /\ faults \in 0..MaxFaults /\ crashes \in 0..MaxCrashes

(* A database that exists, loaded by its managers, or a fresh root.        *)
Init ==
  /\ \/ \E s \in [Tables -> {None, [created |-> 1, val |-> 1]}] :
          /\ file = [main |-> s, bak |-> Absent, tmp |-> Absent, btmp |-> Absent]
          /\ mgr = [m \in Managers |->
                     [NewManager EXCEPT !.cache = s, !.load = "ok", !.observed = 0]]
     \/ /\ file = [main |-> Absent, bak |-> Absent, tmp |-> Absent, btmp |-> Absent]
        /\ mgr = [m \in Managers |-> NewManager]
  /\ holder = None /\ epoch = 0
  /\ call = [c \in Everyone |-> NewCall]
  /\ clock = 1 /\ faults = 0 /\ crashes = 0

Begin(c) ==
  \/ StartUp(c) \/ BeginLatest(c) \/ BeginReload(c) \/ TimerFires(c)
  \/ \E t \in Tables, drop \in BOOLEAN : Mutate(c, t, drop)

Step(c) ==
  \/ Save(c) \/ SaveAfterLoad(c) \/ Take(c) \/ Lock(c) \/ Read(c) \/ RestoreBackup(c)
  \/ Persist(c) \/ Move(c) \/ Cleanup(c) \/ DropStale(c) \/ Publish(c)
  \/ Flushed(c) \/ Requeue(c) \/ StartLoad(c) \/ LoadRead(c) \/ Loaded(c) \/ LoadFailed(c)
  \/ Latest(c) \/ Refreshed(c) \/ Refresh(c) \/ SaveImmediately(c)

Next == (\E c \in Everyone : Begin(c) \/ Step(c)) \/ Crash

(* Promises settle; as there are finitely many calls, that some call goes  *)
(* on is enough for all of them to end.                                    *)
Spec == Init /\ [][Next]_vars /\ WF_vars(\E c \in Everyone : Step(c))

-----------------------------------------------------------------------------
(* Properties                                                              *)

(* Once there is a readable snapshot there always is one, whatever fails   *)
(* and wherever the process is killed (persistSnapshot and                 *)
(* restoreBackupSnapshot).                                                 *)
SnapshotSurvives == [][Readable => Readable']_vars

(* Managers do not undo each other's work: the durable snapshot changes by *)
(* the mutations of one manager, applied to what is durable at that moment *)
(* (flushDirtyState under withMetadataPathLock).                           *)
NoLostUpdate ==
  [][Durable' # Durable =>
       holder # None /\ Durable' = Apply(Durable, call[holder].muts)]_vars

(* No mutation leaves the memory of a living manager before it is durable: *)
(* what is unsaved grows at the end, or loses at its front what a flush    *)
(* has put on the snapshot that it read (flushDirtyState, failed flushes   *)
(* and late publications included).                                        *)
NothingForgotten ==
  [][crashes' = crashes =>
       \A m \in Managers :
          \/ IsPrefix(Unsaved(m), Unsaved(m)')
          \/ \E c \in Everyone :
               /\ ManagerOf[c] = m /\ holder = c
               /\ Unsaved(m) = call[c].muts \o Unsaved(m)'
               /\ Durable' = Apply(call[c].snap, call[c].muts)]_vars

(* A manager that has seen the current epoch answers with the durable      *)
(* snapshot and its own unsaved mutations, unless a flush has published    *)
(* and has not, or not yet, reported success (getLatest, load,             *)
(* flushDirtyState).                                                       *)
LatestIsFresh ==
  \A m \in Managers :
    mgr[m].load = "ok" /\ mgr[m].observed = epoch /\ (\A n \in Managers : ~mgr[n].late)
      => mgr[m].cache = Apply(Durable, Unsaved(m))

(* Saves, loads and refreshes that wait for each other and for the path    *)
(* lock all end (save, load, getLatest).                                   *)
EveryCallEnds == <>[](\A c \in Everyone : call[c].pc \in Over)

(* A save that reports success leaves no mutation of its manager unsaved,  *)
(* as createTable promises (API.en.md: "persists table metadata            *)
(* immediately after creation").  With Overtaking it does not hold: the    *)
(* second of two saves reports success while the first still writes.       *)
SavedIsDurable ==
  [][\A c \in Calls : call[c].pc \in {"awaitLoad", "waitSave", "flushed"} /\ call'[c].pc = "done"
       => Unsaved(ManagerOf[c])' = <<>>]_vars

(* The path lock and the promises agree with the calls, and a manager that *)
(* has seen the current epoch answers with what is durable.              *)
Consistent == TypeOK /\ LatestIsFresh

(* A readable snapshot stays, no mutation is undone by another manager, and *)
(* none leaves a living manager before it is durable.                    *)
NothingLost == SnapshotSurvives /\ NoLostUpdate /\ NothingForgotten
=============================================================================
