------------------------- MODULE MetadataFileProofs -------------------------
(***************************************************************************)
(* Proofs about MetadataFile, for any tables, managers, calls, timers,     *)
(* numbers of faults and kills: its type invariant; that the snapshot      *)
(* stays readable and no manager undoes the work of another; and, when two *)
(* saves do not pass the test for a running one together, that no mutation *)
(* is forgotten, success of a save means durable, and a manager that has   *)
(* seen the epoch answers with what is durable.                            *)
(*                                                                         *)
(* FInv relates the files to the call that has the lock (Beside), at each  *)
(* step of the publication and of the recovery.  Alone says who flushes,   *)
(* who loads and who waits for whom: a manager has one flush, and no load  *)
(* reads while it runs.  Seen says what a call has read and not yet handed *)
(* to its manager.  The actions are then told apart by what they change: a *)
(* memory (AdoptStep, MutateStep), the durable snapshot (PublishedStep),   *)
(* the epoch (AdvanceStep) or none of these (Calm).                        *)
(***************************************************************************)
EXTENDS MetadataFile, WellFoundedInduction, SequenceTheorems, TLAPS

-----------------------------------------------------------------------------
(* Sequences of mutations                                                  *)

(* Induction up to N, for a set of numbers.                                *)
LEMMA UpTo ==
  ASSUME NEW N \in Nat, NEW G, 0 \in G, \A n \in 1..N : n - 1 \in G => n \in G
  PROVE  0..N \subseteq G
<1> DEFINE S == {n \in 0..N : n \notin G}
           R == OpToRel(<, Nat)
<1>1. SUFFICES ASSUME S # {} PROVE FALSE
  OBVIOUS
<1>2. PICK n \in S : \A m \in S : ~ (<<m, n>> \in R)
  <2>1. IsWellFoundedOn(R, Nat)
    BY NatLessThanWellFounded
  <2>2. S \subseteq Nat
    OBVIOUS
  <2> HIDE DEF S
  <2> QED
    BY <1>1, <2>1, <2>2, WFMin
<1>3. \A m \in S : ~ (m < n)
  <2>1. \A m \in S : m \in Nat /\ n \in Nat
    OBVIOUS
  <2> HIDE DEF S
  <2> QED
    BY <1>2, <2>1 DEF OpToRel
<1>4. n \in 1..N /\ n - 1 \in 0..N
  OBVIOUS
<1>5. n - 1 \in G
  BY <1>3, <1>4
<1> QED
  BY <1>4, <1>5

(* The snapshots that applying q to s goes through.                        *)
IsPath(h, s, q) ==
  h = [n \in 0..Len(q) |-> IF n = 0 THEN s ELSE ApplyOne(h[n - 1], q[n])]

(* There is such a path, and Apply leads to its end.                       *)
LEMMA PathExists ==
  ASSUME NEW s, NEW q, Len(q) \in Nat
  PROVE  \E h : IsPath(h, s, q) /\ Apply(s, q) = h[Len(q)]
<1> DEFINE N == Len(q)
           Path(h, m) == h = [n \in 0..m |-> IF n = 0 THEN s ELSE ApplyOne(h[n - 1], q[n])]
           G == {m \in 0..N : \E h : Path(h, m)}
<1>1. 0 \in G
  <2>1. PICK h : h = [n \in 0..0 |-> s]
    OBVIOUS
  <2>2. h = [n \in 0..0 |-> IF n = 0 THEN s ELSE ApplyOne(h[n - 1], q[n])]
    BY <2>1
  <2> QED
    BY <2>2
<1>2. ASSUME NEW m \in 1..N, m - 1 \in G PROVE m \in G
  <2>1. PICK h : Path(h, m - 1)
    BY <1>2
  <2>2. PICK e : e = [n \in 0..m |-> IF n = m THEN ApplyOne(h[m - 1], q[m]) ELSE h[n]]
    OBVIOUS
  <2>3. ASSUME NEW n \in 0..m PROVE e[n] = IF n = 0 THEN s ELSE ApplyOne(e[n - 1], q[n])
    <3>1. CASE n = m
      <4>1. n # 0 /\ m - 1 \in 0..m /\ m - 1 # m
        BY <3>1
      <4> QED
        BY <2>2, <3>1, <4>1
    <3>2. CASE n # m
      <4>1. n \in 0..(m - 1) /\ (n # 0 => n - 1 \in 0..m /\ n - 1 # m)
        BY <3>2
      <4>2. h[n] = IF n = 0 THEN s ELSE ApplyOne(h[n - 1], q[n])
        BY <2>1, <4>1
      <4>3. e[n] = h[n] /\ (n # 0 => e[n - 1] = h[n - 1])
        BY <2>2, <3>2, <4>1
      <4> QED
        BY <4>2, <4>3
    <3> QED
      BY <3>1, <3>2
  <2>4. e = [n \in 0..m |-> e[n]]
    BY <2>2
  <2>5. Path(e, m)
    BY <2>3, <2>4
  <2> QED
    BY <2>5
<1>3. 0..N \subseteq G
  <2> HIDE DEF G
  <2> QED
    BY <1>1, <1>2, UpTo
<1>4. \E h : Path(h, N)
  BY <1>3
<1>5. PICK a : a = CHOOSE h : Path(h, N)
  OBVIOUS
<1>6. Path(a, N)
  BY <1>4, <1>5
<1>7. Apply(s, q) = a[N]
  BY <1>5 DEF Apply
<1> QED
  BY <1>6, <1>7 DEF IsPath

LEMMA ApplyNone ==
  ASSUME NEW s
  PROVE  Apply(s, <<>>) = s
<1>1. PICK q : q = <<>> /\ Len(q) = 0
  OBVIOUS
<1>2. PICK h : IsPath(h, s, q) /\ Apply(s, q) = h[Len(q)]
  <2>1. Len(q) \in Nat
    BY <1>1
  <2> QED
    BY <2>1, PathExists
<1>3. Apply(s, q) = s
  BY <1>1, <1>2 DEF IsPath
<1> QED
  BY <1>1, <1>3

(* The mutations take effect one after the other.                          *)
LEMMA ApplyMore ==
  ASSUME NEW s, NEW q \in Seq(Mutation), NEW mu \in Mutation
  PROVE  Apply(s, Append(q, mu)) = ApplyOne(Apply(s, q), mu)
<1> DEFINE N == Len(q)
<1>0. PICK p : p = Append(q, mu)
  OBVIOUS
<1>1. N \in Nat /\ Len(p) = N + 1 /\ (\A n \in 1..N : p[n] = q[n]) /\ p[N + 1] = mu
  BY <1>0
<1>2. PICK h : IsPath(h, s, q) /\ Apply(s, q) = h[N]
  BY <1>1, PathExists
<1>3. PICK g : IsPath(g, s, p) /\ Apply(s, p) = g[N + 1]
  <2>1. Len(p) \in Nat
    BY <1>1
  <2> QED
    BY <1>1, <2>1, PathExists
<1>4. \A n \in 0..N : h[n] = IF n = 0 THEN s ELSE ApplyOne(h[n - 1], q[n])
  BY <1>2 DEF IsPath
<1>5. \A n \in 0..(N + 1) : g[n] = IF n = 0 THEN s ELSE ApplyOne(g[n - 1], p[n])
  BY <1>1, <1>3 DEF IsPath
<1> DEFINE G == {n \in 0..N : g[n] = h[n]}
<1>6. 0 \in G
  BY <1>1, <1>4, <1>5
<1>7. ASSUME NEW n \in 1..N, n - 1 \in G PROVE n \in G
  <2>1. n \in 0..N /\ n \in 0..(N + 1) /\ n # 0
    BY <1>1
  <2> QED
    BY <1>1, <1>4, <1>5, <1>7, <2>1
<1>8. 0..N \subseteq G
  <2> HIDE DEF G
  <2> QED
    BY <1>1, <1>6, <1>7, UpTo
<1>9. g[N] = h[N]
  BY <1>1, <1>8
<1>10. g[N + 1] = ApplyOne(g[N], mu)
  BY <1>1, <1>5
<1> QED
  BY <1>0, <1>2, <1>3, <1>9, <1>10

LEMMA ApplyOneType ==
  ASSUME NEW s \in Snapshot, NEW mu \in Mutation
  PROVE  ApplyOne(s, mu) \in Snapshot
<1>1. /\ mu.table \in Tables /\ mu.type \in {"update", "upsert", "delete"}
      /\ mu.type # "delete" => mu.val \in 1..MaxClock
  BY DEF Mutation
<1>2. PICK t : t = mu.table
  OBVIOUS
<1>3. s[t] \in Record \cup {None}
  BY <1>1, <1>2 DEF Snapshot
<1>4. CASE mu.type = "delete"
  BY <1>1, <1>4 DEF ApplyOne, Snapshot
<1>5. CASE mu.type = "update"
  <2>1. CASE s[t] # None /\ s[t].created = mu.created
    <3>1. PICK r : r = [s[t] EXCEPT !.val = mu.val]
      OBVIOUS
    <3>2. r \in Record
      BY <1>1, <1>3, <1>5, <2>1, <3>1 DEF Record
    <3>3. ApplyOne(s, mu) = [s EXCEPT ![t] = r]
      BY <1>1, <1>2, <1>5, <2>1, <3>1 DEF ApplyOne, Snapshot
    <3> QED
      BY <1>1, <1>2, <3>2, <3>3 DEF Snapshot
  <2>2. CASE ~ (s[t] # None /\ s[t].created = mu.created)
    BY <1>2, <1>5, <2>2 DEF ApplyOne
  <2> QED
    BY <2>1, <2>2
<1>6. CASE mu.type = "upsert"
  <2>1. [created |-> mu.val, val |-> mu.val] \in Record
    BY <1>1, <1>6 DEF Record
  <2> QED
    BY <1>1, <1>6, <2>1 DEF ApplyOne, Snapshot
<1> QED
  BY <1>1, <1>4, <1>5, <1>6

LEMMA ApplyType ==
  ASSUME NEW s \in Snapshot, NEW q \in Seq(Mutation)
  PROVE  Apply(s, q) \in Snapshot
<1> DEFINE N == Len(q)
<1>1. N \in Nat /\ \A n \in 1..N : q[n] \in Mutation
  OBVIOUS
<1>2. PICK h : IsPath(h, s, q) /\ Apply(s, q) = h[N]
  BY <1>1, PathExists
<1>3. \A n \in 0..N : h[n] = IF n = 0 THEN s ELSE ApplyOne(h[n - 1], q[n])
  BY <1>2 DEF IsPath
<1> DEFINE G == {n \in 0..N : h[n] \in Snapshot}
<1>4. 0 \in G
  BY <1>1, <1>3
<1>5. ASSUME NEW n \in 1..N, n - 1 \in G PROVE n \in G
  <2>1. n \in 0..N /\ n # 0
    BY <1>1
  <2> QED
    BY <1>1, <1>3, <1>5, <2>1, ApplyOneType
<1>6. 0..N \subseteq G
  <2> HIDE DEF G
  <2> QED
    BY <1>1, <1>4, <1>5, UpTo
<1> QED
  BY <1>1, <1>2, <1>6

-----------------------------------------------------------------------------
(* The invariant of calls and files                                        *)

Labels ==
  InLock \cup Over \cup
  {"load", "waitLoadSave", "lock", "error", "publish", "take", "flushed", "loaded", "refresh",
   "latest", "waitSave", "waitSave2", "mutated", "save", "awaitLoad"}
CallSet == [pc: Labels, kind: {"none", "flush", "load", "refresh"}, muts: Seq(Mutation),
            snap: Snapshot, on: Everyone \cup {None}, then: {"done", "ready", "load"}, epoch: Nat]
ManagerSet == [cache: Snapshot, pending: Seq(Mutation), dirty: BOOLEAN,
               save: Everyone \cup {None}, load: {"none", "running", "ok", "failed"},
               observed: Nat \cup {None}, timer: BOOLEAN, late: BOOLEAN]
Files == [main: Snapshot \cup {Absent, Torn}, bak: Snapshot \cup {Absent},
          tmp: Snapshot \cup {Absent, Torn}, btmp: Snapshot \cup {Absent, Torn}]

DataOK ==
  /\ file \in Files /\ holder \in Everyone \cup {None} /\ epoch \in Nat
  /\ call \in [Everyone -> CallSet] /\ mgr \in [Managers -> ManagerSet]
  /\ clock \in 1..MaxClock /\ faults \in 0..MaxFaults /\ crashes \in 0..MaxCrashes

(* The labels of a flush, a load or a refresh.                             *)
Working == InLock \cup {"lock", "error"}
Persisting == {"wTmp", "wBakTmp", "dBak", "mBak", "dMain", "mTmp", "dStale", "cleanup"}

(* What a call is doing, where it is.                                      *)
Fits(q) ==
  /\ q.pc \in Working \cup {"waitLoadSave", "publish", "loaded"} => q.kind # "none"
  /\ q.kind # "none" => q.pc \in Working \cup {"waitLoadSave", "publish", "loaded", "take", "flushed"}
  /\ q.pc = "publish" => q.kind = "flush"
  /\ q.pc \in {"take", "flushed"} => q.kind \in {"none", "flush"}
  /\ q.pc \in Persisting => q.kind \in {"flush", "load"}
  /\ q.pc \in {"waitLoadSave", "discard", "loadRead", "loaded"} => q.kind = "load"
  /\ q.pc = "refreshed" => q.kind = "refresh"
  /\ q.muts # <<>> => q.kind = "flush" /\ q.pc \in Working
  /\ q.on # None => q.pc \in {"waitSave", "waitSave2", "waitLoadSave"}

(* The files f while the call q has the lock.                              *)
New(q) == Apply(q.snap, q.muts)
Empty(q, f) == f.main = Absent /\ f.bak = Absent /\ q.snap = NoTables
Beside(q, f) ==
  /\ q.pc = "restore" => f.main = Absent /\ f.bak = q.snap
  /\ q.pc = "restored" => f.main = q.snap /\ f.bak = q.snap
  /\ q.pc \in {"discard", "wBakTmp", "dBak", "mBak", "dMain"} => f.main = q.snap
  /\ q.pc \in {"wTmp", "refreshed", "loadRead"} => f.main = q.snap \/ Empty(q, f)
  /\ q.pc \in {"wBakTmp", "dBak", "mBak", "dMain", "mTmp"} => f.tmp = New(q)
  /\ q.pc \in {"dBak", "mBak"} => f.btmp = q.snap
  /\ q.pc = "dMain" => f.bak = q.snap
  /\ q.pc = "mTmp" => (f.main = Absent /\ f.bak = q.snap) \/ Empty(q, f)
  /\ q.pc = "dStale" => f.main = New(q)

FInv ==
  /\ DataOK
  /\ \A c \in Everyone : /\ Fits(call[c]) /\ Beside(call[c], file)
                         /\ call[c].pc \in InLock => holder = c
                         /\ holder = c => call[c].pc \in InLock \cup {"error"}

(* The facts about one call and its manager.                               *)
LEMMA Now ==
  ASSUME FInv, NEW c \in Everyone
  PROVE  /\ call[c] \in CallSet /\ Fits(call[c]) /\ Beside(call[c], file)
         /\ (call[c].pc \in InLock => holder = c)
         /\ (holder = c => call[c].pc \in InLock \cup {"error"})
         /\ ManagerOf[c] \in Managers /\ mgr[ManagerOf[c]] \in ManagerSet
         /\ file \in Files /\ c # None
BY CallAssumption DEF FInv, DataOK, Everyone

LEMMA NewCallOK ==
  /\ NewCall \in CallSet /\ NoTables \in Snapshot
  /\ \A l \in Over : Fresh(l) \in CallSet /\ Fits(Fresh(l)) /\ Fresh(l).then = "done"
                     /\ Fresh(l) = [NewCall EXCEPT !.pc = l]
<1>1. NoTables \in Snapshot
  BY DEF NoTables, Snapshot
<1>2. <<>> \in Seq(Mutation)
  OBVIOUS
<1>3. NewCall \in CallSet
  BY <1>1, <1>2 DEF NewCall, CallSet, Labels, Over
<1>4. ASSUME NEW l \in Over
      PROVE  Fresh(l) \in CallSet /\ Fits(Fresh(l)) /\ Fresh(l).then = "done"
  BY <1>3, <1>4, <1>1, <1>2 DEF Fresh, NewCall, CallSet, Labels, Fits, Over, Working, InLock, Persisting
<1> QED
  BY <1>1, <1>3, <1>4 DEF Fresh

(* A call goes on to u.                                                    *)
LEMMA Moves ==
  ASSUME FInv, NEW c \in Everyone, NEW u \in CallSet, call' = [call EXCEPT ![c] = u], Fits(u),
         file' \in Files, mgr' \in [Managers -> ManagerSet], epoch' \in Nat,
         clock' \in 1..MaxClock, faults' \in 0..MaxFaults, crashes' \in 0..MaxCrashes,
         file' = file \/ holder = c,
         \/ holder' = holder /\ (u.pc \in InLock => holder = c)
                             /\ (holder = c => u.pc \in InLock \cup {"error"})
         \/ (holder = c \/ holder = None) /\ holder' = None /\ u.pc \notin InLock
         \/ holder = None /\ holder' = c /\ u.pc \in InLock,
         u.pc \in InLock => Beside(u, file')
  PROVE  FInv'
<1>1. DataOK'
  BY DEF FInv, DataOK
<1>2. \A d \in Everyone : call'[d] = IF d = c THEN u ELSE call[d]
  BY DEF FInv, DataOK
<1>3. c # None
  BY CallAssumption
<1>4. \A q, f : q.pc \notin InLock => Beside(q, f)
  BY DEF Beside, InLock
<1>5. ASSUME NEW d \in Everyone
      PROVE  /\ Fits(call'[d]) /\ Beside(call'[d], file')
             /\ (call'[d].pc \in InLock => holder' = d)
             /\ (holder' = d => call'[d].pc \in InLock \cup {"error"})
  <2>1. CASE d = c
    BY <1>2, <1>3, <1>4, <2>1
  <2>2. CASE d # c
    <3>1. call'[d] = call[d]
      BY <1>2, <2>2
    <3>2. /\ Fits(call[d]) /\ Beside(call[d], file) /\ (call[d].pc \in InLock => holder = d)
          /\ (holder = d => call[d].pc \in InLock \cup {"error"}) /\ d # None
      BY Now
    <3>3. CASE call[d].pc \in InLock
      BY <2>2, <3>1, <3>2, <3>3
    <3>4. CASE call[d].pc \notin InLock
      BY <1>4, <2>2, <3>1, <3>2, <3>4
    <3> QED
      BY <3>3, <3>4
  <2> QED
    BY <2>1, <2>2
<1> QED
  BY <1>1, <1>5 DEF FInv

-----------------------------------------------------------------------------
(* The steps that call the filesystem                                      *)

(* A filesystem call under the lock, which leaves f or one of partial.     *)
LEMMA FileCallKeeps ==
  ASSUME FInv, NEW c \in Everyone, holder = c,
         NEW f \in Files, NEW partial \in SUBSET Files,
         NEW next \in InLock, NEW onError \in {"cleanup", "error"},
         FileCall(c, f, partial, next, onError),
         mgr' \in [Managers -> ManagerSet], UNCHANGED <<holder, epoch, clock, crashes>>,
         Fits([call[c] EXCEPT !.pc = next]), Beside([call[c] EXCEPT !.pc = next], f),
         onError = "cleanup" => call[c].kind \in {"flush", "load"}
  PROVE  FInv'
<1>1. call[c] \in CallSet /\ Fits(call[c]) /\ call[c].pc \in InLock \cup {"error"} /\ DataOK
  BY Now DEF FInv
<1>2. CASE file' = f /\ Goto(c, next) /\ NoFault
  <2>1. PICK u : u = [call[c] EXCEPT !.pc = next]
    OBVIOUS
  <2>2. u \in CallSet /\ u.pc = next
    BY <1>1, <2>1 DEF CallSet, Labels
  <2>3. call' = [call EXCEPT ![c] = u]
    BY <1>1, <1>2, <2>1 DEF Goto, DataOK
  <2> QED
    BY <1>1, <1>2, <2>1, <2>2, <2>3, Moves DEF DataOK, NoFault
<1>3. CASE Fault /\ file' \in {file} \cup partial /\ Goto(c, onError)
  <2>1. PICK u : u = [call[c] EXCEPT !.pc = onError]
    OBVIOUS
  <2>2. u \in CallSet /\ u.pc = onError /\ u.kind = call[c].kind /\ u.muts = call[c].muts /\ u.on = call[c].on
    BY <1>1, <2>1 DEF CallSet, Labels, InLock
  <2>3. call' = [call EXCEPT ![c] = u]
    BY <1>1, <1>3, <2>1 DEF Goto, DataOK
  <2>4. Fits(u)
    BY <1>1, <2>2 DEF Fits, Working, InLock, Persisting
  <2>5. u.pc \in InLock \cup {"error"} /\ Beside(u, file')
    BY <2>2 DEF InLock, Beside
  <2>6. faults' \in 0..MaxFaults
    BY <1>1, <1>3, CallAssumption DEF Fault, DataOK
  <2> QED
    BY <1>1, <1>3, <2>2, <2>3, <2>4, <2>5, <2>6, Moves DEF DataOK
<1> QED
  BY <1>2, <1>3 DEF FileCall

LEMMA FilesOf ==
  ASSUME NEW f \in Files
  PROVE  /\ f.main \in Snapshot \cup {Absent, Torn} /\ f.bak \in Snapshot \cup {Absent}
         /\ f.tmp \in Snapshot \cup {Absent, Torn} /\ f.btmp \in Snapshot \cup {Absent, Torn}
         /\ \A v \in Snapshot \cup {Absent, Torn} :
              [f EXCEPT !.main = v] \in Files /\ [f EXCEPT !.tmp = v] \in Files
              /\ [f EXCEPT !.btmp = v] \in Files
         /\ \A v \in Snapshot \cup {Absent} : [f EXCEPT !.bak = v] \in Files
BY DEF Files

LEMMA RestoreBackupKeeps ==
  ASSUME FInv, NEW c \in Everyone, RestoreBackup(c)
  PROVE  FInv'
<1> DEFINE q == call[c]
<1>1. /\ q \in CallSet /\ Fits(q) /\ Beside(q, file) /\ file \in Files /\ DataOK
      /\ q.pc \in {"restore", "restored"} /\ holder = c
      /\ mgr' \in [Managers -> ManagerSet] /\ UNCHANGED <<holder, epoch, clock, crashes>>
  BY Now DEF RestoreBackup, At, FInv, DataOK, InLock
<1>2. q.kind \in {"flush", "load", "refresh"} /\ q.snap \in Snapshot
  BY <1>1 DEF Fits, CallSet, Working, InLock
<1>3. CASE /\ q.pc = "restore"
           /\ FileCall(c, [file EXCEPT !.main = q.snap], {[file EXCEPT !.main = Torn]},
                       "restored", "error")
  <2>1. PICK f, g : f = [file EXCEPT !.main = q.snap] /\ g = [file EXCEPT !.main = Torn]
    OBVIOUS
  <2>2. f \in Files /\ g \in Files /\ f.main = q.snap /\ f.bak = file.bak
    BY <1>1, <1>2, <2>1, FilesOf DEF Files
  <2>3. PICK u : u = [q EXCEPT !.pc = "restored"]
    OBVIOUS
  <2>4. u.pc = "restored" /\ u.kind = q.kind /\ u.muts = q.muts /\ u.snap = q.snap
          /\ u.on = q.on
    BY <1>1, <2>3 DEF CallSet
  <2>5. Fits(u) /\ Beside(u, f)
    BY <1>1, <1>2, <1>3, <2>2, <2>4 DEF Fits, Beside, Working, InLock, Persisting
  <2>6. FileCall(c, f, {g}, "restored", "error") /\ {g} \in SUBSET Files /\ "restored" \in InLock
    BY <1>3, <2>1, <2>2 DEF InLock
  <2> QED
    BY <1>1, <2>2, <2>3, <2>5, <2>6, FileCallKeeps
<1>4. CASE /\ q.pc = "restored"
           /\ FileCall(c, [file EXCEPT !.bak = Absent], {},
                       IF q.kind = "load" THEN "loadRead" ELSE AfterRead(c), "error")
  <2>1. PICK f : f = [file EXCEPT !.bak = Absent]
    OBVIOUS
  <2>2. f \in Files /\ f.main = q.snap
    BY <1>1, <1>4, <2>1, FilesOf DEF Files, Beside
  <2>3. PICK next : next = IF q.kind = "load" THEN "loadRead" ELSE AfterRead(c)
    OBVIOUS
  <2>4. /\ next \in InLock /\ next \in {"loadRead", "wTmp", "refreshed"}
        /\ (next = "loadRead" => q.kind = "load") /\ (next = "wTmp" => q.kind = "flush")
        /\ (next = "refreshed" => q.kind = "refresh")
    BY <1>2, <2>3 DEF AfterRead, InLock
  <2>5. PICK u : u = [q EXCEPT !.pc = next]
    OBVIOUS
  <2>6. u.pc = next /\ u.kind = q.kind /\ u.muts = q.muts /\ u.snap = q.snap
          /\ u.on = q.on
    BY <1>1, <2>5 DEF CallSet
  <2>7. Fits(u) /\ Beside(u, f)
    BY <1>1, <1>2, <1>4, <2>2, <2>4, <2>6 DEF Fits, Beside, Working, InLock, Persisting
  <2>8. FileCall(c, f, {}, next, "error") /\ {} \in SUBSET Files
    BY <1>4, <2>1, <2>3
  <2> QED
    BY <1>1, <2>2, <2>4, <2>5, <2>7, <2>8, FileCallKeeps
<1> QED
  BY <1>3, <1>4 DEF RestoreBackup, At

LEMMA MergedIs ==
  ASSUME NEW c, call[c] \in CallSet
  PROVE  Merged(c) = New(call[c]) /\ Merged(c) \in Snapshot
BY ApplyType DEF Merged, New, CallSet

(* The files f suit the call c at the label next.                          *)
Leads(c, next, f) ==
  \A u \in CallSet : (/\ u.pc = next /\ u.kind = call[c].kind
                      /\ u.muts = call[c].muts /\ u.snap = call[c].snap) => Beside(u, f)

(* The bookkeeping of one step of persistSnapshot.                         *)
LEMMA PersistStep ==
  ASSUME FInv, NEW c \in Everyone, call[c].pc \in Persisting,
         NEW f \in Files, NEW partial \in SUBSET Files, NEW next \in Persisting,
         FileCall(c, f, partial, next, "cleanup"),
         mgr' \in [Managers -> ManagerSet], UNCHANGED <<holder, epoch, clock, crashes>>,
         Leads(c, next, f)
  PROVE  FInv'
<1>1. PICK u : u = [call[c] EXCEPT !.pc = next]
  OBVIOUS
<1>2. /\ call[c] \in CallSet /\ Fits(call[c]) /\ call[c].pc \in InLock /\ next \in InLock /\ holder = c
      /\ call[c].kind \in {"flush", "load"}
  BY Now DEF Persisting, InLock, Fits
<1>3. /\ u \in CallSet /\ u.pc = next /\ u.kind = call[c].kind /\ u.muts = call[c].muts
      /\ u.snap = call[c].snap /\ u.on = call[c].on
  BY <1>1, <1>2 DEF CallSet, Labels
<1>4. Fits(u) /\ Beside(u, f)
  BY <1>2, <1>3 DEF Fits, Persisting, Working, InLock, Leads
<1> QED
  BY <1>1, <1>2, <1>4, FileCallKeeps

LEMMA PersistKeeps ==
  ASSUME FInv, NEW c \in Everyone, Persist(c)
  PROVE  FInv'
<1> DEFINE q == call[c]
<1>1. /\ q \in CallSet /\ Fits(q) /\ Beside(q, file) /\ file \in Files /\ DataOK
      /\ q.pc \in Persisting
      /\ mgr' \in [Managers -> ManagerSet] /\ UNCHANGED <<holder, epoch, clock, crashes>>
  BY Now DEF Persist, At, FInv, DataOK, Persisting
<1>2. PICK new : new = Merged(c) /\ new = New(q) /\ new \in Snapshot
  BY <1>1, MergedIs
<1>3. \A u : u.muts = q.muts /\ u.snap = q.snap => New(u) = new
  BY <1>2 DEF New
<1>4. /\ \A v \in Snapshot : v # Absent /\ v # Torn
      /\ q.snap \in Snapshot
  BY <1>1, CallAssumption DEF CallSet
<1>5. CASE q.pc = "wTmp"
  <2>1. PICK f, g, next : /\ f = [file EXCEPT !.tmp = new] /\ g = [file EXCEPT !.tmp = Torn]
                          /\ next = IF file.main = Absent THEN "mTmp" ELSE "wBakTmp"
    OBVIOUS
  <2>2. f \in Files /\ g \in Files /\ f.main = file.main /\ f.bak = file.bak /\ f.tmp = new
    BY <1>1, <1>2, <2>1, FilesOf DEF Files
  <2>3. FileCall(c, f, {g}, next, "cleanup")
    BY <1>2, <1>5, <2>1 DEF Persist, At
  <2>4. file.main = q.snap \/ Empty(q, file)
    BY <1>1, <1>5 DEF Beside
  <2>5. ASSUME NEW u \in CallSet, u.pc = next /\ u.kind = q.kind /\ u.muts = q.muts /\ u.snap = q.snap
       PROVE  Beside(u, f)
    BY <1>3, <1>4, <2>1, <2>2, <2>4, <2>5 DEF Beside, Empty
  <2>7. Leads(c, next, f)
    BY <2>5 DEF Leads
  <2>6. next \in Persisting /\ {g} \in SUBSET Files
    BY <2>1, <2>2 DEF Persisting
  <2> QED
    BY <1>1, <2>2, <2>3, <2>6, <2>7, PersistStep
<1>6. CASE q.pc = "wBakTmp"
  <2>1. PICK f, g : f = [file EXCEPT !.btmp = file.main] /\ g = [file EXCEPT !.btmp = Torn]
    OBVIOUS
  <2>2. /\ f \in Files /\ g \in Files /\ f.main = file.main /\ f.tmp = file.tmp
        /\ f.btmp = file.main
    BY <1>1, <2>1, FilesOf DEF Files
  <2>3. FileCall(c, f, {g}, "dBak", "cleanup")
    BY <1>6, <2>1 DEF Persist, At
  <2>4. file.main = q.snap /\ file.tmp = new
    BY <1>1, <1>2, <1>6 DEF Beside
  <2>5. ASSUME NEW u \in CallSet, u.pc = "dBak" /\ u.kind = q.kind /\ u.muts = q.muts /\ u.snap = q.snap
       PROVE  Beside(u, f)
    BY <1>3, <2>2, <2>4, <2>5 DEF Beside
  <2>7. Leads(c, "dBak", f)
    BY <2>5 DEF Leads
  <2>6. "dBak" \in Persisting /\ {g} \in SUBSET Files
    BY <2>2 DEF Persisting
  <2> QED
    BY <1>1, <2>2, <2>3, <2>6, <2>7, PersistStep
<1>7. CASE q.pc = "dBak"
  <2>1. PICK f : f = [file EXCEPT !.bak = Absent]
    OBVIOUS
  <2>2. f \in Files /\ f.main = file.main /\ f.tmp = file.tmp /\ f.btmp = file.btmp
    BY <1>1, <2>1, FilesOf DEF Files
  <2>3. FileCall(c, f, {}, "mBak", "cleanup")
    BY <1>7, <2>1 DEF Persist, At
  <2>4. file.main = q.snap /\ file.tmp = new /\ file.btmp = q.snap
    BY <1>1, <1>2, <1>7 DEF Beside
  <2>5. ASSUME NEW u \in CallSet, u.pc = "mBak" /\ u.kind = q.kind /\ u.muts = q.muts /\ u.snap = q.snap
       PROVE  Beside(u, f)
    BY <1>3, <2>2, <2>4, <2>5 DEF Beside
  <2>7. Leads(c, "mBak", f)
    BY <2>5 DEF Leads
  <2>6. "mBak" \in Persisting /\ {} \in SUBSET Files
    BY DEF Persisting
  <2> QED
    BY <1>1, <2>2, <2>3, <2>6, <2>7, PersistStep
<1>8. CASE q.pc = "mBak"
  <2>1. PICK f : f = [file EXCEPT !.bak = file.btmp, !.btmp = Absent]
    OBVIOUS
  <2>4. file.main = q.snap /\ file.tmp = new /\ file.btmp = q.snap
    BY <1>1, <1>2, <1>8 DEF Beside
  <2>2. f \in Files /\ f.main = file.main /\ f.tmp = file.tmp /\ f.bak = q.snap
    BY <1>1, <1>4, <2>1, <2>4 DEF Files
  <2>3. FileCall(c, f, {}, "dMain", "cleanup")
    BY <1>8, <2>1 DEF Persist, At
  <2>5. ASSUME NEW u \in CallSet, u.pc = "dMain" /\ u.kind = q.kind /\ u.muts = q.muts /\ u.snap = q.snap
       PROVE  Beside(u, f)
    BY <1>3, <2>2, <2>4, <2>5 DEF Beside
  <2>7. Leads(c, "dMain", f)
    BY <2>5 DEF Leads
  <2>6. "dMain" \in Persisting /\ {} \in SUBSET Files
    BY DEF Persisting
  <2> QED
    BY <1>1, <2>2, <2>3, <2>6, <2>7, PersistStep
<1>9. CASE q.pc = "dMain"
  <2>1. PICK f : f = [file EXCEPT !.main = Absent]
    OBVIOUS
  <2>2. f \in Files /\ f.main = Absent /\ f.tmp = file.tmp /\ f.bak = file.bak
    BY <1>1, <2>1, FilesOf DEF Files
  <2>3. FileCall(c, f, {}, "mTmp", "cleanup")
    BY <1>9, <2>1 DEF Persist, At
  <2>4. file.bak = q.snap /\ file.tmp = new
    BY <1>1, <1>2, <1>9 DEF Beside
  <2>5. ASSUME NEW u \in CallSet, u.pc = "mTmp" /\ u.kind = q.kind /\ u.muts = q.muts /\ u.snap = q.snap
       PROVE  Beside(u, f)
    BY <1>3, <2>2, <2>4, <2>5 DEF Beside
  <2>7. Leads(c, "mTmp", f)
    BY <2>5 DEF Leads
  <2>6. "mTmp" \in Persisting /\ {} \in SUBSET Files
    BY DEF Persisting
  <2> QED
    BY <1>1, <2>2, <2>3, <2>6, <2>7, PersistStep
<1> QED
  BY <1>5, <1>6, <1>7, <1>8, <1>9 DEF Persist, At

LEMMA MoveKeeps ==
  ASSUME FInv, NEW c \in Everyone, Move(c)
  PROVE  FInv'
<1> DEFINE q == call[c]
<1>1. /\ q \in CallSet /\ Fits(q) /\ Beside(q, file) /\ file \in Files /\ DataOK
      /\ q.pc = "mTmp" /\ q.pc \in Persisting
      /\ UNCHANGED <<holder, epoch, clock, crashes>>
  BY Now DEF Move, At, FInv, DataOK, Persisting
<1>2. mgr' \in [Managers -> ManagerSet]
  <2>1. PICK w : w = [mgr[ManagerOf[c]] EXCEPT !.late = @ \/ (file' # file /\ q.kind = "flush")]
    OBVIOUS
  <2>2. w \in ManagerSet
    BY <2>1, Now DEF ManagerSet
  <2>3. mgr' = [mgr EXCEPT ![ManagerOf[c]] = w]
    BY <1>1, <2>1 DEF Move, DataOK
  <2> QED
    BY <1>1, <2>2, <2>3 DEF DataOK
<1>3. New(q) \in Snapshot /\ file.tmp = New(q)
  BY <1>1, MergedIs DEF Beside
<1>4. PICK f : f = [file EXCEPT !.main = file.tmp, !.tmp = Absent]
  OBVIOUS
<1>5. f \in Files /\ f.main = New(q)
  BY <1>1, <1>3, <1>4 DEF Files
<1>6. FileCall(c, f, {}, "dStale", "cleanup")
  BY <1>4 DEF Move
<1>7. ASSUME NEW u \in CallSet, u.pc = "dStale" /\ u.kind = q.kind /\ u.muts = q.muts /\ u.snap = q.snap
     PROVE  Beside(u, f)
  BY <1>5, <1>7 DEF Beside, New
<1>9. Leads(c, "dStale", f)
  BY <1>7 DEF Leads
<1>8. "dStale" \in Persisting /\ {} \in SUBSET Files
  BY DEF Persisting
<1> QED
  BY <1>1, <1>2, <1>5, <1>6, <1>8, <1>9, PersistStep
-----------------------------------------------------------------------------
(* The invariant of promises: who flushes, who loads and who waits         *)

Waiting == {"waitSave", "waitSave2", "waitLoadSave"}
Flushes(q) == q.pc \in {"take", "flushed"} \/ q.kind = "flush"
Loads(q) == q.pc = "load" \/ q.kind = "load" \/ q.then = "load"
Runs(q) == q.kind = "load" \/ (q.pc = "load" /\ q.then # "load")

(* The call q of c and its manager w agree.                                *)
Agree(c, q, w) ==
  /\ w.save = c <=> Flushes(q)
  /\ q.on # None => w.save = q.on
  /\ q.on # None <=> q.pc \in Waiting
  /\ Loads(q) => w.load # "none"
  /\ Runs(q) => w.load = "running"
  /\ q.pc = "awaitLoad" => w.save = None
  /\ q.kind = "load" /\ q.pc # "waitLoadSave" => w.save = None
  /\ q.then = "ready" => q.pc = "load" \/ q.kind = "load"
  /\ q.then = "load" =>
       /\ c \in Calls /\ "reload" \in Does[c]
       /\ \/ q.pc \in {"save", "waitSave", "awaitLoad", "take", "flushed", "load", "failed"}
          \/ q.kind \in {"flush", "load"}

Apart(q, r) == ~(q.pc = "awaitLoad" /\ r.pc = "awaitLoad") /\ ~(Loads(q) /\ Loads(r))

Tidy(m, w) ==
  /\ w.save # None => w.save \in Everyone /\ ManagerOf[w.save] = m
  /\ w.pending # <<>> => w.dirty

Alone ==
  /\ \A c \in Everyone : Agree(c, call[c], mgr[ManagerOf[c]])
  /\ \A c, d \in Everyone : c # d /\ ManagerOf[c] = ManagerOf[d] => Apart(call[c], call[d])
  /\ \A m \in Managers : Tidy(m, mgr[m])

(* A step of c that takes it to u and its manager to w.                    *)
LEMMA AloneStep ==
  ASSUME FInv, Alone, NEW c \in Everyone, NEW u \in CallSet, NEW w \in ManagerSet,
         call' = [call EXCEPT ![c] = u], mgr' = [mgr EXCEPT ![ManagerOf[c]] = w],
         Agree(c, u, w), Tidy(ManagerOf[c], w),
         \A d \in Everyone : d # c /\ ManagerOf[d] = ManagerOf[c] =>
            Agree(d, call[d], w) /\ Apart(u, call[d])
  PROVE  Alone'
<1>1. /\ \A d \in Everyone : call'[d] = IF d = c THEN u ELSE call[d]
      /\ \A m \in Managers : mgr'[m] = IF m = ManagerOf[c] THEN w ELSE mgr[m]
      /\ \A d \in Everyone : ManagerOf[d] \in Managers
  BY Now DEF FInv, DataOK
<1>2. \A d \in Everyone : Agree(d, call'[d], mgr'[ManagerOf[d]])
  BY <1>1 DEF Alone
<1>3. \A q, r : Apart(q, r) <=> Apart(r, q)
  BY DEF Apart
<1>4. \A d, e \in Everyone : d # e /\ ManagerOf[d] = ManagerOf[e] => Apart(call'[d], call'[e])
  BY <1>1, <1>3 DEF Alone
<1>5. \A m \in Managers : Tidy(m, mgr'[m])
  BY <1>1 DEF Alone
<1> QED
  BY <1>2, <1>4, <1>5 DEF Alone

(* The same when the save of the manager stays and a load of it begins, or *)
(* ends with the call that ran it.                                         *)
LEMMA AloneLocal ==
  ASSUME FInv, Alone, NEW c \in Everyone, NEW u \in CallSet, NEW w \in ManagerSet,
         call' = [call EXCEPT ![c] = u], mgr' = [mgr EXCEPT ![ManagerOf[c]] = w],
         Agree(c, u, w), w.pending # <<>> => w.dirty,
         w.save = mgr[ManagerOf[c]].save,
         w.load = mgr[ManagerOf[c]].load \/ w.load = "running" \/ (Loads(call[c]) /\ w.load # "none"),
         u.pc = "awaitLoad" =>
           \A d \in Everyone : d # c /\ ManagerOf[d] = ManagerOf[c] => call[d].pc # "awaitLoad",
         Loads(u) /\ ~Loads(call[c]) =>
           \A d \in Everyone : d # c /\ ManagerOf[d] = ManagerOf[c] => ~Loads(call[d])
  PROVE  Alone'
<1>1. Tidy(ManagerOf[c], w)
  BY Now DEF Alone, Tidy
<1>2. ASSUME NEW d \in Everyone, d # c, ManagerOf[d] = ManagerOf[c]
      PROVE  Agree(d, call[d], w) /\ Apart(u, call[d])
  <2>1. Agree(d, call[d], mgr[ManagerOf[c]]) /\ Apart(call[c], call[d])
    BY <1>2 DEF Alone
  <2>2. Runs(call[d]) => Loads(call[d])
    BY DEF Runs, Loads
  <2>3. Agree(d, call[d], w)
    BY <2>1, <2>2 DEF Agree, Apart
  <2>4. Apart(u, call[d])
    BY <1>2, <2>1 DEF Apart
  <2> QED
    BY <2>3, <2>4
<1> QED
  BY <1>1, <1>2, AloneStep

(* A step of c outside the path lock.                                      *)
LEMMA FInvLocal ==
  ASSUME FInv, NEW c \in Everyone, NEW u \in CallSet, NEW w \in ManagerSet,
         call' = [call EXCEPT ![c] = u], mgr' = [mgr EXCEPT ![ManagerOf[c]] = w],
         UNCHANGED <<file, holder, epoch>>, clock' \in 1..MaxClock, UNCHANGED <<faults, crashes>>,
         call[c].pc \notin InLock \cup {"error"}, u.pc \notin InLock, Fits(u)
  PROVE  FInv'
<1>1. mgr' \in [Managers -> ManagerSet]
  BY Now DEF FInv, DataOK
<1>2. holder # c /\ DataOK
  BY DEF FInv
<1> QED
  BY <1>1, <1>2, Moves DEF DataOK

LEMMA Same ==
  ASSUME FInv, NEW c \in Everyone
  PROVE  /\ mgr[ManagerOf[c]] \in ManagerSet
         /\ mgr = [mgr EXCEPT ![ManagerOf[c]] = mgr[ManagerOf[c]]]
         /\ Alone => /\ Agree(c, call[c], mgr[ManagerOf[c]]) /\ Tidy(ManagerOf[c], mgr[ManagerOf[c]])
                     /\ \A d \in Everyone : d # c /\ ManagerOf[d] = ManagerOf[c] =>
                          Apart(call[c], call[d]) /\ Agree(d, call[d], mgr[ManagerOf[c]])
BY Now DEF FInv, DataOK, Alone

-----------------------------------------------------------------------------
(* The steps outside the path lock                                         *)

LEMMA SaveKeeps ==
  ASSUME FInv, NEW c \in Everyone, Save(c)
  PROVE  FInv' /\ (Alone /\ ~Overtaking => Alone')
<1> DEFINE q == call[c]
           w == mgr[ManagerOf[c]]
<1>1. q \in CallSet /\ Fits(q) /\ q.pc = "save" /\ w \in ManagerSet /\ DataOK
  BY Now DEF Save, At, FInv
<1>2. q.kind = "none" /\ q.muts = <<>>
  BY <1>1 DEF Fits, Working, InLock
<1>3. mgr' = [mgr EXCEPT ![ManagerOf[c]] = w] /\ UNCHANGED <<file, holder, epoch, bounds>>
  BY Same DEF Save
<1>4. PICK l, o : l = (IF w.save # None THEN "waitSave" ELSE "awaitLoad")
                  /\ o = IF w.save # None THEN w.save ELSE q.on
  OBVIOUS
<1>5. PICK u : u = [q EXCEPT !.pc = l, !.on = o]
  OBVIOUS
<1>6. u \in CallSet /\ u = [q EXCEPT !.pc = l, !.on = o] /\ u.pc = l /\ u.on = o /\ u.kind = "none"
      /\ u.muts = <<>> /\ u.then = q.then
  BY <1>1, <1>2, <1>4, <1>5 DEF CallSet, Labels, ManagerSet
<1>7. call' = [call EXCEPT ![c] = u]
  <2>1. CASE w.save # None
    BY <1>1, <1>4, <1>5, <2>1 DEF Save, Me, DataOK
  <2>2. CASE w.save = None
    <3>1. u = [q EXCEPT !.pc = "awaitLoad"]
      BY <1>1, <1>4, <1>5, <2>2 DEF CallSet
    <3> QED
      BY <1>1, <2>2, <3>1 DEF Save, Me, DataOK, Goto
  <2> QED
    BY <2>1, <2>2
<1>8. Fits(u) /\ u.pc \notin InLock /\ q.pc \notin InLock \cup {"error"}
  BY <1>1, <1>4, <1>6 DEF Fits, Working, InLock, Persisting
<1>9. FInv'
  BY <1>1, <1>3, <1>6, <1>7, <1>8, FInvLocal DEF DataOK, bounds
<1>10. ASSUME Alone, ~Overtaking PROVE Alone'
  <2>1. Agree(c, q, w) /\ (w.pending # <<>> => w.dirty)
    BY <1>10, Same DEF Tidy
  <2>2. Agree(c, u, w)
    BY <1>1, <1>2, <1>4, <1>6, <2>1 DEF Agree, Flushes, Loads, Runs, Waiting
  <2>3. (Loads(u) <=> Loads(q))
    BY <1>1, <1>2, <1>4, <1>6 DEF Loads
  <2>4. u.pc = "awaitLoad" =>
          \A d \in Everyone : d # c /\ ManagerOf[d] = ManagerOf[c] => call[d].pc # "awaitLoad"
    BY <1>4, <1>6, <1>10 DEF Save, Me, At
  <2> HIDE DEF q, w
  <2> QED
    BY <1>1, <1>3, <1>6, <1>7, <1>10, <2>1, <2>2, <2>3, <2>4, AloneLocal DEF q, w
<1> QED
  BY <1>9, <1>10

LEMMA SaveAfterLoadKeeps ==
  ASSUME FInv, NEW c \in Everyone, SaveAfterLoad(c)
  PROVE  FInv' /\ (Alone => Alone')
<1> DEFINE q == call[c]
           w == mgr[ManagerOf[c]]
<1>1. /\ q \in CallSet /\ Fits(q) /\ q.pc = "awaitLoad" /\ w \in ManagerSet /\ DataOK
      /\ w.load # "running" /\ UNCHANGED <<file, holder, epoch, bounds>>
      /\ q.pc \notin InLock \cup {"error"}
  BY Now DEF SaveAfterLoad, At, FInv, Me, InLock
<1>2. q.kind = "none" /\ q.muts = <<>>
  BY <1>1 DEF Fits, Working, InLock
<1>3. CASE w.load = "failed"
  <2>1. PICK u : u = Fresh("failed")
    OBVIOUS
  <2>2. call' = [call EXCEPT ![c] = u] /\ mgr' = [mgr EXCEPT ![ManagerOf[c]] = w]
    BY <1>3, <2>1, Same DEF SaveAfterLoad, Me, End
  <2>3. u \in CallSet /\ Fits(u) /\ u.pc = "failed" /\ u.kind = "none" /\ u.then = "done" /\ u.on = None
    BY <2>1, NewCallOK DEF Over, Fresh, NewCall
  <2>4. u.pc \notin InLock
    BY <2>3 DEF InLock
  <2>5. FInv'
    BY <1>1, <2>2, <2>3, <2>4, FInvLocal DEF DataOK, bounds
  <2>6. ASSUME Alone PROVE Alone'
    <3>1. Agree(c, q, w) /\ (w.pending # <<>> => w.dirty)
      BY <2>6, Same DEF Tidy
    <3>2. Agree(c, u, w) /\ ~Loads(u)
      BY <1>1, <1>2, <2>3, <3>1 DEF Agree, Flushes, Loads, Runs, Waiting
    <3> QED
      BY <1>1, <2>2, <2>3, <2>6, <3>1, <3>2, AloneLocal
  <2> QED
    BY <2>5, <2>6
<1>4. CASE w.load # "failed" /\ ~w.dirty
  <2>1. PICK u : u = [Fresh(q.then) EXCEPT !.then = q.then]
    OBVIOUS
  <2>2. call' = [call EXCEPT ![c] = u] /\ mgr' = [mgr EXCEPT ![ManagerOf[c]] = w]
    BY <1>4, <2>1, Same DEF SaveAfterLoad, Me
  <2>3. /\ u \in CallSet /\ u.pc = q.then /\ u.kind = "none" /\ u.then = q.then /\ u.on = None
        /\ u.muts = <<>>
    BY <1>1, <2>1, NewCallOK DEF Fresh, NewCall, CallSet, Labels, Over
  <2>4. u.pc \notin InLock /\ Fits(u)
    BY <1>1, <2>3 DEF InLock, CallSet, Fits, Working, Persisting
  <2>5. FInv'
    BY <1>1, <2>2, <2>3, <2>4, FInvLocal DEF DataOK, bounds
  <2>6. ASSUME Alone PROVE Alone'
    <3>1. Agree(c, q, w) /\ (w.pending # <<>> => w.dirty)
      BY <2>6, Same DEF Tidy
    <3>2. Agree(c, u, w) /\ (Loads(u) => Loads(q)) /\ u.pc # "awaitLoad"
      BY <1>1, <1>2, <2>3, <3>1 DEF Agree, Flushes, Loads, Runs, Waiting, CallSet
    <3> QED
      BY <1>1, <2>2, <2>3, <2>6, <3>1, <3>2, AloneLocal
  <2> QED
    BY <2>5, <2>6
<1>5. CASE w.load # "failed" /\ w.dirty
  <2>1. PICK u, v : u = [q EXCEPT !.pc = "take"] /\ v = [w EXCEPT !.save = c]
    OBVIOUS
  <2>2. call' = [call EXCEPT ![c] = u] /\ mgr' = [mgr EXCEPT ![ManagerOf[c]] = v]
    BY <1>1, <1>5, <2>1 DEF SaveAfterLoad, Me, Goto, DataOK
  <2>3. /\ u \in CallSet /\ u.pc = "take" /\ u.kind = "none" /\ u.then = q.then /\ u.on = q.on
        /\ u.muts = <<>> /\ v \in ManagerSet
        /\ v.save = c /\ v.load = w.load /\ v.pending = w.pending /\ v.dirty
    BY <1>1, <1>2, <1>5, <2>1 DEF CallSet, Labels, ManagerSet
  <2>4. u.pc \notin InLock /\ Fits(u)
    BY <1>1, <2>3 DEF InLock, CallSet, Fits, Working, Persisting
  <2>5. FInv'
    BY <1>1, <2>2, <2>3, <2>4, FInvLocal DEF DataOK, bounds
  <2>6. ASSUME Alone PROVE Alone'
    <3>1. Agree(c, q, w) /\ w.save = None /\ c # None /\ q.on = None
      BY <1>1, <2>6, Same, Now DEF Agree, Waiting
    <3>2. Agree(c, u, v) /\ Loads(u) = Loads(q)
      BY <1>1, <1>2, <2>3, <3>1 DEF Agree, Flushes, Loads, Runs, Waiting, CallSet
    <3>3. Tidy(ManagerOf[c], v)
      BY <2>3 DEF Tidy
    <3>4. ASSUME NEW d \in Everyone, d # c, ManagerOf[d] = ManagerOf[c]
          PROVE  Agree(d, call[d], v) /\ Apart(u, call[d])
      <4>1. Apart(q, call[d]) /\ Agree(d, call[d], w) /\ d # None
        BY <2>6, <3>4, Same, Now
      <4>2. Apart(u, call[d])
        BY <2>3, <3>2, <4>1 DEF Apart
      <4>3. ~Flushes(call[d]) /\ call[d].pc # "awaitLoad" /\ call[d].kind # "load" /\ call[d].on = None
        BY <1>1, <3>1, <4>1 DEF Agree, Apart, Runs
      <4>4. Agree(d, call[d], v)
        BY <1>1, <2>3, <3>4, <4>1, <4>3 DEF Agree, Runs
      <4> QED
        BY <4>2, <4>4
    <3> QED
      BY <2>2, <2>3, <2>6, <3>2, <3>3, <3>4, AloneStep
  <2> QED
    BY <2>5, <2>6
<1> QED
  BY <1>3, <1>4, <1>5
LEMMA TakeKeeps ==
  ASSUME FInv, NEW c \in Everyone, Take(c)
  PROVE  FInv' /\ (Alone => Alone')
<1> DEFINE q == call[c]
           w == mgr[ManagerOf[c]]
<1>1. /\ q \in CallSet /\ Fits(q) /\ q.pc = "take" /\ w \in ManagerSet /\ DataOK
      /\ UNCHANGED <<file, holder, epoch, bounds>>
      /\ q.pc \notin InLock \cup {"error"}
  BY Now DEF Take, At, FInv, InLock
<1>2. q.kind \in {"none", "flush"} /\ q.muts = <<>>
  BY <1>1 DEF Fits, Working, InLock
<1>3. CASE w.dirty
  <2>1. PICK u, v : /\ u = [q EXCEPT !.muts = w.pending, !.kind = "flush",
                                   !.pc = IF w.pending = <<>> THEN "flushed" ELSE "lock"]
                    /\ v = [w EXCEPT !.pending = <<>>, !.dirty = FALSE]
    OBVIOUS
  <2>2. call' = [call EXCEPT ![c] = u] /\ mgr' = [mgr EXCEPT ![ManagerOf[c]] = v]
    BY <1>1, <1>3, <2>1, Now DEF Take, DataOK
  <2>3. <<>> \in Seq(Mutation)
    OBVIOUS
  <2>4. /\ u \in CallSet /\ u.pc = (IF w.pending = <<>> THEN "flushed" ELSE "lock")
        /\ u.kind = "flush" /\ u.then = q.then /\ u.on = q.on /\ u.muts = w.pending
        /\ v \in ManagerSet /\ v.save = w.save /\ v.load = w.load /\ v.pending = <<>>
    BY <1>1, <1>2, <1>3, <2>1, <2>3 DEF CallSet, Labels, ManagerSet
  <2>5. u.pc \notin InLock /\ Fits(u)
    BY <1>1, <2>4 DEF InLock, Fits, Working, Persisting
  <2>6. FInv'
    BY <1>1, <2>2, <2>4, <2>5, FInvLocal DEF DataOK, bounds
  <2>7. ASSUME Alone PROVE Alone'
    <3>1. Agree(c, q, w)
      BY <2>7, Same
    <3>2. Agree(c, u, v) /\ (Loads(u) => Loads(q)) /\ u.pc # "awaitLoad"
      BY <1>1, <1>2, <2>4, <3>1 DEF Agree, Flushes, Loads, Runs, Waiting, CallSet
    <3> QED
      BY <1>1, <2>2, <2>4, <2>7, <3>1, <3>2, AloneLocal
  <2> QED
    BY <2>6, <2>7
<1>4. CASE ~w.dirty
  <2>1. PICK u : u = [q EXCEPT !.pc = "flushed"]
    OBVIOUS
  <2>2. call' = [call EXCEPT ![c] = u] /\ mgr' = [mgr EXCEPT ![ManagerOf[c]] = w]
    BY <1>1, <1>4, <2>1, Same DEF Take, Goto, DataOK
  <2>3. /\ u \in CallSet /\ u.pc = "flushed" /\ u.kind = q.kind /\ u.then = q.then
        /\ u.on = q.on /\ u.muts = <<>>
    BY <1>1, <1>2, <2>1 DEF CallSet, Labels
  <2>4. u.pc \notin InLock /\ Fits(u)
    BY <1>1, <1>2, <2>3 DEF InLock, Fits, Working, Persisting
  <2>5. FInv'
    BY <1>1, <2>2, <2>3, <2>4, FInvLocal DEF DataOK, bounds
  <2>6. ASSUME Alone PROVE Alone'
    <3>1. Agree(c, q, w) /\ (w.pending # <<>> => w.dirty)
      BY <2>6, Same DEF Tidy
    <3>2. Agree(c, u, w) /\ (Loads(u) => Loads(q)) /\ u.pc # "awaitLoad"
      BY <1>1, <1>2, <2>3, <3>1 DEF Agree, Flushes, Loads, Runs, Waiting, CallSet
    <3> QED
      BY <1>1, <2>2, <2>3, <2>6, <3>1, <3>2, AloneLocal
  <2> QED
    BY <2>5, <2>6
<1> QED
  BY <1>3, <1>4

LEMMA LockKeeps ==
  ASSUME FInv, NEW c \in Everyone, Lock(c)
  PROVE  FInv' /\ (Alone => Alone')
<1> DEFINE q == call[c]
           w == mgr[ManagerOf[c]]
<1>1. /\ q \in CallSet /\ Fits(q) /\ q.pc = "lock" /\ w \in ManagerSet /\ DataOK
      /\ UNCHANGED <<file, epoch, mgr, clock, crashes>> /\ c # None
      /\ q.pc \notin InLock \cup {"error"} /\ holder # c
      /\ mgr' = [mgr EXCEPT ![ManagerOf[c]] = w]
  BY Now, Same DEF Lock, At, FInv, InLock
<1>2. q.kind # "none"
  BY <1>1 DEF Fits, Working
<1>3. PICK l : /\ l \in {"read", "error"} /\ Goto(c, l)
               /\ \/ l = "read" /\ holder = None /\ holder' = c /\ NoFault
                  \/ l = "error" /\ holder' = holder /\ Fault
  BY DEF Lock
<1>4. PICK u : u = [q EXCEPT !.pc = l]
  OBVIOUS
<1>5. call' = [call EXCEPT ![c] = u]
  BY <1>1, <1>3, <1>4 DEF Goto, DataOK
<1>6. /\ u \in CallSet /\ u.pc = l /\ u.kind = q.kind /\ u.then = q.then
      /\ u.on = q.on /\ u.muts = q.muts
  BY <1>1, <1>3, <1>4 DEF CallSet, Labels, InLock
<1>7. Fits(u) /\ (u.pc \in InLock <=> l = "read")
  BY <1>1, <1>2, <1>3, <1>6 DEF InLock, Fits, Working, Persisting
<1>8. Beside(u, file')
  BY <1>3, <1>6 DEF Beside
<1>9. faults' \in 0..MaxFaults
  BY <1>1, <1>3, CallAssumption DEF Fault, NoFault, DataOK
<1>10. FInv'
  BY <1>1, <1>3, <1>5, <1>6, <1>7, <1>8, <1>9, Moves DEF DataOK
<1>11. ASSUME Alone PROVE Alone'
  <2>1. Agree(c, q, w) /\ (w.pending # <<>> => w.dirty)
    BY <1>11, Same DEF Tidy
  <2>2. Agree(c, u, w) /\ (Loads(u) => Loads(q)) /\ u.pc # "awaitLoad"
    BY <1>1, <1>2, <1>3, <1>6, <2>1 DEF Agree, Flushes, Loads, Runs, Waiting, CallSet
  <2> QED
    BY <1>1, <1>5, <1>6, <1>11, <2>1, <2>2, AloneLocal
<1> QED
  BY <1>10, <1>11

LEMMA PublishKeeps ==
  ASSUME FInv, NEW c \in Everyone, Publish(c)
  PROVE  FInv' /\ (Alone => Alone')
<1> DEFINE q == call[c]
           w == mgr[ManagerOf[c]]
<1>1. /\ q \in CallSet /\ Fits(q) /\ q.pc = "publish" /\ w \in ManagerSet /\ DataOK
      /\ UNCHANGED <<file, holder, epoch, bounds>>
      /\ q.pc \notin InLock \cup {"error"}
  BY Now DEF Publish, At, FInv, InLock
<1>2. q.kind = "flush" /\ q.muts = <<>>
  BY <1>1 DEF Fits, Working, InLock
<1>3. PICK u, v : /\ u = [q EXCEPT !.pc = "take"]
                  /\ v = [w EXCEPT !.cache = Apply(q.snap, w.pending), !.observed = q.epoch]
  OBVIOUS
<1>4. call' = [call EXCEPT ![c] = u] /\ mgr' = [mgr EXCEPT ![ManagerOf[c]] = v]
  BY <1>1, <1>3, Now DEF Publish, Goto, DataOK
<1>5. Apply(q.snap, w.pending) \in Snapshot
  BY <1>1, ApplyType DEF CallSet, ManagerSet
<1>6. /\ u \in CallSet /\ u.pc = "take" /\ u.kind = "flush" /\ u.then = q.then /\ u.on = q.on
      /\ u.muts = <<>> /\ v \in ManagerSet /\ v.save = w.save /\ v.load = w.load
      /\ v.pending = w.pending /\ v.dirty = w.dirty
  BY <1>1, <1>2, <1>3, <1>5 DEF CallSet, Labels, ManagerSet
<1>7. u.pc \notin InLock /\ Fits(u)
  BY <1>1, <1>2, <1>6 DEF InLock, Fits, Working, Persisting
<1>8. FInv'
  BY <1>1, <1>4, <1>6, <1>7, FInvLocal DEF DataOK, bounds
<1>9. ASSUME Alone PROVE Alone'
  <2>1. Agree(c, q, w) /\ (w.pending # <<>> => w.dirty)
    BY <1>9, Same DEF Tidy
  <2>2. Agree(c, u, v) /\ (Loads(u) => Loads(q)) /\ u.pc # "awaitLoad"
    BY <1>1, <1>2, <1>6, <2>1 DEF Agree, Flushes, Loads, Runs, Waiting, CallSet
  <2> QED
    BY <1>1, <1>4, <1>6, <1>9, <2>1, <2>2, AloneLocal
<1> QED
  BY <1>8, <1>9

LEMMA StartLoadKeeps ==
  ASSUME FInv, NEW c \in Everyone, StartLoad(c)
  PROVE  FInv' /\ (Alone => Alone')
<1> DEFINE q == call[c]
           w == mgr[ManagerOf[c]]
<1>1. /\ q \in CallSet /\ Fits(q) /\ q.pc = "load" /\ w \in ManagerSet /\ DataOK
      /\ UNCHANGED <<file, holder, epoch, bounds>>
      /\ q.pc \notin InLock \cup {"error"}
  BY Now DEF StartLoad, At, FInv, InLock
<1>2. q.kind = "none" /\ q.muts = <<>>
  BY <1>1 DEF Fits, Working, InLock
<1>3. PICK u, v : /\ u = [q EXCEPT !.kind = "load", !.on = w.save,
                                 !.pc = IF w.save = None THEN "lock" ELSE "waitLoadSave"]
                  /\ v = [w EXCEPT !.load = "running"]
  OBVIOUS
<1>4. call' = [call EXCEPT ![c] = u] /\ mgr' = [mgr EXCEPT ![ManagerOf[c]] = v]
  BY <1>1, <1>3, Now DEF StartLoad, DataOK, Me
<1>6. /\ u \in CallSet /\ u.pc = (IF w.save = None THEN "lock" ELSE "waitLoadSave")
      /\ u.kind = "load" /\ u.then = q.then /\ u.on = w.save
      /\ u.muts = <<>> /\ v \in ManagerSet /\ v.save = w.save /\ v.load = "running"
      /\ v.pending = w.pending /\ v.dirty = w.dirty
  BY <1>1, <1>2, <1>3 DEF CallSet, Labels, ManagerSet
<1>7. u.pc \notin InLock /\ Fits(u)
  BY <1>6 DEF InLock, Fits, Working, Persisting
<1>8. FInv'
  BY <1>1, <1>4, <1>6, <1>7, FInvLocal DEF DataOK, bounds
<1>9. ASSUME Alone PROVE Alone'
  <2>1. Agree(c, q, w) /\ (w.pending # <<>> => w.dirty)
    BY <1>9, Same DEF Tidy
  <2>2. Agree(c, u, v) /\ Loads(q) /\ u.pc # "awaitLoad"
    BY <1>1, <1>2, <1>6, <2>1 DEF Agree, Flushes, Loads, Runs, Waiting, CallSet
  <2> QED
    BY <1>1, <1>4, <1>6, <1>9, <2>1, <2>2, AloneLocal
<1> QED
  BY <1>8, <1>9

LEMMA LoadedKeeps ==
  ASSUME FInv, NEW c \in Everyone, Loaded(c)
  PROVE  FInv' /\ (Alone => Alone')
<1> DEFINE q == call[c]
           w == mgr[ManagerOf[c]]
<1>1. /\ q \in CallSet /\ Fits(q) /\ q.pc = "loaded" /\ w \in ManagerSet /\ DataOK
      /\ UNCHANGED <<file, holder, epoch, bounds>>
      /\ q.pc \notin InLock \cup {"error"}
  BY Now DEF Loaded, At, FInv, InLock
<1>2. q.kind = "load" /\ q.muts = <<>>
  BY <1>1 DEF Fits, Working, InLock
<1>3. PICK l, u, v : /\ l = (IF q.then = "load" THEN "done" ELSE q.then)
                     /\ u = Fresh(l)
                     /\ v = [w EXCEPT !.cache = Apply(q.snap, w.pending), !.dirty = w.pending # <<>>,
                                    !.observed = q.epoch, !.load = "ok"]
  OBVIOUS
<1>4. call' = [call EXCEPT ![c] = u] /\ mgr' = [mgr EXCEPT ![ManagerOf[c]] = v]
  BY <1>1, <1>3, Now DEF Loaded, End, DataOK
<1>5. Apply(q.snap, w.pending) \in Snapshot /\ l \in Over
  BY <1>1, <1>3, ApplyType DEF CallSet, ManagerSet, Over
<1>6. /\ u \in CallSet /\ u.pc = l /\ u.kind = "none" /\ u.then = "done" /\ u.on = None
      /\ Fits(u) /\ u.pc \notin InLock
      /\ v \in ManagerSet /\ v.save = w.save /\ v.load = "ok"
      /\ v.pending = w.pending /\ v.dirty = (w.pending # <<>>)
  BY <1>1, <1>2, <1>3, <1>5, NewCallOK DEF ManagerSet, Fresh, NewCall, CallSet, Over, InLock
<1>8. FInv'
  BY <1>1, <1>4, <1>6, FInvLocal DEF DataOK, bounds
<1>9. ASSUME Alone PROVE Alone'
  <2>1. Agree(c, q, w) /\ Loads(q)
    BY <1>2, <1>9, Same DEF Loads
  <2>2. Agree(c, u, v) /\ ~Loads(u) /\ u.pc # "awaitLoad"
    BY <1>1, <1>2, <1>5, <1>6, <2>1 DEF Agree, Flushes, Loads, Runs, Waiting, Over
  <2> QED
    BY <1>1, <1>4, <1>6, <1>9, <2>1, <2>2, AloneLocal
<1> QED
  BY <1>8, <1>9
LEMMA LatestKeeps ==
  ASSUME FInv, NEW c \in Everyone, Latest(c)
  PROVE  FInv' /\ (Alone => Alone')
<1> DEFINE q == call[c]
           w == mgr[ManagerOf[c]]
<1>1. /\ q \in CallSet /\ Fits(q) /\ q.pc = "latest" /\ w \in ManagerSet /\ DataOK
      /\ UNCHANGED <<file, holder, epoch, mgr, bounds>>
      /\ q.pc \notin InLock \cup {"error"} /\ mgr' = [mgr EXCEPT ![ManagerOf[c]] = w]
  BY Now, Same DEF Latest, At, FInv, InLock
<1>2. q.kind = "none" /\ q.muts = <<>>
  BY <1>1 DEF Fits, Working, InLock
<1>3. CASE w.load = "failed" \/ (w.save = None /\ w.observed = epoch)
  <2>1. PICK l, u : l = (IF w.load = "failed" THEN "failed" ELSE "done") /\ u = Fresh(l)
    OBVIOUS
  <2>2. call' = [call EXCEPT ![c] = u]
    BY <1>3, <2>1 DEF Latest, Me, End
  <2>3. /\ u \in CallSet /\ Fits(u) /\ u.pc = l /\ u.kind = "none" /\ u.then = "done"
        /\ u.on = None /\ l \in {"failed", "done"} /\ u.pc \notin InLock
    BY <2>1, NewCallOK DEF Over, Fresh, NewCall, InLock
  <2>5. FInv'
    BY <1>1, <2>2, <2>3, FInvLocal DEF DataOK, bounds
  <2>6. ASSUME Alone PROVE Alone'
    <3>1. Agree(c, q, w) /\ (w.pending # <<>> => w.dirty)
      BY <2>6, Same DEF Tidy
    <3>2. Agree(c, u, w) /\ ~Loads(u) /\ u.pc # "awaitLoad"
      BY <1>1, <1>2, <2>3, <3>1 DEF Agree, Flushes, Loads, Runs, Waiting
    <3> QED
      BY <1>1, <2>2, <2>3, <2>6, <3>1, <3>2, AloneLocal
  <2> QED
    BY <2>5, <2>6
<1>4. CASE w.load # "failed" /\ (w.save # None \/ w.observed # epoch)
  <2>1. PICK l, k, o : /\ l = (IF w.save # None THEN "waitSave2" ELSE "lock")
                       /\ k = (IF w.save # None THEN "none" ELSE "refresh")
                       /\ o = (IF w.save # None THEN w.save ELSE q.on)
    OBVIOUS
  <2>2. PICK u : u = [q EXCEPT !.pc = l, !.kind = k, !.on = o]
    OBVIOUS
  <2>3. /\ u \in CallSet /\ u.pc = l /\ u.kind = k /\ u.then = q.then /\ u.on = o /\ u.muts = <<>>
    BY <1>1, <1>2, <2>1, <2>2 DEF CallSet, Labels, ManagerSet
  <2>4. call' = [call EXCEPT ![c] = u]
    <3>1. CASE w.save # None
      <4>1. u = [q EXCEPT !.pc = "waitSave2", !.on = w.save]
        BY <1>1, <1>2, <2>1, <2>2, <3>1 DEF CallSet
      <4> QED
        BY <1>1, <1>4, <3>1, <4>1 DEF Latest, Me, DataOK
    <3>2. CASE w.save = None
      <4>1. u = [q EXCEPT !.kind = "refresh", !.pc = "lock"]
        BY <1>1, <1>2, <2>1, <2>2, <3>2 DEF CallSet
      <4> QED
        BY <1>1, <1>4, <3>2, <4>1 DEF Latest, Me, DataOK
    <3> QED
      BY <3>1, <3>2
  <2>5. u.pc \notin InLock /\ Fits(u)
    BY <1>1, <1>2, <2>1, <2>3 DEF InLock, Fits, Working, Persisting
  <2>6. FInv'
    BY <1>1, <2>3, <2>4, <2>5, FInvLocal DEF DataOK, bounds
  <2>7. ASSUME Alone PROVE Alone'
    <3>1. Agree(c, q, w) /\ (w.pending # <<>> => w.dirty)
      BY <2>7, Same DEF Tidy
    <3>2. Agree(c, u, w) /\ (Loads(u) => Loads(q)) /\ u.pc # "awaitLoad"
      BY <1>1, <1>2, <2>1, <2>3, <3>1 DEF Agree, Flushes, Loads, Runs, Waiting
    <3> QED
      BY <1>1, <2>3, <2>4, <2>7, <3>1, <3>2, AloneLocal
  <2> QED
    BY <2>6, <2>7
<1> QED
  BY <1>3, <1>4

LEMMA RefreshKeeps ==
  ASSUME FInv, NEW c \in Everyone, Refresh(c)
  PROVE  FInv' /\ (Alone => Alone')
<1> DEFINE q == call[c]
           w == mgr[ManagerOf[c]]
<1>1. /\ q \in CallSet /\ Fits(q) /\ q.pc = "refresh" /\ w \in ManagerSet /\ DataOK
      /\ UNCHANGED <<file, holder, epoch, bounds>>
      /\ q.pc \notin InLock \cup {"error"}
  BY Now DEF Refresh, At, FInv, InLock
<1>2. q.kind = "none" /\ q.muts = <<>>
  BY <1>1 DEF Fits, Working, InLock
<1>3. CASE w.save # None \/ q.epoch # epoch
  <2>1. PICK l, o : /\ l = (IF w.save # None THEN "waitSave2" ELSE "latest")
                    /\ o = (IF w.save # None THEN w.save ELSE q.on)
    OBVIOUS
  <2>2. PICK u : u = [q EXCEPT !.pc = l, !.on = o]
    OBVIOUS
  <2>3. /\ u \in CallSet /\ u.pc = l /\ u.kind = "none" /\ u.then = q.then /\ u.on = o
        /\ u.muts = <<>>
    BY <1>1, <1>2, <2>1, <2>2 DEF CallSet, Labels, ManagerSet
  <2>4. call' = [call EXCEPT ![c] = u] /\ mgr' = [mgr EXCEPT ![ManagerOf[c]] = w]
    <3>1. CASE w.save # None
      <4>1. u = [q EXCEPT !.pc = "waitSave2", !.on = w.save]
        BY <1>1, <1>2, <2>1, <2>2, <3>1 DEF CallSet
      <4> QED
        BY <1>1, <3>1, <4>1, Same DEF Refresh, DataOK
    <3>2. CASE w.save = None
      <4>1. u = [q EXCEPT !.pc = "latest"]
        BY <1>1, <1>2, <2>1, <2>2, <3>2 DEF CallSet
      <4> QED
        BY <1>1, <1>3, <3>2, <4>1, Same DEF Refresh, DataOK, Goto
    <3> QED
      BY <3>1, <3>2
  <2>5. u.pc \notin InLock /\ Fits(u)
    BY <1>1, <1>2, <2>1, <2>3 DEF InLock, Fits, Working, Persisting
  <2>6. FInv'
    BY <1>1, <2>3, <2>4, <2>5, FInvLocal DEF DataOK, bounds
  <2>7. ASSUME Alone PROVE Alone'
    <3>1. Agree(c, q, w) /\ (w.pending # <<>> => w.dirty)
      BY <2>7, Same DEF Tidy
    <3>2. Agree(c, u, w) /\ (Loads(u) => Loads(q)) /\ u.pc # "awaitLoad"
      BY <1>1, <1>2, <2>1, <2>3, <3>1 DEF Agree, Flushes, Loads, Runs, Waiting
    <3> QED
      BY <1>1, <2>3, <2>4, <2>7, <3>1, <3>2, AloneLocal
  <2> QED
    BY <2>6, <2>7
<1>4. CASE w.save = None /\ q.epoch = epoch
  <2>1. PICK u, v : /\ u = Fresh("done")
                    /\ v = [w EXCEPT !.cache = Apply(q.snap, w.pending),
                                   !.dirty = w.pending # <<>>, !.observed = q.epoch]
    OBVIOUS
  <2>2. call' = [call EXCEPT ![c] = u] /\ mgr' = [mgr EXCEPT ![ManagerOf[c]] = v]
    BY <1>1, <1>4, <2>1, Now DEF Refresh, End, DataOK
  <2>3. Apply(q.snap, w.pending) \in Snapshot
    BY <1>1, ApplyType DEF CallSet, ManagerSet
  <2>4. /\ u \in CallSet /\ Fits(u) /\ u.pc = "done" /\ u.kind = "none" /\ u.then = "done"
        /\ u.on = None /\ u.pc \notin InLock
        /\ v \in ManagerSet /\ v.save = w.save /\ v.load = w.load
        /\ v.pending = w.pending /\ v.dirty = (w.pending # <<>>)
    BY <1>1, <2>1, <2>3, NewCallOK DEF Over, Fresh, NewCall, InLock, CallSet, ManagerSet
  <2>5. FInv'
    BY <1>1, <2>2, <2>4, FInvLocal DEF DataOK, bounds
  <2>6. ASSUME Alone PROVE Alone'
    <3>1. Agree(c, q, w)
      BY <2>6, Same
    <3>2. Agree(c, u, v) /\ ~Loads(u) /\ u.pc # "awaitLoad"
      BY <1>1, <1>2, <2>4, <3>1 DEF Agree, Flushes, Loads, Runs, Waiting
    <3> QED
      BY <1>1, <2>2, <2>4, <2>6, <3>2, AloneLocal
  <2> QED
    BY <2>5, <2>6
<1> QED
  BY <1>3, <1>4

LEMMA StartUpKeeps ==
  ASSUME FInv, NEW c \in Everyone, StartUp(c)
  PROVE  FInv' /\ (Alone => Alone')
<1> DEFINE q == call[c]
           w == mgr[ManagerOf[c]]
<1>1. /\ q \in CallSet /\ Fits(q) /\ q.pc = "ready" /\ w \in ManagerSet /\ DataOK
      /\ UNCHANGED <<file, holder, epoch, bounds>> /\ w.load = "none"
      /\ q.pc \notin InLock \cup {"error"}
  BY Now DEF StartUp, At, FInv, InLock, Me
<1>2. q.kind = "none" /\ q.muts = <<>>
  BY <1>1 DEF Fits, Working, InLock
<1>3. PICK u, v : u = [q EXCEPT !.pc = "load", !.then = "ready"] /\ v = [w EXCEPT !.load = "running"]
  OBVIOUS
<1>4. call' = [call EXCEPT ![c] = u] /\ mgr' = [mgr EXCEPT ![ManagerOf[c]] = v]
  BY <1>1, <1>3, Now DEF StartUp, DataOK
<1>6. /\ u \in CallSet /\ u.pc = "load" /\ u.kind = "none" /\ u.then = "ready" /\ u.on = q.on
      /\ u.muts = <<>> /\ v \in ManagerSet /\ v.save = w.save /\ v.load = "running"
      /\ v.pending = w.pending /\ v.dirty = w.dirty
  BY <1>1, <1>2, <1>3 DEF CallSet, Labels, ManagerSet
<1>7. u.pc \notin InLock /\ Fits(u)
  BY <1>1, <1>2, <1>6 DEF InLock, Fits, Working, Persisting
<1>8. FInv'
  BY <1>1, <1>4, <1>6, <1>7, FInvLocal DEF DataOK, bounds
<1>9. ASSUME Alone PROVE Alone'
  <2>1. Agree(c, q, w) /\ (w.pending # <<>> => w.dirty)
    BY <1>9, Same DEF Tidy
  <2>2. Agree(c, u, v) /\ u.pc # "awaitLoad"
    BY <1>1, <1>2, <1>6, <2>1 DEF Agree, Flushes, Loads, Runs, Waiting, CallSet
  <2>3. \A d \in Everyone : d # c /\ ManagerOf[d] = ManagerOf[c] => ~Loads(call[d])
    BY <1>1, <1>9, Same DEF Agree
  <2> QED
    BY <1>1, <1>4, <1>6, <1>9, <2>1, <2>2, <2>3, AloneLocal
<1> QED
  BY <1>8, <1>9

(* What a client does to the memory is what its mutation does to it.       *)
LEMMA MutateIs ==
  ASSUME FInv, NEW c \in Everyone, NEW t \in Tables, NEW drop \in BOOLEAN, Mutate(c, t, drop)
  PROVE  \E mu \in Mutation, v \in ManagerSet :
            /\ mgr' = [mgr EXCEPT ![ManagerOf[c]] = v]
            /\ v.pending = Append(mgr[ManagerOf[c]].pending, mu)
            /\ v.cache = ApplyOne(mgr[ManagerOf[c]].cache, mu)
            /\ v.dirty /\ v.save = mgr[ManagerOf[c]].save /\ v.load = mgr[ManagerOf[c]].load
            /\ v.observed = mgr[ManagerOf[c]].observed /\ v.late = mgr[ManagerOf[c]].late
<1> DEFINE w == mgr[ManagerOf[c]]
<1>1. w \in ManagerSet /\ DataOK /\ clock < MaxClock /\ clock \in 1..MaxClock /\ clock' = clock + 1
  BY Now DEF FInv, DataOK, Mutate
<1>2. MaxClock \in Nat /\ clock + 1 \in 1..MaxClock
  BY <1>1, CallAssumption
<1>3. PICK s : s = w.cache
  OBVIOUS
<1>4. s \in Snapshot /\ s[t] \in Record \cup {None} /\ s = [x \in Tables |-> s[x]]
  BY <1>1, <1>3 DEF Snapshot, ManagerSet
<1>5. PICK born : born = IF s[t] = None THEN 0 ELSE s[t].created
  OBVIOUS
<1>6. born \in 0..MaxClock
  BY <1>2, <1>4, <1>5 DEF Record
<1>7. PICK ty, va, mu :
        /\ ty = (CASE drop -> "delete" [] ~drop /\ s[t] = None -> "upsert" [] OTHER -> "update")
        /\ va = (IF drop THEN 0 ELSE clock + 1)
        /\ mu = [type |-> ty, table |-> t, val |-> va, created |-> born]
  OBVIOUS
<1>8. mu \in Mutation /\ mu.type = ty /\ mu.table = t /\ mu.val = va /\ mu.created = born
  BY <1>2, <1>6, <1>7 DEF Mutation
<1>9. PICK r : r = IF drop THEN None
                   ELSE [created |-> IF s[t] = None THEN clock + 1 ELSE s[t].created, val |-> clock + 1]
  OBVIOUS
<1>10. PICK e : e = [s EXCEPT ![t] = r]
  OBVIOUS
<1>11. r \in Record \cup {None} /\ e \in Snapshot
  <2>1. r \in Record \cup {None}
    BY <1>2, <1>4, <1>9 DEF Record
  <2> QED
    BY <1>4, <1>10, <2>1 DEF Snapshot
<1>12. PICK v : v = [w EXCEPT !.pending = Append(@, mu), !.dirty = TRUE, !.timer = TRUE, !.cache = e]
  OBVIOUS
<1>13. /\ v \in ManagerSet /\ v.pending = Append(w.pending, mu) /\ v.cache = e /\ v.dirty
       /\ v.save = w.save /\ v.load = w.load /\ v.observed = w.observed /\ v.late = w.late
  <2>1. w.pending \in Seq(Mutation) /\ Append(w.pending, mu) \in Seq(Mutation)
    BY <1>1, <1>8 DEF ManagerSet
  <2> QED
    BY <1>1, <1>11, <1>12, <2>1 DEF ManagerSet
<1>14. mgr' = [mgr EXCEPT ![ManagerOf[c]] = v]
  <2>1. PICK m : m = ManagerOf[c] /\ m \in Managers
    BY Now
  <2>2. mgr' = [mgr EXCEPT ![m].pending = Append(@, mu), ![m].dirty = TRUE, ![m].timer = TRUE,
                          ![m].cache[t] = r]
    <3>1. /\ mgr[m].cache[t] = s[t] /\ (s[t] = None => born = 0) /\ (s[t] # None => born = s[t].created)
      BY <1>3, <1>5, <2>1
    <3> QED
      BY <1>7, <1>9, <2>1, <3>1 DEF Mutate
  <2>3. /\ mgr[m] = w /\ mgr = [n \in Managers |-> mgr[n]] /\ w.cache = s
    BY <1>1, <1>3, <2>1 DEF DataOK
  <2> HIDE DEF w
  <2> QED
    BY <1>1, <1>10, <1>12, <2>1, <2>2, <2>3 DEF DataOK, ManagerSet
<1>15. e = ApplyOne(s, mu)
  <2>1. CASE drop
    <3>1. ty = "delete" /\ r = None
      BY <1>7, <1>9, <2>1
    <3>2. CASE s[t] = None
      <4>1. e = s
        BY <1>4, <1>10, <3>1, <3>2
      <4> QED
        BY <1>8, <3>1, <3>2, <4>1 DEF ApplyOne
    <3>3. CASE s[t] # None
      BY <1>5, <1>8, <1>10, <3>1, <3>3 DEF ApplyOne
    <3> QED
      BY <3>2, <3>3
  <2>2. CASE ~drop /\ s[t] = None
    <3>1. /\ ty = "upsert" /\ r = [created |-> clock + 1, val |-> clock + 1] /\ va = clock + 1
      BY <1>7, <1>9, <2>2
    <3> QED
      BY <1>8, <1>10, <2>2, <3>1 DEF ApplyOne
  <2>3. CASE ~drop /\ s[t] # None
    <3>1. /\ ty = "update" /\ r = [created |-> s[t].created, val |-> clock + 1] /\ va = clock + 1
      BY <1>7, <1>9, <2>3
    <3>2. s[t] \in Record
      BY <1>4, <2>3
    <3>3. r = [s[t] EXCEPT !.val = clock + 1]
      BY <3>1, <3>2 DEF Record
    <3>4. ApplyOne(s, mu) = [s EXCEPT ![t].val = va]
      BY <1>5, <1>8, <2>3, <3>1 DEF ApplyOne
    <3> QED
      BY <1>4, <1>10, <3>1, <3>3, <3>4
  <2> QED
    BY <2>1, <2>2, <2>3
<1> QED
  BY <1>3, <1>8, <1>13, <1>14, <1>15

LEMMA MutateKeeps ==
  ASSUME FInv, NEW c \in Everyone, NEW t \in Tables, NEW drop \in BOOLEAN, Mutate(c, t, drop)
  PROVE  FInv' /\ (Alone => Alone')
<1> DEFINE q == call[c]
           w == mgr[ManagerOf[c]]
<1>1. /\ q \in CallSet /\ Fits(q) /\ q.pc = "ready" /\ w \in ManagerSet /\ DataOK
      /\ UNCHANGED <<file, holder, epoch, faults, crashes>> /\ Goto(c, "mutated")
      /\ q.pc \notin InLock \cup {"error"} /\ clock < MaxClock /\ clock' = clock + 1
  BY Now DEF Mutate, Ready, At, FInv, InLock
<1>2. q.kind = "none" /\ q.muts = <<>> /\ clock' \in 1..MaxClock
  BY <1>1, CallAssumption DEF Fits, Working, InLock, DataOK
<1>3. PICK u : u = [q EXCEPT !.pc = "mutated"]
  OBVIOUS
<1>4. PICK v \in ManagerSet : /\ mgr' = [mgr EXCEPT ![ManagerOf[c]] = v] /\ v.dirty
                              /\ v.save = w.save /\ v.load = w.load
  BY MutateIs
<1>5. call' = [call EXCEPT ![c] = u]
  BY <1>1, <1>3 DEF Goto, DataOK
<1>6. /\ u \in CallSet /\ u.pc = "mutated" /\ u.kind = "none" /\ u.then = q.then /\ u.on = q.on
      /\ u.muts = <<>>
  BY <1>1, <1>2, <1>3 DEF CallSet, Labels
<1>7. u.pc \notin InLock /\ Fits(u)
  BY <1>1, <1>2, <1>6 DEF InLock, Fits, Working, Persisting
<1>8. FInv'
  BY <1>1, <1>2, <1>4, <1>5, <1>6, <1>7, FInvLocal
<1>9. ASSUME Alone PROVE Alone'
  <2>1. Agree(c, q, w)
    BY <1>9, Same
  <2>2. Agree(c, u, v) /\ u.pc # "awaitLoad" /\ (Loads(u) => Loads(q))
    BY <1>1, <1>2, <1>4, <1>6, <2>1 DEF Agree, Flushes, Loads, Runs, Waiting, CallSet
  <2> QED
    BY <1>1, <1>4, <1>5, <1>6, <1>9, <2>1, <2>2, AloneLocal
<1> QED
  BY <1>8, <1>9

(* A step to l that changes no more of the manager than its timer.         *)
LEMMA GotoKeeps ==
  ASSUME FInv, NEW c \in Everyone, call[c].pc \in {"ready", "mutated"},
         NEW l \in {"save", "latest"}, NEW th \in {"done", "ready", "load"}, NEW b \in BOOLEAN,
         call' = [call EXCEPT ![c].pc = l, ![c].then = th],
         mgr' = [mgr EXCEPT ![ManagerOf[c]].timer = b], UNCHANGED <<file, holder, epoch, bounds>>,
         th # "load" => th = call[c].then,
         th = "load" => \/ call[c].then = "load"
                        \/ l = "save" /\ c \in Calls /\ "reload" \in Does[c]
                           /\ mgr[ManagerOf[c]].load = "ok"
  PROVE  FInv' /\ (Alone => Alone')
<1> DEFINE q == call[c]
           w == mgr[ManagerOf[c]]
<1>1. /\ q \in CallSet /\ Fits(q) /\ w \in ManagerSet /\ DataOK
      /\ q.pc \notin InLock \cup {"error"}
  BY Now DEF FInv, InLock
<1>2. q.kind = "none" /\ q.muts = <<>>
  BY <1>1 DEF Fits, Working, InLock
<1>3. PICK u, v : u = [q EXCEPT !.pc = l, !.then = th] /\ v = [w EXCEPT !.timer = b]
  OBVIOUS
<1>4. call' = [call EXCEPT ![c] = u] /\ mgr' = [mgr EXCEPT ![ManagerOf[c]] = v]
  BY <1>1, <1>3, Now DEF DataOK
<1>5. /\ u \in CallSet /\ u.pc = l /\ u.kind = "none" /\ u.then = th /\ u.on = q.on
      /\ u.muts = <<>> /\ v \in ManagerSet /\ v.save = w.save /\ v.load = w.load
      /\ v.pending = w.pending /\ v.dirty = w.dirty
  BY <1>1, <1>2, <1>3 DEF CallSet, Labels, ManagerSet
<1>6. u.pc \notin InLock /\ Fits(u)
  BY <1>1, <1>2, <1>5 DEF InLock, Fits, Working, Persisting
<1>7. FInv'
  BY <1>1, <1>4, <1>5, <1>6, FInvLocal DEF DataOK, bounds
<1>8. ASSUME Alone PROVE Alone'
  <2>1. Agree(c, q, w) /\ (w.pending # <<>> => w.dirty) /\ q.on = None /\ q.then = "done"
    BY <1>1, <1>2, <1>8, Same DEF Tidy, Agree, Waiting, CallSet
  <2>2. Agree(c, u, v) /\ u.pc # "awaitLoad"
    BY <1>1, <1>2, <1>5, <2>1 DEF Agree, Flushes, Loads, Runs, Waiting, CallSet
  <2>3. ASSUME Loads(u), NEW d \in Everyone, d # c, ManagerOf[d] = ManagerOf[c] PROVE ~Loads(call[d])
    <3>1. th = "load" /\ c \in Calls /\ "reload" \in Does[c] /\ w.load = "ok"
      BY <1>5, <2>1, <2>3 DEF Loads
    <3>2. Agree(d, call[d], w)
      BY <1>8, <2>3, Same
    <3>3. call[d].then # "load"
      BY <2>3, <3>1, <3>2, CallAssumption DEF Agree
    <3>4. ~Runs(call[d])
      BY <3>1, <3>2 DEF Agree
    <3> QED
      BY <3>3, <3>4 DEF Runs, Loads
  <2> QED
    BY <1>1, <1>4, <1>5, <1>8, <2>1, <2>2, <2>3, AloneLocal
<1> QED
  BY <1>7, <1>8

LEMMA SaveImmediatelyKeeps ==
  ASSUME FInv, NEW c \in Everyone, SaveImmediately(c)
  PROVE  FInv' /\ (Alone => Alone')
<1>1. call[c] \in CallSet /\ DataOK /\ call[c].then \in {"done", "ready", "load"}
  BY Now DEF FInv, CallSet
<1>2. call' = [call EXCEPT ![c].pc = "save", ![c].then = call[c].then]
  BY <1>1 DEF SaveImmediately, Goto, DataOK, CallSet
<1> QED
  BY <1>1, <1>2, GotoKeeps DEF SaveImmediately, At

LEMMA BeginLatestKeeps ==
  ASSUME FInv, NEW c \in Everyone, BeginLatest(c)
  PROVE  FInv' /\ (Alone => Alone')
<1>1. /\ call[c] \in CallSet /\ DataOK /\ call[c].then \in {"done", "ready", "load"}
      /\ mgr[ManagerOf[c]] \in ManagerSet /\ mgr[ManagerOf[c]].timer \in BOOLEAN
  BY Now DEF FInv, CallSet, ManagerSet
<1>2. call' = [call EXCEPT ![c].pc = "latest", ![c].then = call[c].then]
  BY <1>1 DEF BeginLatest, Goto, DataOK, CallSet
<1>3. mgr' = [mgr EXCEPT ![ManagerOf[c]].timer = mgr[ManagerOf[c]].timer]
  BY <1>1 DEF BeginLatest, DataOK, ManagerSet
<1> QED
  BY <1>1, <1>2, <1>3, GotoKeeps DEF BeginLatest, Ready, At

LEMMA BeginReloadKeeps ==
  ASSUME FInv, NEW c \in Everyone, BeginReload(c)
  PROVE  FInv' /\ (Alone => Alone')
<1>1. call' = [call EXCEPT ![c].pc = "save", ![c].then = "load"]
  BY DEF BeginReload
<1> QED
  BY <1>1, GotoKeeps DEF BeginReload, Ready, At, Me

LEMMA TimerFiresKeeps ==
  ASSUME FInv, NEW c \in Everyone, TimerFires(c)
  PROVE  FInv' /\ (Alone => Alone')
<1> DEFINE q == call[c]
           w == mgr[ManagerOf[c]]
<1>1. /\ q \in CallSet /\ Fits(q) /\ w \in ManagerSet /\ DataOK /\ q.pc \in Over
      /\ q.pc \notin InLock \cup {"error"} /\ UNCHANGED <<file, holder, epoch, bounds>>
  BY Now DEF FInv, InLock, TimerFires, Over
<1>2. q.kind = "none" /\ q.muts = <<>>
  BY <1>1 DEF Fits, Working, InLock, Over
<1>3. PICK u, v : u = Fresh("save") /\ v = [w EXCEPT !.timer = FALSE]
  OBVIOUS
<1>4. call' = [call EXCEPT ![c] = u] /\ mgr' = [mgr EXCEPT ![ManagerOf[c]] = v]
  BY <1>1, <1>3, Now DEF DataOK, TimerFires
<1>5. /\ u \in CallSet /\ u.pc = "save" /\ u.kind = "none" /\ u.then = "done" /\ u.on = None
      /\ u.muts = <<>> /\ v \in ManagerSet /\ v.save = w.save /\ v.load = w.load
      /\ v.pending = w.pending /\ v.dirty = w.dirty
  BY <1>1, <1>2, <1>3, NewCallOK DEF CallSet, Labels, ManagerSet, Fresh, NewCall
<1>6. u.pc \notin InLock /\ Fits(u)
  BY <1>5 DEF InLock, Fits, Working, Persisting
<1>7. FInv'
  BY <1>1, <1>4, <1>5, <1>6, FInvLocal DEF DataOK, bounds
<1>8. ASSUME Alone PROVE Alone'
  <2>1. Agree(c, q, w) /\ (w.pending # <<>> => w.dirty)
    BY <1>8, Same DEF Tidy
  <2>2. Agree(c, u, v) /\ u.pc # "awaitLoad" /\ ~Loads(u)
    BY <1>1, <1>2, <1>5, <2>1 DEF Agree, Flushes, Loads, Runs, Waiting, CallSet, Over
  <2> QED
    BY <1>1, <1>4, <1>5, <1>8, <2>1, <2>2, AloneLocal
<1> QED
  BY <1>7, <1>8

-----------------------------------------------------------------------------
(* The steps under the path lock, and the promises                         *)

(* A step of a flush, a load or a refresh that changes neither its kind    *)
(* nor what its manager says of saves and loads.                           *)
LEMMA AloneWorking ==
  ASSUME FInv, Alone, NEW c \in Everyone, NEW u \in CallSet, NEW w \in ManagerSet,
         call' = [call EXCEPT ![c] = u], mgr' = [mgr EXCEPT ![ManagerOf[c]] = w],
         call[c].pc \in Working, u.pc \in Working \cup {"publish", "loaded"},
         u.kind = call[c].kind, u.then = call[c].then, u.on = call[c].on,
         w.save = mgr[ManagerOf[c]].save, w.load = mgr[ManagerOf[c]].load,
         w.pending = mgr[ManagerOf[c]].pending, w.dirty = mgr[ManagerOf[c]].dirty
  PROVE  Alone'
<1> DEFINE q == call[c]
           v == mgr[ManagerOf[c]]
<1>1. Agree(c, q, v) /\ (v.pending # <<>> => v.dirty) /\ Fits(q)
  BY Now, Same DEF Tidy
<1>2. /\ q.kind # "none"
      /\ q.pc \notin {"take", "flushed", "load", "waitSave", "waitSave2", "waitLoadSave",
                      "save", "awaitLoad", "failed"}
  BY <1>1 DEF Fits, Working, InLock
<1>3. u.pc \notin {"take", "flushed", "load", "waitSave", "waitSave2", "waitLoadSave", "awaitLoad"}
  BY DEF Working, InLock
<1>4. Agree(c, u, w) /\ (Loads(u) => Loads(q))
  BY <1>1, <1>2, <1>3 DEF Agree, Flushes, Loads, Runs, Waiting, Fits
<1> QED
  BY <1>1, <1>3, <1>4, AloneLocal

LEMMA GotoAlone ==
  ASSUME FInv, Alone, NEW c \in Everyone, call[c].pc \in InLock, NEW w \in ManagerSet,
         NEW l \in InLock \cup {"error"}, Goto(c, l), mgr' = [mgr EXCEPT ![ManagerOf[c]] = w],
         w.save = mgr[ManagerOf[c]].save, w.load = mgr[ManagerOf[c]].load,
         w.pending = mgr[ManagerOf[c]].pending, w.dirty = mgr[ManagerOf[c]].dirty
  PROVE  Alone'
<1>1. PICK u : u = [call[c] EXCEPT !.pc = l]
  OBVIOUS
<1>2. /\ u \in CallSet /\ u.pc = l /\ u.kind = call[c].kind /\ u.then = call[c].then
      /\ u.on = call[c].on /\ DataOK
  BY <1>1, Now DEF FInv, CallSet, Labels
<1>3. call' = [call EXCEPT ![c] = u] /\ l \in Working /\ call[c].pc \in Working
  BY <1>1, <1>2 DEF Goto, DataOK, Working
<1> QED
  BY <1>2, <1>3, AloneWorking

LEMMA RestoreBackupAlone ==
  ASSUME FInv, Alone, NEW c \in Everyone, RestoreBackup(c)
  PROVE  Alone'
<1>1. /\ call[c].pc \in InLock /\ mgr' = [mgr EXCEPT ![ManagerOf[c]] = mgr[ManagerOf[c]]]
      /\ mgr[ManagerOf[c]] \in ManagerSet /\ call[c].kind \in {"none", "flush", "load", "refresh"}
  BY Same, Now DEF RestoreBackup, At, InLock, CallSet
<1>2. AfterRead(c) \in InLock
  BY <1>1 DEF AfterRead, InLock
<1>3. \E l \in InLock \cup {"error"} : Goto(c, l)
  BY <1>2 DEF RestoreBackup, FileCall, InLock
<1> QED
  BY <1>1, <1>3, GotoAlone

LEMMA PersistAlone ==
  ASSUME FInv, Alone, NEW c \in Everyone, Persist(c)
  PROVE  Alone'
<1>1. /\ call[c].pc \in InLock /\ mgr' = [mgr EXCEPT ![ManagerOf[c]] = mgr[ManagerOf[c]]]
      /\ mgr[ManagerOf[c]] \in ManagerSet
  BY Same DEF Persist, At, InLock
<1>2. \E l \in InLock \cup {"error"} : Goto(c, l)
  BY DEF Persist, FileCall, InLock
<1> QED
  BY <1>1, <1>2, GotoAlone

LEMMA MoveAlone ==
  ASSUME FInv, Alone, NEW c \in Everyone, Move(c)
  PROVE  Alone'
<1>1. call[c].pc \in InLock /\ DataOK
  BY DEF Move, At, InLock, FInv
<1>2. PICK w : w = [mgr[ManagerOf[c]] EXCEPT !.late = @ \/ (file' # file /\ call[c].kind = "flush")]
  OBVIOUS
<1>3. /\ w \in ManagerSet /\ w.save = mgr[ManagerOf[c]].save /\ w.load = mgr[ManagerOf[c]].load
      /\ w.pending = mgr[ManagerOf[c]].pending /\ w.dirty = mgr[ManagerOf[c]].dirty
  BY <1>2, Now DEF ManagerSet
<1>4. mgr' = [mgr EXCEPT ![ManagerOf[c]] = w]
  BY <1>1, <1>2 DEF Move, DataOK
<1>5. \E l \in InLock \cup {"error"} : Goto(c, l)
  BY DEF Move, FileCall, InLock
<1> QED
  BY <1>1, <1>3, <1>4, <1>5, GotoAlone

LEMMA ReadKeeps ==
  ASSUME FInv, NEW c \in Everyone, Read(c)
  PROVE  FInv' /\ (Alone => Alone')
<1> DEFINE q == call[c]
           w == mgr[ManagerOf[c]]
<1>1. /\ q \in CallSet /\ Fits(q) /\ q.pc = "read" /\ w \in ManagerSet /\ DataOK
      /\ file \in Files /\ holder = c
      /\ UNCHANGED <<file, holder, epoch, mgr, clock, crashes>>
      /\ mgr' = [mgr EXCEPT ![ManagerOf[c]] = w]
  BY Now, Same DEF Read, At, FInv, InLock
<1>2. q.kind \in {"flush", "load", "refresh"}
  BY <1>1 DEF Fits, Working, InLock, CallSet
<1>3. /\ AfterRead(c) = CASE q.kind = "flush" -> "wTmp" [] q.kind = "load" -> "discard"
                           [] OTHER -> "refreshed"
      /\ \A v \in Snapshot : v # Absent /\ v # Torn
      /\ Absent # Torn /\ NoTables \in Snapshot
      /\ file.main \in Snapshot \cup {Absent, Torn} /\ file.bak \in Snapshot \cup {Absent}
  BY <1>1, FilesOf, CallAssumption, NewCallOK DEF AfterRead
<1>4. ASSUME NEW u \in CallSet, call' = [call EXCEPT ![c] = u],
             u.kind = q.kind, u.muts = q.muts, u.then = q.then, u.on = q.on,
             u.pc \in {"error", "restore", "wTmp", "discard", "refreshed"},
             u.pc = "restore" => file.main = Absent /\ file.bak = u.snap,
             u.pc = "discard" => file.main = u.snap /\ q.kind = "load",
             u.pc = "wTmp" => q.kind \in {"flush", "load"},
             u.pc = "refreshed" => q.kind = "refresh",
             u.pc \in {"wTmp", "refreshed"} => file.main = u.snap \/ Empty(u, file)
      PROVE  FInv' /\ (Alone => Alone')
  <2>0. NoFault \/ Fault
    BY DEF Read
  <2>1. faults' \in 0..MaxFaults
    BY <1>1, <2>0, CallAssumption DEF NoFault, Fault, DataOK
  <2>2. u.pc \in InLock \cup {"error"} /\ q.pc \in Working /\ u.pc \in Working
    BY <1>1, <1>4 DEF Working, InLock
  <2>3. Fits(u)
    BY <1>1, <1>2, <1>4 DEF Fits, Working, InLock, Persisting
  <2>4. Beside(u, file')
    BY <1>1, <1>4 DEF Beside
  <2>5. FInv'
    BY <1>1, <1>4, <2>1, <2>2, <2>3, <2>4, Moves DEF DataOK
  <2>6. Alone => Alone'
    BY <1>1, <1>4, <2>2, AloneWorking
  <2> QED
    BY <2>5, <2>6
<1>5. CASE Goto(c, "error")
  <2>1. PICK u : u = [q EXCEPT !.pc = "error"]
    OBVIOUS
  <2>2. /\ u \in CallSet /\ u.pc = "error" /\ u.kind = q.kind /\ u.muts = q.muts /\ u.then = q.then
        /\ u.on = q.on
    BY <1>1, <2>1 DEF CallSet, Labels
  <2>3. call' = [call EXCEPT ![c] = u]
    BY <1>1, <1>5, <2>1 DEF Goto, DataOK
  <2> QED
    BY <1>4, <2>2, <2>3
<1>7. CASE ~Goto(c, "error")
  <2>1. CASE file.main \in Snapshot
    <3>1. PICK u : u = [q EXCEPT !.snap = file.main, !.pc = AfterRead(c)]
      OBVIOUS
    <3>2. PICK l : l = AfterRead(c)
      OBVIOUS
    <3>3. l \in {"wTmp", "discard", "refreshed"} /\ (l = "wTmp" => q.kind = "flush")
          /\ (l = "discard" => q.kind = "load") /\ (l = "refreshed" => q.kind = "refresh")
      BY <1>2, <1>3, <3>2
    <3>4. call' = [call EXCEPT ![c] = u]
      BY <1>1, <1>3, <1>7, <2>1, <3>1 DEF Read, DataOK
    <3>5. /\ u \in CallSet /\ u.pc = l /\ u.snap = file.main /\ u.kind = q.kind /\ u.muts = q.muts
          /\ u.then = q.then /\ u.on = q.on
      BY <1>1, <2>1, <3>1, <3>2, <3>3 DEF CallSet, Labels, InLock
    <3> QED
      BY <1>4, <3>3, <3>4, <3>5
  <2>2. CASE file.main = Torn
    BY <1>3, <1>7, <2>2 DEF Read
  <2>3. CASE file.main = Absent /\ file.bak \in Snapshot
    <3>1. PICK u : u = [q EXCEPT !.snap = file.bak, !.pc = "restore"]
      OBVIOUS
    <3>2. call' = [call EXCEPT ![c] = u]
      BY <1>1, <1>3, <1>7, <2>3, <3>1 DEF Read, DataOK
    <3>3. /\ u \in CallSet /\ u.pc = "restore" /\ u.snap = file.bak /\ u.kind = q.kind
          /\ u.muts = q.muts /\ u.then = q.then /\ u.on = q.on
      BY <1>1, <2>3, <3>1 DEF CallSet, Labels, InLock
    <3> QED
      BY <1>4, <2>3, <3>2, <3>3
  <2>4. CASE file.main = Absent /\ file.bak = Absent
    <3>1. PICK l : l = (IF q.kind = "load" THEN "wTmp" ELSE AfterRead(c))
      OBVIOUS
    <3>2. l \in {"wTmp", "refreshed"} \/ (l = "wTmp" /\ q.kind = "flush")
      BY <1>2, <1>3, <3>1
    <3>3. (l = "wTmp" => q.kind \in {"flush", "load"}) /\ (l = "refreshed" => q.kind = "refresh")
      BY <1>2, <1>3, <3>1
    <3>4. PICK u : u = [q EXCEPT !.snap = NoTables,
                                 !.pc = IF q.kind = "load" THEN "wTmp" ELSE AfterRead(c)]
      OBVIOUS
    <3>5. call' = [call EXCEPT ![c] = u]
      BY <1>1, <1>3, <1>7, <2>4, <3>4 DEF Read, DataOK
    <3>6. /\ u \in CallSet /\ u.pc = l /\ u.snap = NoTables /\ u.kind = q.kind
          /\ u.muts = q.muts /\ u.then = q.then /\ u.on = q.on
      BY <1>1, <1>3, <3>1, <3>2, <3>4 DEF CallSet, Labels, InLock
    <3>7. Empty(u, file)
      BY <2>4, <3>6 DEF Empty
    <3> QED
      BY <1>4, <3>2, <3>3, <3>5, <3>6, <3>7
  <2> QED
    BY <1>3, <2>1, <2>2, <2>3, <2>4
<1> QED
  BY <1>5, <1>7

LEMMA CleanupKeeps ==
  ASSUME FInv, NEW c \in Everyone, Cleanup(c)
  PROVE  FInv' /\ (Alone => Alone')
<1> DEFINE q == call[c]
           w == mgr[ManagerOf[c]]
<1>1. /\ q \in CallSet /\ Fits(q) /\ q.pc = "cleanup" /\ w \in ManagerSet /\ DataOK
      /\ file \in Files /\ holder = c
      /\ UNCHANGED <<holder, epoch, mgr, clock, crashes>> /\ Goto(c, "error")
      /\ mgr' = [mgr EXCEPT ![ManagerOf[c]] = w]
  BY Now, Same DEF Cleanup, At, FInv, InLock
<1>2. PICK u : u = [q EXCEPT !.pc = "error"]
  OBVIOUS
<1>3. call' = [call EXCEPT ![c] = u]
  BY <1>1, <1>2 DEF Goto, DataOK
<1>4. /\ u \in CallSet /\ u.pc = "error" /\ u.kind = q.kind /\ u.muts = q.muts
      /\ u.then = q.then /\ u.on = q.on
  BY <1>1, <1>2 DEF CallSet, Labels
<1>5. Fits(u) /\ Beside(u, file') /\ u.pc \in InLock \cup {"error"} /\ u.pc \notin InLock
  BY <1>1, <1>4 DEF Fits, Working, InLock, Persisting, Beside
<1>6. file' \in Files
  <2>1. \A f \in Files : [f EXCEPT !.tmp = Absent] \in Files /\ [f EXCEPT !.btmp = Absent] \in Files
    BY FilesOf
  <2>2. [file EXCEPT !.tmp = Absent, !.btmp = Absent] \in Files
    BY <1>1 DEF Files
  <2> QED
    BY <1>1, <2>1, <2>2 DEF Cleanup
<1>7. faults' \in 0..MaxFaults
  BY <1>1, CallAssumption DEF Fault, NoFault, DataOK, Cleanup
<1>8. FInv'
  BY <1>1, <1>3, <1>4, <1>5, <1>6, <1>7, Moves DEF DataOK
<1>9. q.pc \in Working /\ u.pc \in Working
  BY <1>1, <1>4 DEF Working, InLock
<1>10. Alone => Alone'
  BY <1>1, <1>3, <1>4, <1>9, AloneWorking
<1> QED
  BY <1>8, <1>10

LEMMA DropStaleKeeps ==
  ASSUME FInv, NEW c \in Everyone, DropStale(c)
  PROVE  FInv' /\ (Alone => Alone')
<1> DEFINE q == call[c]
           w == mgr[ManagerOf[c]]
<1>1. /\ q \in CallSet /\ Fits(q) /\ Beside(q, file) /\ q.pc = "dStale" /\ w \in ManagerSet
      /\ DataOK /\ file \in Files /\ holder = c /\ UNCHANGED <<clock, crashes>>
      /\ q.kind \in {"flush", "load"} /\ q.pc \in Working
  BY Now DEF DropStale, At, FInv, InLock, Fits, Persisting, Working
<1>2. CASE Fault /\ Goto(c, "cleanup") /\ UNCHANGED <<file, holder, epoch, mgr>>
  <2>1. PICK u : u = [q EXCEPT !.pc = "cleanup"]
    OBVIOUS
  <2>2. call' = [call EXCEPT ![c] = u]
    BY <1>1, <1>2, <2>1 DEF Goto, DataOK
  <2>3. /\ u \in CallSet /\ u.pc = "cleanup" /\ u.kind = q.kind /\ u.muts = q.muts
        /\ u.then = q.then /\ u.on = q.on
    BY <1>1, <2>1 DEF CallSet, Labels, InLock
  <2>4. Fits(u) /\ Beside(u, file') /\ u.pc \in InLock \cup {"error"} /\ u.pc \in Working
    BY <1>1, <2>3 DEF Fits, Working, InLock, Persisting, Beside
  <2>5. faults' \in 0..MaxFaults
    BY <1>1, <1>2, CallAssumption DEF Fault, DataOK
  <2>6. FInv'
    BY <1>1, <1>2, <2>2, <2>3, <2>4, <2>5, Moves DEF DataOK
  <2>7. mgr' = [mgr EXCEPT ![ManagerOf[c]] = w]
    BY <1>2, Same
  <2>8. Alone => Alone'
    BY <1>1, <2>2, <2>3, <2>4, <2>7, AloneWorking
  <2> QED
    BY <2>6, <2>8
<1>3. CASE ~(Fault /\ Goto(c, "cleanup") /\ UNCHANGED <<file, holder, epoch, mgr>>)
  <2>1. PICK u, v : /\ u = [q EXCEPT !.epoch = epoch + 1, !.muts = <<>>, !.snap = Merged(c),
                                   !.pc = IF q.kind = "flush" THEN "publish" ELSE "loaded"]
                    /\ v = [w EXCEPT !.late = @ /\ q.kind # "flush"]
    OBVIOUS
  <2>2. /\ call' = [call EXCEPT ![c] = u] /\ mgr' = [mgr EXCEPT ![ManagerOf[c]] = v]
        /\ holder' = None /\ epoch' = epoch + 1 /\ file' = [file EXCEPT !.bak = Absent] /\ NoFault
    BY <1>1, <1>3, <2>1, Now DEF DropStale, DataOK
  <2>3. Merged(c) \in Snapshot /\ <<>> \in Seq(Mutation) /\ epoch + 1 \in Nat
    BY <1>1, MergedIs DEF DataOK
  <2>4. /\ u \in CallSet /\ u.pc = (IF q.kind = "flush" THEN "publish" ELSE "loaded")
        /\ u.kind = q.kind /\ u.muts = <<>> /\ u.then = q.then /\ u.on = q.on
        /\ v \in ManagerSet /\ v.save = w.save /\ v.load = w.load
        /\ v.pending = w.pending /\ v.dirty = w.dirty
    BY <1>1, <2>1, <2>3 DEF CallSet, Labels, ManagerSet
  <2>5. Fits(u) /\ u.pc \notin InLock /\ u.pc \in Working \cup {"publish", "loaded"}
    BY <1>1, <2>4 DEF Fits, Working, InLock, Persisting
  <2>6. file' \in Files /\ mgr' \in [Managers -> ManagerSet] /\ faults' \in 0..MaxFaults
    BY <1>1, <2>2, <2>4, FilesOf DEF DataOK, NoFault
  <2>7. FInv'
    BY <1>1, <2>2, <2>3, <2>4, <2>5, <2>6, Moves DEF DataOK
  <2>8. Alone => Alone'
    BY <1>1, <2>2, <2>4, <2>5, AloneWorking
  <2> QED
    BY <2>7, <2>8
<1> QED
  BY <1>2, <1>3

LEMMA LoadReadKeeps ==
  ASSUME FInv, NEW c \in Everyone, LoadRead(c)
  PROVE  FInv' /\ (Alone => Alone')
<1> DEFINE q == call[c]
           w == mgr[ManagerOf[c]]
<1>1. /\ q \in CallSet /\ Fits(q) /\ Beside(q, file) /\ q.pc \in {"discard", "loadRead"}
      /\ w \in ManagerSet /\ DataOK /\ file \in Files /\ holder = c
      /\ UNCHANGED <<mgr, clock, crashes>> /\ q.kind = "load" /\ q.pc \in Working /\ q.pc \in InLock
      /\ mgr' = [mgr EXCEPT ![ManagerOf[c]] = w]
  BY Now, Same DEF LoadRead, At, FInv, InLock, Fits, Working
<1>2. CASE /\ q.pc = "discard" /\ FileCall(c, [file EXCEPT !.bak = Absent], {}, "loadRead", "error")
           /\ UNCHANGED <<holder, epoch>>
  <2>1. PICK f : f = [file EXCEPT !.bak = Absent]
    OBVIOUS
  <2>2. f \in Files /\ f.main = q.snap
    BY <1>1, <1>2, <2>1, FilesOf DEF Files, Beside
  <2>3. PICK u : u = [q EXCEPT !.pc = "loadRead"]
    OBVIOUS
  <2>4. u.pc = "loadRead" /\ u.kind = q.kind /\ u.muts = q.muts /\ u.snap = q.snap
          /\ u.on = q.on
    BY <1>1, <2>3 DEF CallSet
  <2>5. Fits(u) /\ Beside(u, f)
    BY <1>1, <1>2, <2>2, <2>4 DEF Fits, Beside, Working, InLock, Persisting
  <2>6. FileCall(c, f, {}, "loadRead", "error") /\ {} \in SUBSET Files /\ "loadRead" \in InLock
    BY <1>2, <2>1 DEF InLock
  <2>7. mgr' \in [Managers -> ManagerSet]
    BY <1>1 DEF DataOK
  <2>8. FInv'
    BY <1>1, <1>2, <2>2, <2>3, <2>5, <2>6, <2>7, FileCallKeeps
  <2>9. Alone => Alone'
    <3>1. \E l \in InLock \cup {"error"} : Goto(c, l)
      BY <1>2 DEF FileCall, InLock
    <3> QED
      BY <1>1, <3>1, GotoAlone
  <2> QED
    BY <2>8, <2>9
<1>3. CASE /\ q.pc = "loadRead" /\ holder' = None
           /\ call' = [call EXCEPT ![c].epoch = epoch, ![c].pc = "loaded"]
           /\ UNCHANGED <<file, epoch, faults>>
  <2>1. PICK u : u = [q EXCEPT !.epoch = epoch, !.pc = "loaded"]
    OBVIOUS
  <2>2. call' = [call EXCEPT ![c] = u]
    BY <1>1, <1>3, <2>1 DEF DataOK
  <2>3. /\ u \in CallSet /\ u.pc = "loaded" /\ u.kind = q.kind /\ u.muts = q.muts
        /\ u.then = q.then /\ u.on = q.on
    BY <1>1, <2>1 DEF CallSet, Labels, DataOK
  <2>4. Fits(u) /\ u.pc \notin InLock
    BY <1>1, <2>3 DEF Fits, Working, InLock, Persisting
  <2>5. FInv'
    BY <1>1, <1>3, <2>2, <2>3, <2>4, Moves DEF DataOK
  <2>6. Alone => Alone'
    BY <1>1, <2>2, <2>3, AloneWorking
  <2> QED
    BY <2>5, <2>6
<1> QED
  BY <1>2, <1>3 DEF LoadRead, At

LEMMA RefreshedKeeps ==
  ASSUME FInv, NEW c \in Everyone, Refreshed(c)
  PROVE  FInv' /\ (Alone => Alone')
<1> DEFINE q == call[c]
           w == mgr[ManagerOf[c]]
<1>1. /\ q \in CallSet /\ Fits(q) /\ q.pc = "refreshed" /\ q.kind = "refresh"
      /\ w \in ManagerSet /\ DataOK /\ holder = c /\ holder' = None
      /\ UNCHANGED <<file, epoch, mgr, bounds>> /\ mgr' = [mgr EXCEPT ![ManagerOf[c]] = w]
  BY Now, Same DEF Refreshed, At, FInv, InLock, Fits
<1>2. PICK u : u = [q EXCEPT !.epoch = epoch, !.kind = "none", !.pc = "refresh"]
  OBVIOUS
<1>3. call' = [call EXCEPT ![c] = u]
  BY <1>1, <1>2 DEF Refreshed, DataOK
<1>4. /\ u \in CallSet /\ u.pc = "refresh" /\ u.kind = "none" /\ u.muts = q.muts
      /\ u.then = q.then /\ u.on = q.on
  BY <1>1, <1>2 DEF CallSet, Labels, DataOK
<1>5. Fits(u) /\ u.pc \notin InLock
  BY <1>1, <1>4 DEF Fits, Working, InLock, Persisting
<1>6. FInv'
  BY <1>1, <1>3, <1>4, <1>5, Moves DEF DataOK, bounds
<1>7. ASSUME Alone PROVE Alone'
  <2>1. Agree(c, q, w) /\ (w.pending # <<>> => w.dirty)
    BY <1>7, Same DEF Tidy
  <2>2. Agree(c, u, w) /\ u.pc # "awaitLoad" /\ (Loads(u) => Loads(q))
    BY <1>1, <1>4, <2>1 DEF Agree, Flushes, Loads, Runs, Waiting
  <2> QED
    BY <1>1, <1>3, <1>4, <1>7, <2>1, <2>2, AloneLocal
<1> QED
  BY <1>6, <1>7

LEMMA LoadFailedKeeps ==
  ASSUME FInv, NEW c \in Everyone, LoadFailed(c)
  PROVE  FInv' /\ (Alone => Alone')
<1> DEFINE q == call[c]
           w == mgr[ManagerOf[c]]
<1>1. /\ q \in CallSet /\ Fits(q) /\ q.pc = "error" /\ q.kind # "flush"
      /\ w \in ManagerSet /\ DataOK /\ holder' = (IF holder = c THEN None ELSE holder)
      /\ UNCHANGED <<file, epoch, bounds>>
  BY Now DEF LoadFailed, At, FInv
<1>2. q.kind \in {"load", "refresh"}
  BY <1>1 DEF Fits, Working, CallSet
<1>3. PICK u, v : /\ u = Fresh("failed")
                  /\ v = [w EXCEPT !.load = IF q.kind = "load" THEN "failed" ELSE @]
  OBVIOUS
<1>4. call' = [call EXCEPT ![c] = u] /\ mgr' = [mgr EXCEPT ![ManagerOf[c]] = v]
  BY <1>1, <1>3, Now DEF LoadFailed, End, DataOK
<1>5. /\ u \in CallSet /\ Fits(u) /\ u.pc = "failed" /\ u.kind = "none" /\ u.then = "done"
      /\ u.on = None /\ u.pc \notin InLock
      /\ v \in ManagerSet /\ v.save = w.save /\ v.load = (IF q.kind = "load" THEN "failed" ELSE w.load)
      /\ v.pending = w.pending /\ v.dirty = w.dirty
  BY <1>1, <1>3, NewCallOK DEF Over, Fresh, NewCall, InLock, CallSet, ManagerSet
<1>6. mgr' \in [Managers -> ManagerSet]
  BY <1>1, <1>4, <1>5 DEF DataOK
<1>7. FInv'
  BY <1>1, <1>4, <1>5, <1>6, Moves DEF DataOK, bounds
<1>8. ASSUME Alone PROVE Alone'
  <2>1. Agree(c, q, w) /\ (w.pending # <<>> => w.dirty)
    BY <1>8, Same DEF Tidy
  <2>2. Agree(c, u, v) /\ u.pc # "awaitLoad" /\ ~Loads(u) /\ (q.kind = "load" => Loads(q))
    BY <1>1, <1>2, <1>5, <2>1 DEF Agree, Flushes, Loads, Runs, Waiting
  <2> QED
    BY <1>1, <1>4, <1>5, <1>8, <2>1, <2>2, AloneLocal
<1> QED
  BY <1>7, <1>8

(* What the end of the flush of c makes of a call that waits for it.       *)
Woken(r, v) ==
  /\ v \in CallSet /\ v.on = None /\ v.kind = r.kind /\ v.muts = r.muts /\ v.then = r.then
  /\ v.epoch = r.epoch /\ v.snap = r.snap
  /\ v.pc \in {"error", "failed", "save", "latest", "lock"} \/ (v.pc = r.then /\ r.pc = "waitSave")
  /\ v.pc = "error" => r.kind = "load"
  /\ v.pc = "lock" => r.pc = "waitLoadSave"
  /\ v.pc = "latest" => r.pc = "waitSave2"
  /\ v.pc \in {"failed", "save", "latest"} => r.kind # "load"

LEMMA SettleIs ==
  ASSUME FInv, NEW c \in Everyone, NEW ok \in BOOLEAN, Settle(c, ok)
  PROVE  /\ \A d \in Everyone : d # c /\ call[d].on # c => call'[d] = call[d]
         /\ \A d \in Everyone : d # c /\ call[d].on = c => Woken(call[d], call'[d])
         /\ call'[c] = [Fresh(CASE ~ok -> "failed" [] ok /\ Me(c).dirty -> "save"
                                [] OTHER -> call[c].then) EXCEPT !.then = call[c].then]
         /\ call' = [d \in Everyone |-> call'[d]]
<1>1. /\ \A d \in Everyone : d # c /\ call[d].on # c => call'[d] = call[d]
      /\ call'[c] = [Fresh(CASE ~ok -> "failed" [] ok /\ Me(c).dirty -> "save"
                             [] OTHER -> call[c].then) EXCEPT !.then = call[c].then]
      /\ call' = [d \in Everyone |-> call'[d]]
  BY DEF Settle
<1>2. ASSUME NEW d \in Everyone, d # c, call[d].on = c PROVE Woken(call[d], call'[d])
  <2>1. PICK l : l = CASE ~ok -> IF call[d].kind = "load" THEN "error" ELSE "failed"
                        [] ok /\ call[d].pc = "waitSave" ->
                             IF Me(d).dirty THEN "save" ELSE call[d].then
                        [] ok /\ call[d].pc = "waitSave2" -> "latest"
                        [] OTHER -> "lock"
    OBVIOUS
  <2>2. PICK v : v = [call[d] EXCEPT !.on = None, !.pc = l]
    OBVIOUS
  <2>3. call'[d] = v
    BY <1>2, <2>1, <2>2 DEF Settle
  <2>4. call[d] \in CallSet /\ Fits(call[d]) /\ c # None /\ call[d].then \in {"done", "ready", "load"}
    BY Now DEF CallSet
  <2>5. call[d].pc \in {"waitSave", "waitSave2", "waitLoadSave"}
    BY <1>2, <2>4 DEF Fits
  <2>6. /\ l \in {"error", "failed", "save", "latest", "lock"} \/ (l = call[d].then /\ call[d].pc = "waitSave")
        /\ l = "error" => call[d].kind = "load"
        /\ l = "lock" => call[d].pc = "waitLoadSave"
        /\ l \in {"save", "latest"} => call[d].pc \in {"waitSave", "waitSave2"}
        /\ l = "latest" => call[d].pc = "waitSave2"
        /\ l = "failed" => call[d].kind # "load"
    BY <2>1, <2>4, <2>5
  <2>7. l \in {"save", "latest"} => call[d].kind # "load"
    BY <2>4, <2>6 DEF Fits, Working, InLock
  <2>8. v \in CallSet
    BY <2>2, <2>4, <2>6 DEF CallSet, Labels, Over
  <2> QED
    BY <2>2, <2>3, <2>4, <2>6, <2>7, <2>8 DEF Woken, CallSet
<1> QED
  BY <1>1, <1>2

(* A call that was woken fits, and is outside the lock.                    *)
LEMMA WokenFits ==
  ASSUME NEW r \in CallSet, NEW v, Fits(r), r.on # None, Woken(r, v)
  PROVE  /\ Fits(v) /\ v.pc \notin InLock \cup {"awaitLoad", "take", "flushed"} /\ v.kind # "flush"
         /\ r.pc \in {"waitSave", "waitSave2", "waitLoadSave"} /\ r.muts = <<>>
         /\ v.pc # "latest" => v.pc \in {"save", "failed"} \/ v.kind = "load" \/ v.pc = v.then
<1>1. r.pc \in {"waitSave", "waitSave2", "waitLoadSave"} /\ r.then \in {"done", "ready", "load"}
  BY DEF Fits, CallSet
<1>2. /\ r.muts = <<>> /\ (r.pc = "waitLoadSave" => r.kind = "load")
      /\ (r.pc # "waitLoadSave" => r.kind = "none")
  BY <1>1 DEF Fits, Working, InLock
<1> QED
  BY <1>1, <1>2 DEF Woken, Fits, Working, InLock, Persisting

LEMMA SettleKeeps ==
  ASSUME FInv, NEW c \in Everyone, NEW ok \in BOOLEAN, Settle(c, ok),
         IF ok THEN call[c].pc = "flushed" ELSE call[c].pc = "error" /\ call[c].kind = "flush"
  PROVE  FInv' /\ (Alone => Alone')
<1> DEFINE q == call[c]
           w == mgr[ManagerOf[c]]
<1>1. /\ q \in CallSet /\ Fits(q) /\ q.kind \in {"none", "flush"} /\ q.pc \notin InLock
      /\ w \in ManagerSet /\ DataOK /\ holder' = (IF holder = c THEN None ELSE holder)
      /\ UNCHANGED <<file, epoch, bounds>> /\ q.on = None /\ q.then \in {"done", "ready", "load"}
  BY Now DEF Settle, FInv, InLock, Fits, CallSet
<1>2. PICK l : l = CASE ~ok -> "failed" [] ok /\ Me(c).dirty -> "save" [] OTHER -> call[c].then
  OBVIOUS
<1>3. PICK u : u = call'[c]
  OBVIOUS
<1>4. /\ u \in CallSet /\ u.pc = l /\ u.kind = "none" /\ u.muts = <<>> /\ u.then = q.then
      /\ u.on = None /\ l \in {"failed", "save", q.then}
  <2>1. u = [Fresh(l) EXCEPT !.then = q.then] /\ l \in {"failed", "save", q.then}
    BY <1>2, <1>3, SettleIs
  <2>2. l \in Labels
    BY <1>1, <2>1 DEF Labels, Over
  <2>3. u = [NewCall EXCEPT !.pc = l, !.then = q.then]
    BY <2>1, NewCallOK DEF Fresh, CallSet
  <2>4. NewCall.kind = "none" /\ NewCall.muts = <<>> /\ NewCall.on = None /\ NewCall \in CallSet
    BY NewCallOK DEF NewCall
  <2> QED
    BY <1>1, <2>1, <2>2, <2>3, <2>4 DEF CallSet
<1>5. Fits(u) /\ u.pc \notin InLock
  BY <1>1, <1>4 DEF Fits, Working, InLock, Persisting
<1>6. PICK v : v = [w EXCEPT !.save = IF @ = c THEN None ELSE @,
                            !.pending = IF ok THEN @ ELSE q.muts \o @, !.dirty = @ \/ ~ok]
  OBVIOUS
<1>7. q.muts \o w.pending \in Seq(Mutation)
  BY <1>1 DEF CallSet, ManagerSet
<1>8. /\ v \in ManagerSet /\ v.save = (IF w.save = c THEN None ELSE w.save) /\ v.load = w.load
      /\ v.pending = (IF ok THEN w.pending ELSE q.muts \o w.pending) /\ v.dirty = (w.dirty \/ ~ok)
  BY <1>1, <1>6, <1>7 DEF ManagerSet
<1>9. mgr' = [mgr EXCEPT ![ManagerOf[c]] = v]
  BY <1>1, <1>6, Now DEF Settle, DataOK
<1>10. ASSUME NEW d \in Everyone
       PROVE  /\ call'[d] \in CallSet /\ Fits(call'[d]) /\ Beside(call'[d], file')
              /\ (call'[d].pc \in InLock => holder' = d)
              /\ (holder' = d => call'[d].pc \in InLock \cup {"error"})
  <2>0. \A r, f : r.pc \notin InLock => Beside(r, f)
    BY DEF Beside, InLock
  <2>1. CASE d = c
    BY <1>1, <1>3, <1>4, <1>5, <2>0, <2>1, Now
  <2>2. CASE d # c /\ call[d].on = c
    <3>1. /\ Woken(call[d], call'[d]) /\ call[d] \in CallSet /\ Fits(call[d]) /\ c # None
          /\ (holder = d => call[d].pc \in InLock \cup {"error"}) /\ d # None
      BY <2>2, SettleIs, Now
    <3>2. Fits(call'[d]) /\ call'[d].pc \notin InLock /\ call[d].pc \in {"waitSave", "waitSave2", "waitLoadSave"}
      BY <2>2, <3>1, WokenFits
    <3>3. holder' # d
      BY <1>1, <3>1, <3>2 DEF InLock
    <3> QED
      BY <2>0, <3>1, <3>2, <3>3 DEF Woken
  <2>3. CASE d # c /\ call[d].on # c
    <3>1. call'[d] = call[d]
      BY <2>3, SettleIs
    <3> QED
      BY <1>1, <2>3, <3>1, Now
  <2> QED
    BY <2>1, <2>2, <2>3
<1>11. FInv'
  <2>1. call' \in [Everyone -> CallSet]
    BY <1>10, SettleIs
  <2>2. mgr' \in [Managers -> ManagerSet]
    BY <1>1, <1>8, <1>9 DEF DataOK
  <2>3. DataOK'
    BY <1>1, <2>1, <2>2 DEF DataOK, bounds
  <2> QED
    BY <1>10, <2>3 DEF FInv
<1>12. ASSUME Alone PROVE Alone'
  <2>1. /\ Agree(c, q, w) /\ (w.pending # <<>> => w.dirty) /\ w.save = c /\ c # None
        /\ v.save = None /\ (v.pending # <<>> => v.dirty)
    BY <1>1, <1>8, <1>12, Same, Now DEF Tidy, Agree, Flushes
  <2>2. \A m \in Managers : mgr'[m] = IF m = ManagerOf[c] THEN v ELSE mgr[m]
    BY <1>1, <1>9 DEF DataOK
  <2>3. ASSUME NEW d \in Everyone
        PROVE  /\ Agree(d, call'[d], mgr'[ManagerOf[d]])
               /\ Loads(call'[d]) => Loads(call[d])
               /\ call'[d].pc = "awaitLoad" => call[d].pc = "awaitLoad"
    <3>1. /\ Agree(d, call[d], mgr[ManagerOf[d]]) /\ call[d] \in CallSet /\ Fits(call[d]) /\ d # None
          /\ ManagerOf[d] \in Managers /\ mgr'[ManagerOf[d]].load = mgr[ManagerOf[d]].load
      BY <1>8, <1>12, <2>2, Same, Now
    <3>2. CASE d = c
      <4>1. mgr'[ManagerOf[d]] = v
        BY <2>2, <3>1, <3>2
      <4>2. Agree(c, u, v) /\ (Loads(u) => Loads(q)) /\ u.pc # "awaitLoad"
        BY <1>1, <1>4, <1>8, <2>1 DEF Agree, Flushes, Loads, Runs, Waiting
      <4> QED
        BY <1>3, <3>2, <4>1, <4>2
    <3>3. CASE d # c /\ call[d].on = c
      <4>1. mgr[ManagerOf[d]].save = c /\ ManagerOf[c] = ManagerOf[d]
        BY <1>12, <2>1, <3>1, <3>3 DEF Agree, Alone, Tidy
      <4>2. Woken(call[d], call'[d])
        BY <3>3, SettleIs
      <4>3. /\ call'[d].pc \notin InLock \cup {"awaitLoad", "take", "flushed"}
            /\ call'[d].kind # "flush" /\ call[d].pc \in {"waitSave", "waitSave2", "waitLoadSave"}
            /\ call'[d].pc # "latest" =>
                 call'[d].pc \in {"save", "failed"} \/ call'[d].kind = "load" \/ call'[d].pc = call'[d].then
        BY <2>1, <3>1, <3>3, <4>2, WokenFits
      <4>4. ~Flushes(call'[d]) /\ call'[d].pc \notin Waiting
        <5>1. call[d].then \in {"done", "ready", "load"}
          BY <3>1 DEF CallSet
        <5> QED
          BY <4>2, <4>3, <5>1 DEF Flushes, Waiting, Woken
      <4>5. /\ Loads(call'[d]) => Loads(call[d])
            /\ Runs(call'[d]) => Runs(call[d])
        BY <4>2, <4>3 DEF Loads, Runs, Woken
      <4>6. /\ call[d].then = "load" => call'[d].pc \in {"save", "failed", "load"} \/ call'[d].kind = "load"
            /\ call[d].then = "ready" => call'[d].kind = "load"
        BY <3>1, <4>2, <4>3 DEF Agree, Woken
      <4>7. Agree(d, call'[d], v)
        BY <1>8, <2>1, <2>2, <3>1, <4>1, <4>2, <4>3, <4>4, <4>5, <4>6 DEF Agree, Woken
      <4> QED
        BY <2>2, <3>1, <4>1, <4>3, <4>5, <4>7
    <3>4. CASE d # c /\ call[d].on # c
      <4>1. call'[d] = call[d]
        BY <3>4, SettleIs
      <4>2. CASE ManagerOf[d] # ManagerOf[c]
        BY <2>2, <3>1, <4>1, <4>2
      <4>3. CASE ManagerOf[d] = ManagerOf[c]
        <5>1. call[d].on = None /\ ~Flushes(call[d])
          BY <2>1, <3>1, <3>4, <4>3 DEF Agree
        <5>2. Agree(d, call[d], v)
          BY <1>8, <2>1, <3>1, <4>3, <5>1 DEF Agree
        <5> QED
          BY <2>2, <3>1, <4>1, <4>3, <5>2
      <4> QED
        BY <4>2, <4>3
    <3> QED
      BY <3>2, <3>3, <3>4
  <2>4. \A d, e \in Everyone : d # e /\ ManagerOf[d] = ManagerOf[e] => Apart(call'[d], call'[e])
    BY <1>12, <2>3 DEF Apart, Alone
  <2>5. \A m \in Managers : Tidy(m, mgr'[m])
    BY <1>12, <2>1, <2>2 DEF Alone, Tidy
  <2> QED
    BY <2>3, <2>4, <2>5 DEF Alone
<1> QED
  BY <1>11, <1>12

LEMMA CrashKeeps ==
  ASSUME FInv, Crash
  PROVE  FInv' /\ (Alone => Alone')
<1>1. DataOK /\ file \in Files
  BY DEF FInv, DataOK
<1>2. file' \in Files
  <2>1. HalfWritten \subseteq {[file EXCEPT !.main = Torn], [file EXCEPT !.tmp = Torn], [file EXCEPT !.btmp = Torn]}
    BY DEF HalfWritten
  <2>2. /\ [file EXCEPT !.main = Torn] \in Files /\ [file EXCEPT !.tmp = Torn] \in Files
        /\ [file EXCEPT !.btmp = Torn] \in Files
    BY <1>1, FilesOf
  <2> QED
    BY <1>1, <2>1, <2>2 DEF Crash
<1>3. <<>> \in Seq(Mutation) /\ NoTables \in Snapshot
  BY NewCallOK
<1>4. NewManager \in ManagerSet
  BY <1>3 DEF NewManager, ManagerSet
<1>5. mgr' = [m \in Managers |-> NewManager] /\ mgr' \in [Managers -> ManagerSet]
  BY <1>4 DEF Crash
<1>6. ASSUME NEW c \in Everyone
      PROVE  /\ call'[c] \in CallSet /\ Fits(call'[c]) /\ call'[c].pc \in {"ready", "failed"}
             /\ call'[c] = call[c] \/ call'[c] = Fresh("failed")
  <2>1. call'[c] = IF call[c].pc = "ready" THEN call[c] ELSE Fresh("failed")
    BY DEF Crash
  <2>2. Fresh("failed") \in CallSet /\ Fits(Fresh("failed")) /\ Fresh("failed").pc = "failed"
    BY NewCallOK DEF Over, Fresh, NewCall
  <2> QED
    BY <2>1, <2>2, Now
<1>7. call' \in [Everyone -> CallSet]
  BY <1>6 DEF Crash
<1>8. crashes' \in 0..MaxCrashes
  BY <1>1, CallAssumption DEF Crash, DataOK
<1>9. DataOK'
  BY <1>1, <1>2, <1>5, <1>7, <1>8 DEF DataOK, Crash
<1>10. FInv'
  <2>1. \A c \in Everyone : call'[c].pc \notin InLock /\ Beside(call'[c], file') /\ c # None
    BY <1>6, Now DEF InLock, Beside
  <2> QED
    BY <1>6, <1>9, <2>1 DEF FInv, Crash
<1>11. ASSUME Alone PROVE Alone'
  <2>1. ASSUME NEW c \in Everyone
        PROVE  Agree(c, call'[c], mgr'[ManagerOf[c]]) /\ ~Loads(call'[c])
    <3>1. /\ mgr'[ManagerOf[c]] = NewManager /\ NewManager.save = None /\ c # None
          /\ NewManager.load = "none"
      BY <1>5, Now DEF NewManager
    <3>2. CASE call'[c] = Fresh("failed")
      <4>1. /\ call'[c].pc = "failed" /\ call'[c].kind = "none" /\ call'[c].then = "done" /\ call'[c].on = None
        BY <3>2 DEF Fresh, NewCall
      <4> QED
        BY <3>1, <4>1 DEF Agree, Flushes, Loads, Runs, Waiting
    <3>3. CASE call'[c] = call[c] /\ call[c].pc = "ready"
      <4>1. /\ call[c].kind = "none" /\ call[c].on = None /\ call[c].then \notin {"ready", "load"}
        BY <1>11, <3>3, Now, Same DEF Fits, Agree, Working, InLock, Waiting
      <4> QED
        BY <3>1, <3>3, <4>1 DEF Agree, Flushes, Loads, Runs, Waiting
    <3> QED
      BY <1>6, <3>2, <3>3 DEF Crash
  <2>2. \A m \in Managers : Tidy(m, mgr'[m])
    BY <1>5 DEF Tidy, NewManager
  <2>3. \A c, d \in Everyone : Apart(call'[c], call'[d])
    BY <1>6, <2>1 DEF Apart
  <2> QED
    BY <2>1, <2>2, <2>3 DEF Alone
<1> QED
  BY <1>10, <1>11

LEMMA InitEstablishes ==
  ASSUME Init
  PROVE  FInv /\ Alone
<1>1. /\ NoTables \in Snapshot /\ NewCall \in CallSet /\ <<>> \in Seq(Mutation)
      /\ NewCall.pc = "ready" /\ NewCall.kind = "none" /\ NewCall.on = None /\ NewCall.then = "done"
      /\ NewCall.muts = <<>>
  BY NewCallOK DEF NewCall
<1>2. \E s \in Snapshot, f \in {"ok", "none"} :
        /\ file \in Files
        /\ \A m \in Managers : mgr[m] \in ManagerSet /\ mgr[m].save = None /\ mgr[m].pending = <<>>
        /\ mgr = [m \in Managers |-> mgr[m]]
  <2>0. NewManager \in ManagerSet /\ NewManager.save = None /\ NewManager.pending = <<>>
    BY <1>1 DEF NewManager, ManagerSet
  <2>1. ASSUME NEW s \in [Tables -> {None, [created |-> 1, val |-> 1]}],
               file = [main |-> s, bak |-> Absent, tmp |-> Absent, btmp |-> Absent],
               mgr = [m \in Managers |-> [NewManager EXCEPT !.cache = s, !.load = "ok", !.observed = 0]]
        PROVE  /\ file \in Files
               /\ \A m \in Managers : mgr[m] \in ManagerSet /\ mgr[m].save = None /\ mgr[m].pending = <<>>
    <3>1. [created |-> 1, val |-> 1] \in Record
      BY CallAssumption DEF Record
    <3>2. s \in Snapshot
      BY <3>1 DEF Snapshot
    <3>3. PICK w : w = [NewManager EXCEPT !.cache = s, !.load = "ok", !.observed = 0]
      OBVIOUS
    <3>4. w \in ManagerSet /\ w.save = None /\ w.pending = <<>>
      BY <2>0, <3>2, <3>3 DEF ManagerSet
    <3>5. file \in Files
      BY <2>1, <3>2 DEF Files
    <3> QED
      BY <2>1, <3>3, <3>4, <3>5
  <2>2. ASSUME file = [main |-> Absent, bak |-> Absent, tmp |-> Absent, btmp |-> Absent],
               mgr = [m \in Managers |-> NewManager]
        PROVE  /\ file \in Files
               /\ \A m \in Managers : mgr[m] \in ManagerSet /\ mgr[m].save = None /\ mgr[m].pending = <<>>
    BY <2>0, <2>2 DEF Files
  <2>3. mgr = [m \in Managers |-> mgr[m]]
    BY DEF Init
  <2> QED
    BY <1>1, <2>1, <2>2, <2>3 DEF Init
<1>3. \A c \in Everyone : call[c] = NewCall
  BY DEF Init
<1>4. DataOK
  <2>1. call \in [Everyone -> CallSet]
    BY <1>1 DEF Init
  <2>2. mgr \in [Managers -> ManagerSet] /\ file \in Files
    BY <1>2
  <2>3. /\ holder \in Everyone \cup {None} /\ epoch \in Nat /\ clock \in 1..MaxClock
        /\ faults \in 0..MaxFaults /\ crashes \in 0..MaxCrashes
    <3>1. holder = None /\ epoch = 0 /\ clock = 1 /\ faults = 0 /\ crashes = 0
      BY DEF Init
    <3>2. 1 \in 1..MaxClock /\ 0 \in 0..MaxFaults /\ 0 \in 0..MaxCrashes
      BY CallAssumption
    <3> QED
      BY <3>1, <3>2
  <2> QED
    BY <2>1, <2>2, <2>3 DEF DataOK
<1>5. FInv
  <2>1. \A c \in Everyone : Fits(call[c]) /\ Beside(call[c], file) /\ call[c].pc \notin InLock /\ holder # c
    <3>1. \A c \in Everyone : c # None
      BY CallAssumption
    <3>2. Fits(NewCall) /\ NewCall.pc \notin InLock
      BY <1>1 DEF Fits, InLock, Working, Persisting
    <3>3. \A f : Beside(NewCall, f)
      BY <1>1 DEF Beside
    <3> QED
      BY <1>3, <3>1, <3>2, <3>3 DEF Init
  <2> QED
    BY <1>4, <2>1 DEF FInv
<1>6. Alone
  <2>1. ASSUME NEW c \in Everyone
        PROVE  Agree(c, call[c], mgr[ManagerOf[c]]) /\ ~Loads(call[c]) /\ call[c].pc = "ready"
    <3>1. mgr[ManagerOf[c]].save = None /\ c # None /\ call[c] = NewCall
      BY <1>2, <1>3, <1>5, Now
    <3> QED
      BY <1>1, <3>1 DEF Agree, Flushes, Loads, Runs, Waiting
  <2>2. \A m \in Managers : Tidy(m, mgr[m])
    BY <1>2 DEF Tidy
  <2> QED
    BY <2>1, <2>2 DEF Alone, Apart
<1> QED
  BY <1>5, <1>6

LEMMA StepKeeps ==
  ASSUME FInv, [Next]_vars
  PROVE  FInv' /\ (Alone /\ ~Overtaking => Alone')
<1>1. CASE UNCHANGED vars
  BY <1>1 DEF FInv, DataOK, Alone, vars
<1>2. CASE Crash
  BY <1>2, CrashKeeps
<1>3. ASSUME NEW c \in Everyone, Begin(c) PROVE FInv' /\ (Alone /\ ~Overtaking => Alone')
  BY <1>3, StartUpKeeps, BeginLatestKeeps, BeginReloadKeeps, TimerFiresKeeps, MutateKeeps DEF Begin
<1>4. ASSUME NEW c \in Everyone, Step(c) PROVE FInv' /\ (Alone /\ ~Overtaking => Alone')
  <2>1. CASE \/ Save(c) \/ SaveAfterLoad(c) \/ Take(c) \/ Lock(c) \/ Read(c)
    BY <2>1, SaveKeeps, SaveAfterLoadKeeps, TakeKeeps, LockKeeps, ReadKeeps
  <2>2. CASE RestoreBackup(c) \/ Persist(c) \/ Move(c) \/ Cleanup(c) \/ DropStale(c)
    BY <2>2, RestoreBackupKeeps, RestoreBackupAlone, PersistKeeps, PersistAlone, MoveKeeps, MoveAlone,
       CleanupKeeps, DropStaleKeeps
  <2>3. CASE Publish(c) \/ StartLoad(c) \/ LoadRead(c) \/ Loaded(c) \/ LoadFailed(c)
    BY <2>3, PublishKeeps, StartLoadKeeps, LoadReadKeeps, LoadedKeeps, LoadFailedKeeps
  <2>4. CASE Latest(c) \/ Refreshed(c) \/ Refresh(c) \/ SaveImmediately(c)
    BY <2>4, LatestKeeps, RefreshedKeeps, RefreshKeeps, SaveImmediatelyKeeps
  <2>5. CASE Flushed(c)
    BY <2>5, SettleKeeps DEF Flushed, At
  <2>6. CASE Requeue(c)
    BY <2>6, SettleKeeps DEF Requeue, At
  <2> QED
    BY <1>4, <2>1, <2>2, <2>3, <2>4, <2>5, <2>6 DEF Step
<1> QED
  BY <1>1, <1>2, <1>3, <1>4 DEF Next

-----------------------------------------------------------------------------
(* The durable snapshot                                                    *)

Holds(f) == f.main \in Snapshot \/ f.bak \in Snapshot
Content(f) == CASE f.main \in Snapshot -> f.main
                [] f.main \notin Snapshot /\ f.bak \in Snapshot -> f.bak
                [] OTHER -> NoTables
Kept(f, g) == (Holds(f) => Holds(g)) /\ Content(g) = Content(f)

LEMMA ContentIs ==
  ASSUME NEW f
  PROVE  /\ f.main \in Snapshot => Content(f) = f.main /\ Holds(f)
         /\ f.main \notin Snapshot /\ f.bak \in Snapshot => Content(f) = f.bak /\ Holds(f)
         /\ f.main \notin Snapshot /\ f.bak \notin Snapshot => Content(f) = NoTables /\ ~Holds(f)
         /\ Kept(f, f)
BY DEF Content, Holds, Kept

(* A step of a filesystem call changes nothing, or comes to one of these.  *)
LEMMA KeptBy ==
  ASSUME NEW f, NEW g,
         \/ g.main = f.main /\ (f.main \in Snapshot \/ g.bak = f.bak)
         \/ f.main \notin Snapshot /\ f.bak \in Snapshot /\ g.main = f.bak
         \/ g.bak = f.bak /\ f.bak \in Snapshot /\ g.main \notin Snapshot
            /\ (f.main = f.bak \/ f.main \notin Snapshot)
  PROVE  Kept(f, g)
BY ContentIs DEF Kept

(* The file is as before, or the move has published New(call[c]).          *)
Published(c) ==
  /\ Move(c) /\ file' # file /\ call[c].kind = "flush" /\ holder = c
  /\ Content(file) = call[c].snap /\ Content(file') = New(call[c]) /\ Holds(file')

LEMMA MovePublishes ==
  ASSUME FInv, NEW c \in Everyone, Move(c)
  PROVE  Kept(file, file') \/ Published(c)
<1> DEFINE q == call[c]
<1>1. /\ q \in CallSet /\ Fits(q) /\ Beside(q, file) /\ q.pc = "mTmp" /\ holder = c /\ file \in Files
      /\ q.kind \in {"flush", "load"}
  BY Now DEF Move, At, InLock, Fits, Persisting
<1>2. /\ file.tmp = New(q) /\ New(q) \in Snapshot /\ q.snap \in Snapshot /\ file.main = Absent
      /\ Absent \notin Snapshot
      /\ file.bak = q.snap \/ (file.bak = Absent /\ q.snap = NoTables)
  BY <1>1, MergedIs, CallAssumption DEF Beside, Empty, CallSet
<1>3. Content(file) = q.snap
  BY <1>2, ContentIs
<1>4. CASE file' = file
  BY <1>4, ContentIs
<1>5. CASE file' # file
  <2>1. PICK f : f = [file EXCEPT !.main = file.tmp, !.tmp = Absent]
    OBVIOUS
  <2>2. file' = f
    BY <1>5, <2>1 DEF Move, FileCall
  <2>3. f.main = New(q)
    BY <1>1, <1>2, <2>1 DEF Files
  <2>4. Content(file') = New(q) /\ Holds(file')
    BY <1>2, <2>2, <2>3, ContentIs
  <2>5. CASE q.kind = "flush"
    BY <1>1, <1>3, <1>5, <2>4, <2>5 DEF Published
  <2>6. CASE q.kind = "load"
    <3>1. q.muts = <<>>
      BY <1>1, <2>6 DEF Fits
    <3>2. New(q) = q.snap
      BY <3>1, ApplyNone DEF New
    <3> QED
      BY <1>3, <2>4, <3>2 DEF Kept
  <2> QED
    BY <1>1, <2>5, <2>6
<1> QED
  BY <1>4, <1>5

LEMMA PersistKeepsContent ==
  ASSUME FInv, NEW c \in Everyone, Persist(c)
  PROVE  Kept(file, file')
<1> DEFINE q == call[c]
<1>1. /\ q \in CallSet /\ Beside(q, file) /\ file \in Files /\ q.snap \in Snapshot
      /\ Absent \notin Snapshot
  BY Now, CallAssumption DEF CallSet
<1>2. CASE At(c, "wTmp") \/ At(c, "wBakTmp")
  <2>1. file'.main = file.main /\ file'.bak = file.bak
    BY <1>1, <1>2 DEF Persist, FileCall, Files, At
  <2> QED
    BY <2>1, KeptBy
<1>3. CASE At(c, "dBak") \/ At(c, "mBak")
  <2>1. file'.main = file.main
    BY <1>1, <1>3 DEF Persist, FileCall, Files, At
  <2>2. file.main = q.snap
    BY <1>1, <1>3 DEF Beside, At
  <2> QED
    BY <1>1, <2>1, <2>2, KeptBy
<1>4. CASE At(c, "dMain")
  <2>1. file' = file \/ (file'.main = Absent /\ file'.bak = file.bak)
    BY <1>1, <1>4 DEF Persist, FileCall, Files, At
  <2>2. file.main = q.snap /\ file.bak = q.snap
    BY <1>1, <1>4 DEF Beside, At
  <2> QED
    BY <1>1, <2>1, <2>2, KeptBy, ContentIs
<1> QED
  BY <1>2, <1>3, <1>4 DEF Persist

LEMMA RestoreKeepsContent ==
  ASSUME FInv, NEW c \in Everyone, RestoreBackup(c)
  PROVE  Kept(file, file')
<1> DEFINE q == call[c]
<1>1. /\ q \in CallSet /\ Beside(q, file) /\ file \in Files /\ q.snap \in Snapshot
      /\ Absent \notin Snapshot /\ Torn \notin Snapshot
  BY Now, CallAssumption DEF CallSet
<1>2. CASE At(c, "restore")
  <2>1. file' = file \/ (file'.main \in {q.snap, Torn} /\ file'.bak = file.bak)
    BY <1>1, <1>2 DEF RestoreBackup, FileCall, Files, At
  <2>2. file.main = Absent /\ file.bak = q.snap
    BY <1>1, <1>2 DEF Beside, At
  <2> QED
    BY <1>1, <2>1, <2>2, KeptBy, ContentIs
<1>3. CASE At(c, "restored")
  <2>1. file'.main = file.main
    BY <1>1, <1>3 DEF RestoreBackup, FileCall, Files, At
  <2>2. file.main = q.snap
    BY <1>1, <1>3 DEF Beside, At
  <2> QED
    BY <1>1, <2>1, <2>2, KeptBy
<1> QED
  BY <1>2, <1>3 DEF RestoreBackup

(* What a step of the program does to the durable snapshot.                *)
LEMMA ContentStep ==
  ASSUME FInv, [Next]_vars
  PROVE  Kept(file, file') \/ \E c \in Everyone : Published(c)
<1>1. CASE file' = file
  BY <1>1, ContentIs
<1>2. CASE Crash
  <2>1. CASE holder = None
    BY <1>1, <1>2, <2>1 DEF Crash, HalfWritten
  <2>2. CASE holder # None
    <3>1. PICK c \in Everyone : holder = c
      BY <2>2 DEF FInv, DataOK
    <3>2. /\ call[c] \in CallSet /\ Beside(call[c], file) /\ file \in Files /\ call[c].snap \in Snapshot
          /\ Torn \notin Snapshot /\ Absent \notin Snapshot
      BY Now, CallAssumption DEF CallSet
    <3>3. \/ file' = file
          \/ call[c].pc = "restore" /\ file'.main = Torn /\ file'.bak = file.bak
          \/ file'.main = file.main /\ file'.bak = file.bak
      BY <1>2, <2>2, <3>1, <3>2 DEF Crash, HalfWritten, At, Files
    <3> QED
      BY <3>2, <3>3, KeptBy, ContentIs DEF Beside
  <2> QED
    BY <2>1, <2>2
<1>3. ASSUME NEW c \in Everyone, Cleanup(c) PROVE Kept(file, file')
  <2>1. file \in Files
    BY Now
  <2>2. file'.main = file.main /\ file'.bak = file.bak
    BY <1>3, <2>1 DEF Cleanup, Files
  <2> QED
    BY <2>2, KeptBy
<1>4. ASSUME NEW c \in Everyone, DropStale(c) \/ LoadRead(c) PROVE Kept(file, file')
  <2>1. /\ call[c] \in CallSet /\ Beside(call[c], file) /\ file \in Files /\ call[c].snap \in Snapshot
        /\ New(call[c]) \in Snapshot
    BY Now, MergedIs DEF CallSet
  <2>2. file' = file \/ (file'.main = file.main /\ call[c].pc \in {"dStale", "discard"})
    BY <1>4, <2>1 DEF DropStale, LoadRead, FileCall, Files, At
  <2> QED
    BY <2>1, <2>2, KeptBy, ContentIs DEF Beside
<1>5. ASSUME NEW c \in Everyone, Begin(c) PROVE file' = file
  BY <1>5 DEF Begin, StartUp, BeginLatest, BeginReload, TimerFires, Mutate
<1>6. ASSUME NEW c \in Everyone, Step(c) PROVE Kept(file, file') \/ Published(c)
  <2>1. CASE RestoreBackup(c) \/ Persist(c) \/ Move(c) \/ Cleanup(c) \/ DropStale(c) \/ LoadRead(c)
    BY <1>3, <1>4, <2>1, RestoreKeepsContent, PersistKeepsContent, MovePublishes
  <2>2. CASE ~(RestoreBackup(c) \/ Persist(c) \/ Move(c) \/ Cleanup(c) \/ DropStale(c) \/ LoadRead(c))
    <3>1. UNCHANGED file
      BY <1>6, <2>2 DEF Step, Save, SaveAfterLoad, Take, Lock, Read, Publish, Flushed, Requeue, Settle,
         StartLoad, Loaded, LoadFailed, Latest, Refreshed, Refresh, SaveImmediately
    <3> QED
      BY <3>1, ContentIs
  <2> QED
    BY <2>1, <2>2
<1> QED
  BY <1>1, <1>2, <1>5, <1>6, ContentIs DEF Next, vars

-----------------------------------------------------------------------------
(* What the steps leave alone                                              *)

Watched == {"loaded", "refresh", "publish"}

(* The manager w becomes v: its memory is the same.                        *)
Alike(v, w) ==
  /\ v.pending = w.pending /\ v.cache = w.cache /\ v.observed = w.observed /\ v.late = w.late
  /\ v.load = "ok" => w.load = "ok"

(* A step of c that changes no memory, no epoch and no mutation.           *)
Quiet(c) ==
  /\ \A d \in Everyone : d # c => call'[d] = call[d]
  /\ call'[c].muts = call[c].muts /\ call'[c].pc \notin Watched
  /\ \A m \in Managers : Alike(mgr'[m], mgr[m])
  /\ epoch' = epoch

LEMMA FreshIs ==
  ASSUME NEW l
  PROVE  Fresh(l).muts = <<>> /\ Fresh(l).pc = l
BY DEF Fresh, NewCall

LEMMA QuietMutes ==
  ASSUME FInv, NEW c \in Everyone, call[c].pc \notin Working
  PROVE  call[c].muts = <<>>
BY Now DEF Fits

LEMMA QuietSave ==
  ASSUME FInv, NEW c \in Everyone, Save(c) \/ SaveAfterLoad(c)
  PROVE  Quiet(c)
<1>1. /\ DataOK /\ call[c] \in CallSet /\ call[c].pc \in {"save", "awaitLoad"} /\ call[c].muts = <<>>
      /\ call[c].then \in {"done", "ready", "load"} /\ mgr[ManagerOf[c]] \in ManagerSet
      /\ ManagerOf[c] \in Managers
  BY Now, QuietMutes DEF FInv, Save, SaveAfterLoad, At, CallSet, Working, InLock
<1>2. epoch' = epoch
  BY DEF Save, SaveAfterLoad
<1>3. CASE Save(c)
  BY <1>1, <1>2, <1>3 DEF Save, Goto, DataOK, Quiet, Alike, Watched, CallSet
<1>4. CASE SaveAfterLoad(c) /\ Me(c).load = "failed"
  BY <1>1, <1>2, <1>4, FreshIs DEF SaveAfterLoad, End, DataOK, Quiet, Alike, Watched
<1>5. CASE SaveAfterLoad(c) /\ Me(c).load # "failed" /\ ~Me(c).dirty
  <2>1. PICK u : u = [Fresh(call[c].then) EXCEPT !.then = call[c].then]
    OBVIOUS
  <2>2. u.muts = <<>> /\ u.pc = call[c].then
    BY <2>1 DEF Fresh, NewCall
  <2>3. call' = [call EXCEPT ![c] = u] /\ UNCHANGED mgr
    BY <1>5, <2>1 DEF SaveAfterLoad
  <2> QED
    BY <1>1, <1>2, <2>2, <2>3 DEF DataOK, Quiet, Alike, Watched
<1>6. CASE SaveAfterLoad(c) /\ Me(c).load # "failed" /\ Me(c).dirty
  <2>1. Goto(c, "take") /\ mgr' = [mgr EXCEPT ![ManagerOf[c]].save = c]
    BY <1>6 DEF SaveAfterLoad
  <2>2. \A m \in Managers : Alike(mgr'[m], mgr[m])
    BY <1>1, <2>1 DEF DataOK, ManagerSet, Alike
  <2> QED
    BY <1>1, <1>2, <2>1, <2>2 DEF Goto, DataOK, Quiet, Watched, CallSet
<1> QED
  BY <1>3, <1>4, <1>5, <1>6

LEMMA QuietLatest ==
  ASSUME FInv, NEW c \in Everyone, Latest(c)
  PROVE  Quiet(c)
<1>1. /\ DataOK /\ call[c] \in CallSet /\ call[c].muts = <<>>
  BY Now, QuietMutes DEF FInv, Latest, At, Working, InLock
<1>2. epoch' = epoch /\ mgr' = mgr
  BY DEF Latest
<1>3. \/ End(c, "failed") \/ End(c, "done")
      \/ call' = [call EXCEPT ![c].pc = "waitSave2", ![c].on = Me(c).save]
      \/ call' = [call EXCEPT ![c].kind = "refresh", ![c].pc = "lock"]
  BY DEF Latest
<1>4. CASE End(c, "failed") \/ End(c, "done")
  BY <1>1, <1>2, <1>4, FreshIs DEF End, DataOK, Quiet, Alike, Watched
<1>5. CASE ~(End(c, "failed") \/ End(c, "done"))
  BY <1>1, <1>2, <1>3, <1>5 DEF DataOK, Quiet, Alike, Watched, CallSet
<1> QED
  BY <1>4, <1>5

LEMMA QuietBegin ==
  ASSUME FInv, NEW c \in Everyone,
         StartUp(c) \/ BeginLatest(c) \/ BeginReload(c) \/ SaveImmediately(c) \/ TimerFires(c)
  PROVE  Quiet(c)
<1>1. /\ DataOK /\ call[c] \in CallSet /\ call[c].muts = <<>> /\ mgr[ManagerOf[c]] \in ManagerSet
      /\ ManagerOf[c] \in Managers
  BY Now, QuietMutes DEF FInv, StartUp, BeginLatest, BeginReload, SaveImmediately, TimerFires, Ready, At,
     Working, InLock
<1>2. epoch' = epoch
  BY DEF StartUp, BeginLatest, BeginReload, SaveImmediately, TimerFires
<1>3. \A m \in Managers : Alike(mgr'[m], mgr[m])
  BY <1>1 DEF StartUp, BeginLatest, BeginReload, SaveImmediately, TimerFires, DataOK, ManagerSet, Alike
<1>4. CASE TimerFires(c)
  BY <1>1, <1>2, <1>3, <1>4, FreshIs DEF TimerFires, DataOK, Quiet, Watched
<1>5. CASE ~TimerFires(c)
  BY <1>1, <1>2, <1>3, <1>5 DEF StartUp, BeginLatest, BeginReload, SaveImmediately, Goto, DataOK, Quiet,
     Watched, CallSet
<1> QED
  BY <1>4, <1>5

LEMMA QuietLoad ==
  ASSUME FInv, NEW c \in Everyone, StartLoad(c) \/ LoadFailed(c)
  PROVE  Quiet(c)
<1>1. /\ DataOK /\ call[c] \in CallSet /\ call[c].muts = <<>> /\ mgr[ManagerOf[c]] \in ManagerSet
      /\ ManagerOf[c] \in Managers
  BY Now DEF FInv, StartLoad, LoadFailed, At, Fits, Working, InLock
<1>2. epoch' = epoch
  BY DEF StartLoad, LoadFailed
<1>3. \A m \in Managers : Alike(mgr'[m], mgr[m])
  BY <1>1 DEF StartLoad, LoadFailed, DataOK, ManagerSet, Alike
<1>4. CASE LoadFailed(c)
  BY <1>1, <1>2, <1>3, <1>4, FreshIs DEF LoadFailed, End, DataOK, Quiet, Watched
<1>5. CASE StartLoad(c)
  BY <1>1, <1>2, <1>3, <1>5 DEF StartLoad, DataOK, Quiet, Watched, CallSet
<1> QED
  BY <1>4, <1>5

LEMMA QuietFileCall ==
  ASSUME FInv, NEW c \in Everyone,
         Lock(c) \/ Read(c) \/ RestoreBackup(c) \/ Persist(c) \/ Cleanup(c)
  PROVE  Quiet(c)
<1>1. DataOK /\ call[c] \in CallSet
  BY Now DEF FInv
<1>2. epoch' = epoch /\ mgr' = mgr
  BY DEF Lock, Read, RestoreBackup, Persist, Cleanup
<1>3. AfterRead(c) \in {"wTmp", "discard", "refreshed"}
  BY DEF AfterRead
<1>4. ASSUME NEW l \in Labels \ Watched, Goto(c, l) PROVE Quiet(c)
  BY <1>1, <1>2, <1>4 DEF Goto, DataOK, Quiet, Alike, CallSet
<1>5. ASSUME NEW l \in Labels \ Watched, NEW v, call' = [call EXCEPT ![c].snap = v, ![c].pc = l]
      PROVE  Quiet(c)
  BY <1>1, <1>2, <1>5 DEF DataOK, Quiet, Alike, CallSet
<1>6. InLock \cup {"error"} \subseteq Labels \ Watched
  BY DEF Labels, InLock, Watched
<1>7. CASE Read(c)
  <2>1. /\ file.main \in Snapshot \cup {Absent, Torn} /\ file.bak \in Snapshot \cup {Absent}
        /\ Absent \notin Snapshot /\ Torn \notin Snapshot /\ Absent # Torn
    BY Now, FilesOf, CallAssumption
  <2>2. CASE Goto(c, "error")
    BY <1>4, <1>6, <2>2
  <2>3. CASE ~Goto(c, "error") /\ file.main \in Snapshot
    <3>1. /\ \A d \in Everyone : d # c => call'[d] = call[d]
          /\ call'[c].muts = call[c].muts /\ call'[c].pc = AfterRead(c)
      BY <1>1, <1>7, <2>1, <2>3 DEF Read, DataOK, CallSet
    <3> QED
      BY <1>2, <1>3, <3>1 DEF Quiet, Alike, Watched
  <2>4. CASE ~Goto(c, "error") /\ file.main = Absent /\ file.bak \in Snapshot
    <3>1. /\ \A d \in Everyone : d # c => call'[d] = call[d]
          /\ call'[c].muts = call[c].muts /\ call'[c].pc = "restore"
      BY <1>1, <1>7, <2>1, <2>4 DEF Read, DataOK, CallSet
    <3> QED
      BY <1>2, <3>1 DEF Quiet, Alike, Watched
  <2>5. CASE ~Goto(c, "error") /\ file.main = Absent /\ file.bak = Absent
    <3>1. /\ \A d \in Everyone : d # c => call'[d] = call[d]
          /\ call'[c].muts = call[c].muts
          /\ call'[c].pc = IF call[c].kind = "load" THEN "wTmp" ELSE AfterRead(c)
      BY <1>1, <1>7, <2>1, <2>5 DEF Read, DataOK, CallSet
    <3> QED
      BY <1>2, <1>3, <3>1 DEF Quiet, Alike, Watched
  <2>6. CASE ~Goto(c, "error") /\ file.main = Torn
    BY <1>7, <2>1, <2>6 DEF Read
  <2> QED
    BY <2>1, <2>2, <2>3, <2>4, <2>5, <2>6
<1>8. CASE ~Read(c)
  <2>1. \E l \in InLock \cup {"error"} : Goto(c, l)
    BY <1>3, <1>8 DEF Lock, RestoreBackup, Persist, Cleanup, FileCall, InLock
  <2> QED
    BY <1>4, <1>6, <2>1
<1> QED
  BY <1>7, <1>8

LEMMA QuietFailure ==
  ASSUME FInv, NEW c \in Everyone,
         \/ Move(c) /\ ~Published(c)
         \/ DropStale(c) /\ epoch' = epoch
         \/ LoadRead(c) /\ At(c, "discard")
         \/ Refresh(c) /\ call'[c].pc # "done"
  PROVE  Quiet(c)
<1>1. DataOK /\ call[c] \in CallSet /\ mgr[ManagerOf[c]] \in ManagerSet /\ ManagerOf[c] \in Managers
      /\ epoch + 1 # epoch
  BY Now DEF FInv, DataOK
<1>2. epoch' = epoch
  BY DEF Move, LoadRead, Refresh, DropStale, At
<1>3. ASSUME NEW l \in Labels \ Watched, Goto(c, l), \A m \in Managers : Alike(mgr'[m], mgr[m])
      PROVE  Quiet(c)
  BY <1>1, <1>2, <1>3 DEF Goto, DataOK, Quiet, CallSet
<1>4. InLock \cup {"error"} \subseteq Labels \ Watched /\ "latest" \in Labels \ Watched
  BY DEF Labels, InLock, Watched
<1>5. CASE Move(c) /\ ~Published(c)
  <2>1. \E l \in InLock \cup {"error"} : Goto(c, l)
    BY <1>5 DEF Move, FileCall, InLock
  <2>2. ~(file' # file /\ call[c].kind = "flush")
    <3>1. ASSUME file' # file, call[c].kind = "flush" PROVE Published(c)
      <4>1. /\ call[c] \in CallSet /\ Beside(call[c], file) /\ call[c].pc = "mTmp" /\ holder = c /\ file \in Files
        BY <1>5, Now DEF Move, At, InLock
      <4>2. Kept(file, file') \/ Published(c)
        BY <1>5, MovePublishes
      <4>3. /\ file.tmp = New(call[c]) /\ New(call[c]) \in Snapshot /\ file.main = Absent
            /\ Absent \notin Snapshot /\ call[c].snap \in Snapshot
            /\ file.bak = call[c].snap \/ (file.bak = Absent /\ call[c].snap = NoTables)
        BY <4>1, MergedIs, CallAssumption DEF Beside, Empty, CallSet
      <4>4. file' = [file EXCEPT !.main = file.tmp, !.tmp = Absent]
        BY <1>5, <3>1 DEF Move, FileCall
      <4>5. file'.main = New(call[c])
        BY <4>1, <4>3, <4>4 DEF Files
      <4> QED
        BY <1>5, <3>1, <4>1, <4>3, <4>5, ContentIs DEF Published
    <3> QED
      BY <1>5, <3>1
  <2>3. mgr' = [mgr EXCEPT ![ManagerOf[c]].late = @ \/ FALSE]
    BY <1>5, <2>2 DEF Move
  <2>4. \A m \in Managers : Alike(mgr'[m], mgr[m])
    BY <1>1, <2>3 DEF DataOK, ManagerSet, Alike
  <2> QED
    BY <1>3, <1>4, <2>1, <2>4
<1>6. CASE DropStale(c) /\ epoch' = epoch
  BY <1>1, <1>3, <1>4, <1>6 DEF DropStale, Alike, InLock
<1>7. CASE LoadRead(c) /\ At(c, "discard")
  BY <1>1, <1>3, <1>4, <1>7 DEF LoadRead, FileCall, Alike, InLock, At
<1>8. CASE Refresh(c) /\ call'[c].pc # "done"
  <2>1. ~End(c, "done")
    BY <1>1, <1>8, FreshIs DEF End, DataOK
  <2>2. \/ call' = [call EXCEPT ![c].pc = "waitSave2", ![c].on = mgr[ManagerOf[c]].save] /\ UNCHANGED mgr
        \/ Goto(c, "latest") /\ UNCHANGED mgr
    BY <1>8, <2>1 DEF Refresh
  <2>3. CASE Goto(c, "latest") /\ UNCHANGED mgr
    BY <1>3, <1>4, <2>3 DEF Alike
  <2>4. CASE call' = [call EXCEPT ![c].pc = "waitSave2", ![c].on = mgr[ManagerOf[c]].save] /\ UNCHANGED mgr
    BY <1>1, <1>2, <2>4 DEF DataOK, Quiet, Alike, Watched, CallSet
  <2> QED
    BY <2>2, <2>3, <2>4
<1> QED
  BY <1>5, <1>6, <1>7, <1>8

-----------------------------------------------------------------------------
(* Unsaved mutations                                                       *)

FlightOf(calls, m) ==
  LET S == {c \in Everyone : ManagerOf[c] = m /\ calls[c].muts # <<>>}
  IN  IF S = {} THEN <<>> ELSE calls[CHOOSE c \in S : TRUE].muts

LEMMA FlightIs ==
  ASSUME NEW calls, NEW m, NEW c \in Everyone, ManagerOf[c] = m,
         \A d \in Everyone : d # c /\ ManagerOf[d] = m => calls[d].muts = <<>>
  PROVE  FlightOf(calls, m) = calls[c].muts
<1> DEFINE S == {d \in Everyone : ManagerOf[d] = m /\ calls[d].muts # <<>>}
<1>1. CASE calls[c].muts = <<>>
  <2>1. S = {}
    BY <1>1
  <2> QED
    BY <1>1, <2>1 DEF FlightOf
<1>2. CASE calls[c].muts # <<>>
  <2>1. S = {c}
    BY <1>2
  <2>2. (CHOOSE d \in S : TRUE) = c
    BY <2>1
  <2> QED
    BY <2>1, <2>2 DEF FlightOf
<1> QED
  BY <1>1, <1>2

LEMMA FlightNone ==
  ASSUME NEW calls, NEW m, \A d \in Everyone : ManagerOf[d] = m => calls[d].muts = <<>>
  PROVE  FlightOf(calls, m) = <<>>
<1> DEFINE S == {d \in Everyone : ManagerOf[d] = m /\ calls[d].muts # <<>>}
<1>1. S = {}
  OBVIOUS
<1> QED
  BY <1>1 DEF FlightOf

LEMMA FlightSame ==
  ASSUME NEW calls, NEW others, NEW m,
         \A d \in Everyone : ManagerOf[d] = m => others[d].muts = calls[d].muts
  PROVE  FlightOf(others, m) = FlightOf(calls, m)
<1> DEFINE S == {d \in Everyone : ManagerOf[d] = m /\ calls[d].muts # <<>>}
           T == {d \in Everyone : ManagerOf[d] = m /\ others[d].muts # <<>>}
<1>1. T = S
  OBVIOUS
<1>2. FlightOf(others, m) = IF S = {} THEN <<>> ELSE others[CHOOSE c \in S : TRUE].muts
  BY <1>1 DEF FlightOf
<1>3. S # {} => (CHOOSE c \in S : TRUE) \in S
  OBVIOUS
<1> QED
  BY <1>2, <1>3 DEF FlightOf

LEMMA UnsavedIs ==
  /\ \A m : Unsaved(m) = FlightOf(call, m) \o mgr[m].pending
  /\ \A m : Unsaved(m)' = FlightOf(call', m) \o mgr'[m].pending
BY DEF Unsaved, InFlight, FlightOf

LEMMA DurableIs ==
  Durable = Content(file) /\ Durable' = Content(file') /\ Readable = Holds(file) /\ Readable' = Holds(file')
BY DEF Durable, Content, Readable, Holds

(* Only the flush of a manager has mutations in flight.                    *)
LEMMA Lone ==
  ASSUME FInv, Alone
  PROVE  /\ \A c, d \in Everyone : Flushes(call[c]) /\ d # c /\ ManagerOf[d] = ManagerOf[c]
              => call[d].muts = <<>>
         /\ \A m, d : d \in Everyone /\ ManagerOf[d] = m /\ mgr[m].save = None => call[d].muts = <<>>
<1>1. ASSUME NEW d \in Everyone, call[d].muts # <<>>
      PROVE  mgr[ManagerOf[d]].save = d /\ d # None
  <2>1. Flushes(call[d]) /\ d # None
    BY <1>1, Now DEF Fits, Flushes
  <2> QED
    BY <2>1, Same DEF Agree
<1>2. \A c \in Everyone : Flushes(call[c]) => mgr[ManagerOf[c]].save = c
  BY Same DEF Agree
<1> QED
  BY <1>1, <1>2

LEMMA UnsavedType ==
  ASSUME FInv, NEW m \in Managers
  PROVE  FlightOf(call, m) \in Seq(Mutation) /\ mgr[m].pending \in Seq(Mutation)
         /\ Unsaved(m) \in Seq(Mutation)
<1>1. mgr[m].pending \in Seq(Mutation)
  BY DEF FInv, DataOK, ManagerSet
<1>2. FlightOf(call, m) \in Seq(Mutation)
  <2> DEFINE S == {d \in Everyone : ManagerOf[d] = m /\ call[d].muts # <<>>}
  <2>1. S # {} => (CHOOSE c \in S : TRUE) \in Everyone
    OBVIOUS
  <2>2. \A c \in Everyone : call[c].muts \in Seq(Mutation)
    BY Now DEF CallSet
  <2>3. <<>> \in Seq(Mutation)
    OBVIOUS
  <2> QED
    BY <2>1, <2>2, <2>3 DEF FlightOf
<1> QED
  BY <1>1, <1>2, UnsavedIs, ConcatProperties

-----------------------------------------------------------------------------
(* The memory of a manager and the durable snapshot                        *)

NoneLate == \A n \in Managers : ~mgr[n].late

(* What a call has read and not yet handed over.                           *)
Seen ==
  /\ \A c \in Everyone : call[c].pc \in Watched =>
       /\ call[c].epoch <= epoch
       /\ call[c].epoch = epoch /\ NoneLate => call[c].snap = Durable
  /\ \A m \in Managers : mgr[m].load = "ok" => mgr[m].observed \in Nat /\ mgr[m].observed <= epoch

(* A step that changes neither the durable snapshot nor a memory.          *)
Calm ==
  /\ Durable' = Durable /\ epoch' = epoch
  /\ \A m \in Managers :
       /\ mgr'[m].cache = mgr[m].cache /\ mgr'[m].observed = mgr[m].observed
       /\ mgr'[m].late = mgr[m].late /\ (mgr'[m].load = "ok" => mgr[m].load = "ok")
  /\ \A m \in Managers : Unsaved(m)' = Unsaved(m)
  /\ \A d \in Everyone : call'[d].pc \in Watched =>
       call'[d] = call[d] \/ (call'[d].epoch = epoch /\ call'[d].snap = Durable)

LEMMA CalmKeeps ==
  ASSUME FInv, Seen, LatestIsFresh, Calm
  PROVE  Seen' /\ LatestIsFresh'
<1>1. epoch \in Nat
  BY DEF FInv, DataOK
<1>2. NoneLate' = NoneLate
  BY DEF Calm, NoneLate
<1>3. Seen'
  BY <1>1, <1>2 DEF Calm, Seen, Alike
<1>4. LatestIsFresh'
  <2>1. ASSUME NEW m \in Managers, mgr'[m].load = "ok", mgr'[m].observed = epoch',
               \A n \in Managers : ~mgr'[n].late
        PROVE  mgr'[m].cache = Apply(Durable', Unsaved(m)')
    <3>1. /\ mgr[m].load = "ok" /\ mgr[m].observed = epoch /\ mgr'[m].cache = mgr[m].cache
          /\ \A n \in Managers : ~mgr[n].late
      BY <2>1 DEF Calm, Alike
    <3>2. mgr[m].cache = Apply(Durable, Unsaved(m))
      BY <3>1 DEF LatestIsFresh
    <3>3. Durable' = Durable /\ Unsaved(m)' = Unsaved(m)
      BY DEF Calm
    <3> QED
      BY <3>1, <3>2, <3>3
  <2> QED
    BY <2>1 DEF LatestIsFresh
<1> QED
  BY <1>3, <1>4

LEMMA QuietIsCalm ==
  ASSUME FInv, NEW c \in Everyone, Quiet(c), Kept(file, file')
  PROVE  Calm
<1>1. \A m \in Managers : FlightOf(call', m) = FlightOf(call, m)
  <2>1. \A d \in Everyone : call'[d].muts = call[d].muts
    BY DEF Quiet
  <2> QED
    BY <2>1, FlightSame
<1>2. \A m \in Managers : Unsaved(m)' = Unsaved(m)
  BY <1>1, UnsavedIs DEF Quiet, Alike
<1> QED
  BY <1>2, DurableIs DEF Quiet, Alike, Calm, Kept

(* The end of a flush, whether it has failed or not.                       *)
LEMMA SettleIsCalm ==
  ASSUME FInv, Alone, NEW c \in Everyone, Flushed(c) \/ Requeue(c)
  PROVE  Calm
<1> DEFINE q == call[c]
           w == mgr[ManagerOf[c]]
<1>1. PICK ok \in BOOLEAN : /\ Settle(c, ok)
                            /\ IF ok THEN q.pc = "flushed" ELSE q.pc = "error" /\ q.kind = "flush"
  BY DEF Flushed, Requeue, At
<1>2. /\ q \in CallSet /\ Fits(q) /\ w \in ManagerSet /\ DataOK /\ q.then \in {"done", "ready", "load"}
      /\ ManagerOf[c] \in Managers /\ UNCHANGED <<file, epoch>> /\ c # None
  BY <1>1, Now DEF Settle, FInv, CallSet
<1>3. /\ call'[c].muts = <<>> /\ call'[c].pc \notin Watched
      /\ ok => q.muts = <<>>
  <2>1. PICK l : l = CASE ~ok -> "failed" [] ok /\ Me(c).dirty -> "save" [] OTHER -> call[c].then
    OBVIOUS
  <2>2. call'[c] = [Fresh(l) EXCEPT !.then = q.then] /\ l \in {"failed", "save", q.then}
    BY <1>1, <2>1, SettleIs
  <2>3. call'[c].muts = <<>> /\ call'[c].pc = l
    BY <2>2 DEF Fresh, NewCall
  <2> QED
    BY <1>1, <1>2, <2>2, <2>3 DEF Watched, Fits, Working, InLock
<1>4. ASSUME NEW d \in Everyone, d # c
      PROVE  /\ call'[d].muts = call[d].muts
             /\ call'[d].pc \in Watched => call'[d] = call[d]
  <2>1. CASE call[d].on = c
    <3>1. Woken(call[d], call'[d])
      BY <1>1, <1>4, <2>1, SettleIs
    <3>2. call[d].then \in {"done", "ready", "load"}
      BY Now DEF CallSet
    <3> QED
      BY <3>1, <3>2 DEF Woken, Watched
  <2>2. CASE call[d].on # c
    BY <1>1, <1>4, <2>2, SettleIs
  <2> QED
    BY <2>1, <2>2
<1>5. PICK v : v = [w EXCEPT !.save = IF @ = c THEN None ELSE @,
                            !.pending = IF ok THEN @ ELSE q.muts \o @, !.dirty = @ \/ ~ok]
  OBVIOUS
<1>6. mgr' = [mgr EXCEPT ![ManagerOf[c]] = v]
  BY <1>1, <1>2, <1>5 DEF Settle, DataOK
<1>7. /\ v.pending = (IF ok THEN w.pending ELSE q.muts \o w.pending) /\ v.cache = w.cache
      /\ v.observed = w.observed /\ v.late = w.late /\ v.load = w.load
  BY <1>2, <1>5 DEF ManagerSet
<1>8. /\ \A m \in Managers : mgr'[m] = IF m = ManagerOf[c] THEN v ELSE mgr[m]
  BY <1>2, <1>6 DEF DataOK
<1>9. ASSUME NEW m \in Managers PROVE Unsaved(m)' = Unsaved(m)
  <2>1. CASE ok
    <3>1. \A d \in Everyone : call'[d].muts = call[d].muts
      BY <1>3, <1>4, <2>1
    <3>2. FlightOf(call', m) = FlightOf(call, m)
      BY <3>1, FlightSame
    <3> QED
      BY <1>7, <1>8, <2>1, <3>2, UnsavedIs
  <2>2. CASE ~ok /\ m # ManagerOf[c]
    <3>1. \A d \in Everyone : ManagerOf[d] = m => call'[d].muts = call[d].muts
      BY <1>4, <2>2
    <3>2. FlightOf(call', m) = FlightOf(call, m)
      BY <3>1, FlightSame
    <3> QED
      BY <1>8, <2>2, <3>2, UnsavedIs
  <2>3. CASE ~ok /\ m = ManagerOf[c]
    <3>1. Flushes(q)
      BY <1>1, <2>3 DEF Flushes
    <3>2. \A d \in Everyone : d # c /\ ManagerOf[d] = m => call[d].muts = <<>>
      BY <2>3, <3>1, Lone
    <3>3. FlightOf(call, m) = q.muts
      BY <2>3, <3>2, FlightIs
    <3>4. FlightOf(call', m) = <<>>
      BY <1>3, <1>4, <3>2, FlightNone
    <3>5. q.muts \in Seq(Mutation) /\ w.pending \in Seq(Mutation)
      BY <1>2 DEF CallSet, ManagerSet
    <3>6. <<>> \o (q.muts \o w.pending) = q.muts \o w.pending
      BY <3>5, ConcatProperties, ConcatEmptySeq
    <3> QED
      BY <1>7, <1>8, <2>3, <3>3, <3>4, <3>6, UnsavedIs
  <2> QED
    BY <2>1, <2>2, <2>3
<1>10. \A m \in Managers : Unsaved(m)' = Unsaved(m)
  BY <1>9
<1>11. \A m \in Managers : mgr'[m].late = mgr[m].late /\ mgr'[m].load = mgr[m].load
                           /\ mgr'[m].cache = mgr[m].cache /\ mgr'[m].observed = mgr[m].observed
  BY <1>7, <1>8
<1>12. \A d \in Everyone : call'[d].pc \in Watched => call'[d] = call[d]
  BY <1>3, <1>4
<1>13. Durable' = Durable
  BY <1>2, DurableIs
<1> QED
  BY <1>2, <1>10, <1>11, <1>12, <1>13 DEF Calm

LEMMA TakeIsCalm ==
  ASSUME FInv, Alone, NEW c \in Everyone, Take(c)
  PROVE  Calm
<1> DEFINE q == call[c]
           w == mgr[ManagerOf[c]]
<1>1. /\ q \in CallSet /\ q.pc = "take" /\ q.muts = <<>> /\ w \in ManagerSet /\ DataOK
      /\ ManagerOf[c] \in Managers /\ UNCHANGED <<file, epoch>> /\ Flushes(q)
  BY Now, QuietMutes DEF Take, At, FInv, Working, InLock, Flushes
<1>2. CASE w.dirty
  <2>1. PICK v : v = [w EXCEPT !.pending = <<>>, !.dirty = FALSE]
    OBVIOUS
  <2>2. mgr' = [mgr EXCEPT ![ManagerOf[c]] = v]
    BY <1>1, <1>2, <2>1 DEF Take, DataOK
  <2>3. /\ v.pending = <<>> /\ v.cache = w.cache /\ v.observed = w.observed /\ v.late = w.late
        /\ v.load = w.load
    BY <1>1, <2>1 DEF ManagerSet
  <2>4. /\ \A d \in Everyone : d # c => call'[d] = call[d]
        /\ call'[c].muts = w.pending /\ call'[c].pc \in {"flushed", "lock"}
    BY <1>1, <1>2 DEF Take, DataOK, CallSet
  <2>5. \A m \in Managers : mgr'[m] = IF m = ManagerOf[c] THEN v ELSE mgr[m]
    BY <1>1, <2>2 DEF DataOK
  <2>6. ASSUME NEW m \in Managers PROVE Unsaved(m)' = Unsaved(m)
    <3>1. CASE m # ManagerOf[c]
      <4>1. FlightOf(call', m) = FlightOf(call, m)
        BY <2>4, <3>1, FlightSame
      <4> QED
        BY <2>5, <3>1, <4>1, UnsavedIs
    <3>2. CASE m = ManagerOf[c]
      <4>1. \A d \in Everyone : d # c /\ ManagerOf[d] = m => call[d].muts = <<>>
        BY <1>1, <3>2, Lone
      <4>2. FlightOf(call, m) = <<>>
        BY <1>1, <4>1, FlightNone
      <4>3. FlightOf(call', m) = w.pending
        BY <2>4, <3>2, <4>1, FlightIs
      <4>4. w.pending \o <<>> = <<>> \o w.pending
        BY <1>1, ConcatEmptySeq DEF ManagerSet
      <4> QED
        BY <2>3, <2>5, <3>2, <4>2, <4>3, <4>4, UnsavedIs
    <3> QED
      BY <3>1, <3>2
  <2>7. \A m \in Managers : Unsaved(m)' = Unsaved(m)
    BY <2>6
  <2>8. \A m \in Managers : mgr'[m].late = mgr[m].late /\ mgr'[m].load = mgr[m].load
                           /\ mgr'[m].cache = mgr[m].cache /\ mgr'[m].observed = mgr[m].observed
    BY <2>3, <2>5
  <2>9. \A d \in Everyone : call'[d].pc \in Watched => call'[d] = call[d]
    BY <2>4 DEF Watched
  <2> QED
    BY <1>1, <2>7, <2>8, <2>9, DurableIs DEF Calm
<1>3. CASE ~w.dirty
  <2>1. Goto(c, "flushed") /\ mgr' = mgr
    BY <1>3 DEF Take
  <2>2. Quiet(c)
    BY <1>1, <2>1 DEF Quiet, Goto, DataOK, CallSet, Watched, Alike
  <2>3. Kept(file, file')
    BY <1>1, ContentIs
  <2> QED
    BY <2>2, <2>3, QuietIsCalm
<1> QED
  BY <1>2, <1>3

(* A load or a refresh has what it read under the lock.                    *)
LEMMA ReadIsCalm ==
  ASSUME FInv, NEW c \in Everyone, (LoadRead(c) /\ ~At(c, "discard")) \/ Refreshed(c)
  PROVE  Calm
<1> DEFINE q == call[c]
<1>1. /\ q \in CallSet /\ Beside(q, file) /\ q.pc \in {"loadRead", "refreshed"} /\ DataOK
      /\ file \in Files /\ UNCHANGED <<file, epoch, mgr>>
      /\ q.snap \in Snapshot /\ Absent \notin Snapshot
  BY Now, CallAssumption DEF LoadRead, Refreshed, At, FInv, CallSet
<1>2. /\ \A d \in Everyone : d # c => call'[d] = call[d]
      /\ call'[c].muts = q.muts /\ call'[c].epoch = epoch /\ call'[c].snap = q.snap
  BY <1>1 DEF LoadRead, Refreshed, At, DataOK, CallSet
<1>3. q.snap = Durable
  <2>1. file.main = q.snap \/ (file.main = Absent /\ file.bak = Absent /\ q.snap = NoTables)
    BY <1>1 DEF Beside, Empty
  <2> QED
    BY <1>1, <2>1, ContentIs, DurableIs
<1>4. \A m \in Managers : FlightOf(call', m) = FlightOf(call, m)
  <2>1. \A d \in Everyone : call'[d].muts = call[d].muts
    BY <1>2
  <2> QED
    BY <2>1, FlightSame
<1>5. \A m \in Managers : Unsaved(m)' = Unsaved(m)
  BY <1>1, <1>4, UnsavedIs
<1>6. Durable' = Durable
  BY <1>1, DurableIs
<1> QED
  BY <1>1, <1>2, <1>3, <1>5, <1>6 DEF Calm

-----------------------------------------------------------------------------
(* The steps that change what is durable, or a memory                      *)

(* A change of the memory and the mutation queued for it.                  *)
LEMMA MutateStep ==
  ASSUME FInv, Alone, NEW c \in Everyone, NEW t \in Tables, NEW drop \in BOOLEAN, Mutate(c, t, drop)
  PROVE  /\ \A m \in Managers : m # ManagerOf[c] => Unsaved(m)' = Unsaved(m)
         /\ \E mu \in Mutation : Unsaved(ManagerOf[c])' = Append(Unsaved(ManagerOf[c]), mu)
         /\ Seen /\ LatestIsFresh => Seen' /\ LatestIsFresh'
<1> DEFINE w == mgr[ManagerOf[c]]
<1>1. /\ call[c] \in CallSet /\ call[c].pc = "ready" /\ DataOK /\ w \in ManagerSet
      /\ ManagerOf[c] \in Managers /\ UNCHANGED <<file, epoch>> /\ Goto(c, "mutated")
  BY Now DEF Mutate, Ready, At, FInv
<1>2. PICK mu \in Mutation, v \in ManagerSet :
        /\ mgr' = [mgr EXCEPT ![ManagerOf[c]] = v] /\ v.pending = Append(w.pending, mu)
        /\ v.cache = ApplyOne(w.cache, mu) /\ v.load = w.load /\ v.observed = w.observed /\ v.late = w.late
  BY MutateIs
<1>3. /\ \A d \in Everyone : d # c => call'[d] = call[d]
      /\ call'[c].muts = call[c].muts /\ call'[c].pc = "mutated"
  BY <1>1 DEF Goto, DataOK, CallSet
<1>4. \A m \in Managers : mgr'[m] = IF m = ManagerOf[c] THEN v ELSE mgr[m]
  BY <1>1, <1>2 DEF DataOK
<1>5. \A m \in Managers : FlightOf(call', m) = FlightOf(call, m)
  <2>1. \A d \in Everyone : call'[d].muts = call[d].muts
    BY <1>3
  <2> QED
    BY <2>1, FlightSame
<1>6. \A m \in Managers : m # ManagerOf[c] => Unsaved(m)' = Unsaved(m)
  BY <1>4, <1>5, UnsavedIs
<1>7. Unsaved(ManagerOf[c])' = Append(Unsaved(ManagerOf[c]), mu)
  <2>1. PICK F, p : F = FlightOf(call, ManagerOf[c]) /\ p = w.pending
    OBVIOUS
  <2>2. F \in Seq(Mutation) /\ p \in Seq(Mutation) /\ <<mu>> \in Seq(Mutation)
    BY <1>1, <2>1, UnsavedType
  <2>3. F \o Append(p, mu) = Append(F \o p, mu)
    <3>1. Append(p, mu) = p \o <<mu>> /\ F \o p \in Seq(Mutation)
      BY <2>2, AppendIsConcat, ConcatProperties
    <3>2. Append(F \o p, mu) = (F \o p) \o <<mu>>
      BY <3>1, AppendIsConcat
    <3> QED
      BY <2>2, <3>1, <3>2, ConcatAssociative
  <2> QED
    BY <1>1, <1>2, <1>4, <1>5, <2>1, <2>3, UnsavedIs
<1>8. ASSUME Seen, LatestIsFresh PROVE Seen' /\ LatestIsFresh'
  <2>1. Durable' = Durable
    BY <1>1, DurableIs
  <2>2. \A m \in Managers : mgr'[m].late = mgr[m].late /\ mgr'[m].load = mgr[m].load
                           /\ mgr'[m].observed = mgr[m].observed
    BY <1>2, <1>4
  <2>3. NoneLate' = NoneLate
    BY <2>2 DEF NoneLate
  <2>4. \A d \in Everyone : call'[d].pc \in Watched => call'[d] = call[d]
    BY <1>3 DEF Watched
  <2>5. Seen'
    BY <1>1, <1>8, <2>1, <2>2, <2>3, <2>4 DEF Seen
  <2>6. ASSUME NEW m \in Managers, mgr'[m].load = "ok", mgr'[m].observed = epoch',
               \A n \in Managers : ~mgr'[n].late
        PROVE  mgr'[m].cache = Apply(Durable', Unsaved(m)')
    <3>1. mgr[m].cache = Apply(Durable, Unsaved(m))
      BY <1>1, <1>8, <2>2, <2>6 DEF LatestIsFresh
    <3>2. CASE m # ManagerOf[c]
      BY <1>4, <1>6, <2>1, <3>1, <3>2
    <3>3. CASE m = ManagerOf[c]
      <4>1. Apply(Durable, Append(Unsaved(m), mu)) = ApplyOne(Apply(Durable, Unsaved(m)), mu)
        BY ApplyMore, UnsavedType
      <4> QED
        BY <1>2, <1>4, <1>7, <2>1, <3>1, <3>3, <4>1
    <3> QED
      BY <3>2, <3>3
  <2> QED
    BY <2>5, <2>6 DEF LatestIsFresh
<1> QED
  BY <1>6, <1>7, <1>8

(* What a call has read becomes the memory of its manager.                 *)
LEMMA AdoptStep ==
  ASSUME FInv, Alone, NEW c \in Everyone, Publish(c) \/ Loaded(c) \/ (Refresh(c) /\ call'[c].pc = "done")
  PROVE  /\ \A m \in Managers : Unsaved(m)' = Unsaved(m)
         /\ \A d \in Everyone : d # c => call'[d] = call[d]
         /\ Seen /\ LatestIsFresh => Seen' /\ LatestIsFresh'
<1> DEFINE q == call[c]
           w == mgr[ManagerOf[c]]
<1>1. /\ q \in CallSet /\ Fits(q) /\ q.pc \in Watched /\ q.muts = <<>> /\ DataOK /\ w \in ManagerSet
      /\ ManagerOf[c] \in Managers /\ UNCHANGED <<file, epoch>> /\ epoch \in Nat
  BY Now, QuietMutes DEF Publish, Loaded, Refresh, At, FInv, DataOK, Watched, Working, InLock
<1>2. /\ \A d \in Everyone : d # c => call'[d] = call[d]
      /\ call'[c].muts = <<>> /\ call'[c].pc \notin Watched
  <2>1. CASE Publish(c)
    BY <1>1, <2>1 DEF Publish, Goto, DataOK, CallSet, Watched
  <2>2. CASE Loaded(c)
    <3>1. PICK l : l = IF q.then = "load" THEN "done" ELSE q.then
      OBVIOUS
    <3>2. l \notin Watched /\ call' = [call EXCEPT ![c] = Fresh(l)]
      BY <1>1, <2>2, <3>1 DEF Loaded, End, Watched, CallSet
    <3> QED
      BY <1>1, <3>2, FreshIs DEF DataOK
  <2>3. CASE Refresh(c) /\ call'[c].pc = "done"
    <3>1. \A l : l # "done" => ~Goto(c, l)
      BY <1>1, <2>3 DEF Goto, DataOK, CallSet
    <3>2. End(c, "done")
      BY <1>1, <2>3, <3>1 DEF Refresh, DataOK, CallSet
    <3> QED
      BY <1>1, <3>2, FreshIs DEF DataOK, End, Watched
  <2> QED
    BY <2>1, <2>2, <2>3
<1>3. PICK v : /\ mgr' = [mgr EXCEPT ![ManagerOf[c]] = v] /\ v.cache = Apply(q.snap, w.pending)
               /\ v.observed = q.epoch /\ v.pending = w.pending /\ v.late = w.late
               /\ (v.load = "ok" \/ v.load = w.load)
  <2>1. CASE Publish(c)
    <3>1. PICK v : v = [w EXCEPT !.cache = Apply(q.snap, w.pending), !.observed = q.epoch]
      OBVIOUS
    <3>2. mgr' = [mgr EXCEPT ![ManagerOf[c]] = v]
      BY <1>1, <2>1, <3>1 DEF Publish, DataOK
    <3>3. /\ v.cache = Apply(q.snap, w.pending)
          /\ v.observed = q.epoch /\ v.pending = w.pending /\ v.late = w.late
          /\ (v.load = "ok" \/ v.load = w.load)
      BY <1>1, <3>1 DEF ManagerSet
    <3> QED
      BY <3>2, <3>3
  <2>2. CASE Loaded(c)
    <3>1. PICK v : v = [w EXCEPT !.cache = Apply(q.snap, w.pending), !.dirty = w.pending # <<>>,
                                !.observed = q.epoch, !.load = "ok"]
      OBVIOUS
    <3>2. mgr' = [mgr EXCEPT ![ManagerOf[c]] = v]
      BY <1>1, <2>2, <3>1 DEF Loaded, DataOK
    <3>3. /\ v.cache = Apply(q.snap, w.pending)
          /\ v.observed = q.epoch /\ v.pending = w.pending /\ v.late = w.late
          /\ (v.load = "ok" \/ v.load = w.load)
      BY <1>1, <3>1 DEF ManagerSet
    <3> QED
      BY <3>2, <3>3
  <2>3. CASE Refresh(c) /\ call'[c].pc = "done"
    <3>1. PICK v : v = [w EXCEPT !.cache = Apply(q.snap, w.pending),
                                   !.dirty = w.pending # <<>>, !.observed = q.epoch]
      OBVIOUS
    <3>2. ~Goto(c, "latest") /\ call' # [call EXCEPT ![c].pc = "waitSave2", ![c].on = w.save]
      BY <1>1, <2>3 DEF Goto, DataOK, CallSet
    <3>3. mgr' = [mgr EXCEPT ![ManagerOf[c]] = v]
      BY <1>1, <2>3, <3>1, <3>2 DEF Refresh, DataOK
    <3>4. /\ v.cache = Apply(q.snap, w.pending)
          /\ v.observed = q.epoch /\ v.pending = w.pending /\ v.late = w.late
          /\ (v.load = "ok" \/ v.load = w.load)
      BY <1>1, <3>1 DEF ManagerSet
    <3> QED
      BY <3>3, <3>4
  <2> QED
    BY <2>1, <2>2, <2>3
<1>4. \A m \in Managers : mgr'[m] = IF m = ManagerOf[c] THEN v ELSE mgr[m]
  BY <1>1, <1>3 DEF DataOK
<1>5. \A m \in Managers : FlightOf(call', m) = FlightOf(call, m)
  <2>1. \A d \in Everyone : call'[d].muts = call[d].muts
    BY <1>1, <1>2
  <2> QED
    BY <2>1, FlightSame
<1>6. \A m \in Managers : Unsaved(m)' = Unsaved(m)
  BY <1>3, <1>4, <1>5, UnsavedIs
<1>7. FlightOf(call, ManagerOf[c]) = <<>>
  <2>1. \A d \in Everyone : ManagerOf[d] = ManagerOf[c] => call[d].muts = <<>>
    <3>1. CASE Publish(c)
      <4>1. Flushes(q)
        BY <1>1, <3>1 DEF Publish, At, Fits, Flushes
      <4> QED
        BY <1>1, <4>1, Lone
    <3>2. CASE Loaded(c)
      <4>1. w.save = None
        BY <1>1, <3>2, Same DEF Loaded, At, Fits, Agree
      <4> QED
        BY <4>1, Lone
    <3>3. CASE Refresh(c) /\ call'[c].pc = "done"
      <4>1. w.save = None
        <5>1. call' # [call EXCEPT ![c].pc = "waitSave2", ![c].on = w.save]
          BY <1>1, <3>3 DEF DataOK, CallSet
        <5> QED
          BY <3>3, <5>1 DEF Refresh
      <4> QED
        BY <4>1, Lone
    <3> QED
      BY <3>1, <3>2, <3>3
  <2> QED
    BY <2>1, FlightNone
<1>8. Unsaved(ManagerOf[c]) = w.pending
  <2>1. w.pending \in Seq(Mutation)
    BY <1>1 DEF ManagerSet
  <2> QED
    BY <1>7, <2>1, UnsavedIs, ConcatEmptySeq
<1>9. ASSUME Seen, LatestIsFresh PROVE Seen' /\ LatestIsFresh'
  <2>1. Durable' = Durable
    BY <1>1, DurableIs
  <2>2. \A m \in Managers : mgr'[m].late = mgr[m].late
    BY <1>3, <1>4
  <2>3. NoneLate' = NoneLate
    BY <2>2 DEF NoneLate
  <2>4. \A d \in Everyone : call'[d].pc \in Watched => call'[d] = call[d]
    BY <1>2
  <2>5. q.epoch \in Nat /\ q.epoch <= epoch /\ (q.epoch = epoch /\ NoneLate => q.snap = Durable)
    BY <1>1, <1>9 DEF Seen, CallSet
  <2>6. Seen'
    BY <1>1, <1>3, <1>4, <1>9, <2>1, <2>3, <2>4, <2>5 DEF Seen
  <2>7. ASSUME NEW m \in Managers, mgr'[m].load = "ok", mgr'[m].observed = epoch',
               \A n \in Managers : ~mgr'[n].late
        PROVE  mgr'[m].cache = Apply(Durable', Unsaved(m)')
    <3>1. CASE m # ManagerOf[c]
      <4>1. mgr[m].cache = Apply(Durable, Unsaved(m))
        BY <1>1, <1>4, <1>9, <2>2, <2>7, <3>1 DEF LatestIsFresh
      <4> QED
        BY <1>4, <1>6, <2>1, <3>1, <4>1
    <3>2. CASE m = ManagerOf[c]
      <4>1. q.snap = Durable
        BY <1>1, <1>3, <1>4, <2>2, <2>5, <2>7, <3>2 DEF NoneLate
      <4> QED
        BY <1>3, <1>4, <1>6, <1>8, <2>1, <3>2, <4>1
    <3> QED
      BY <3>1, <3>2
  <2> QED
    BY <2>6, <2>7 DEF LatestIsFresh
<1> QED
  BY <1>2, <1>6, <1>9

(* The move that publishes a flush: it is late until the epoch advances.   *)
LEMMA PublishedStep ==
  ASSUME FInv, NEW c \in Everyone, Published(c)
  PROVE  /\ \A m \in Managers : Unsaved(m)' = Unsaved(m)
         /\ \A d \in Everyone : d # c => call'[d] = call[d]
         /\ call'[c].pc = "dStale"
         /\ Seen => Seen' /\ LatestIsFresh'
<1> DEFINE q == call[c]
           w == mgr[ManagerOf[c]]
<1>1. /\ q \in CallSet /\ DataOK /\ w \in ManagerSet /\ ManagerOf[c] \in Managers
      /\ UNCHANGED epoch /\ Goto(c, "dStale")
      /\ mgr' = [mgr EXCEPT ![ManagerOf[c]].late = @ \/ (file' # file /\ call[c].kind = "flush")]
      /\ file' # file /\ call[c].kind = "flush"
  BY Now DEF Published, Move, FileCall, FInv
<1>2. /\ \A d \in Everyone : d # c => call'[d] = call[d]
      /\ call'[c].muts = q.muts /\ call'[c].pc = "dStale"
  BY <1>1 DEF Goto, DataOK, CallSet
<1>3. PICK v : v = [w EXCEPT !.late = TRUE]
  OBVIOUS
<1>4. v.late /\ v.pending = w.pending /\ v.load = w.load /\ v.observed = w.observed
  BY <1>1, <1>3 DEF ManagerSet
<1>5. \A m \in Managers : mgr'[m] = IF m = ManagerOf[c] THEN v ELSE mgr[m]
  BY <1>1, <1>3 DEF DataOK
<1>6. \A m \in Managers : FlightOf(call', m) = FlightOf(call, m)
  <2>1. \A d \in Everyone : call'[d].muts = call[d].muts
    BY <1>2
  <2> QED
    BY <2>1, FlightSame
<1>7. \A m \in Managers : Unsaved(m)' = Unsaved(m)
  BY <1>4, <1>5, <1>6, UnsavedIs
<1>8. ~NoneLate' /\ ~(\A n \in Managers : ~mgr'[n].late)
  BY <1>1, <1>4, <1>5 DEF NoneLate
<1>9. ASSUME Seen PROVE Seen' /\ LatestIsFresh'
  <2>1. \A d \in Everyone : call'[d].pc \in Watched => call'[d] = call[d]
    BY <1>2 DEF Watched
  <2>2. \A m \in Managers : mgr'[m].load = mgr[m].load /\ mgr'[m].observed = mgr[m].observed
    BY <1>4, <1>5
  <2> QED
    BY <1>1, <1>8, <1>9, <2>1, <2>2 DEF Seen, LatestIsFresh
<1> QED
  BY <1>2, <1>7, <1>9

(* The step that advances the epoch: the mutations of the flush are saved. *)
LEMMA AdvanceStep ==
  ASSUME FInv, Alone, NEW c \in Everyone, DropStale(c), epoch' # epoch
  PROVE  /\ holder = c /\ Durable' = New(call[c])
         /\ \A m \in Managers : m # ManagerOf[c] => Unsaved(m)' = Unsaved(m)
         /\ Unsaved(ManagerOf[c]) = call[c].muts \o Unsaved(ManagerOf[c])'
         /\ \A d \in Everyone : d # c => call'[d] = call[d]
         /\ call'[c].pc \in {"publish", "loaded"}
         /\ Seen => Seen' /\ LatestIsFresh'
<1> DEFINE q == call[c]
           w == mgr[ManagerOf[c]]
<1>1. /\ q \in CallSet /\ Fits(q) /\ Beside(q, file) /\ q.pc = "dStale" /\ holder = c /\ DataOK
      /\ w \in ManagerSet /\ ManagerOf[c] \in Managers /\ q.kind \in {"flush", "load"}
      /\ file \in Files /\ epoch \in Nat
  BY Now DEF DropStale, At, FInv, DataOK, InLock, Fits, Persisting
<1>2. /\ file' = [file EXCEPT !.bak = Absent] /\ epoch' = epoch + 1
      /\ call' = [call EXCEPT ![c].epoch = epoch + 1, ![c].muts = <<>>, ![c].snap = Merged(c),
                       ![c].pc = IF call[c].kind = "flush" THEN "publish" ELSE "loaded"]
      /\ mgr' = [mgr EXCEPT ![ManagerOf[c]].late = @ /\ call[c].kind # "flush"]
  BY DEF DropStale
<1>3. /\ \A d \in Everyone : d # c => call'[d] = call[d]
      /\ call'[c].muts = <<>> /\ call'[c].pc \in {"publish", "loaded"}
      /\ call'[c].epoch = epoch + 1 /\ call'[c].snap = New(q)
  BY <1>1, <1>2, MergedIs DEF DataOK, CallSet
<1>4. /\ \A m \in Managers : /\ mgr'[m].pending = mgr[m].pending /\ mgr'[m].load = mgr[m].load
                             /\ mgr'[m].observed = mgr[m].observed
  <2>1. PICK v : v = [w EXCEPT !.late = @ /\ call[c].kind # "flush"]
    OBVIOUS
  <2>2. v.pending = w.pending /\ v.load = w.load /\ v.observed = w.observed
    BY <1>1, <2>1 DEF ManagerSet
  <2>3. \A m \in Managers : mgr'[m] = IF m = ManagerOf[c] THEN v ELSE mgr[m]
    BY <1>1, <1>2, <2>1 DEF DataOK
  <2> QED
    BY <2>2, <2>3
<1>5. Durable' = New(q)
  <2>1. file.main = New(q) /\ New(q) \in Snapshot
    BY <1>1, MergedIs DEF Beside
  <2>2. file'.main = New(q)
    BY <1>1, <1>2, <2>1 DEF Files
  <2> QED
    BY <2>1, <2>2, ContentIs, DurableIs
<1>6. ASSUME NEW m \in Managers, m # ManagerOf[c] PROVE Unsaved(m)' = Unsaved(m)
  <2>1. FlightOf(call', m) = FlightOf(call, m)
    BY <1>3, <1>6, FlightSame
  <2> QED
    BY <1>4, <2>1, UnsavedIs
<1>7. Unsaved(ManagerOf[c]) = q.muts \o Unsaved(ManagerOf[c])'
  <2>0. PICK m : m = ManagerOf[c]
    OBVIOUS
  <2>1. q.muts \in Seq(Mutation) /\ w.pending \in Seq(Mutation) /\ FlightOf(call, m) \in Seq(Mutation)
    BY <1>1, <2>0, UnsavedType DEF CallSet
  <2>2. CASE q.kind = "flush"
    <3>1. \A d \in Everyone : d # c /\ ManagerOf[d] = m => call[d].muts = <<>>
      BY <2>0, <2>2, Lone DEF Flushes
    <3>2. FlightOf(call, m) = q.muts
      BY <2>0, <3>1, FlightIs
    <3>3. FlightOf(call', m) = <<>>
      BY <1>3, <3>1, FlightNone
    <3>4. <<>> \o w.pending = w.pending
      BY <2>1, ConcatEmptySeq
    <3> QED
      BY <1>1, <1>4, <2>0, <3>2, <3>3, <3>4, UnsavedIs
  <2>3. CASE q.kind = "load"
    <3>1. q.muts = <<>>
      BY <1>1, <2>3 DEF Fits
    <3>2. FlightOf(call', m) = FlightOf(call, m)
      <4>1. \A d \in Everyone : call'[d].muts = call[d].muts
        BY <1>3, <3>1
      <4> QED
        BY <4>1, FlightSame
    <3>3. <<>> \o (FlightOf(call, m) \o w.pending) = FlightOf(call, m) \o w.pending
      BY <2>1, ConcatProperties, ConcatEmptySeq
    <3> QED
      BY <1>1, <1>4, <2>0, <3>1, <3>2, <3>3, UnsavedIs
  <2> QED
    BY <1>1, <2>2, <2>3
<1>8. ASSUME Seen PROVE Seen' /\ LatestIsFresh'
  <2>1. ASSUME NEW d \in Everyone, call'[d].pc \in Watched
        PROVE  call'[d].epoch <= epoch' /\ (call'[d].epoch = epoch' => call'[d].snap = Durable')
    <3>1. CASE d = c
      BY <1>1, <1>2, <1>3, <1>5, <3>1
    <3>2. CASE d # c
      <4>1. PICK e : e = call[d].epoch
        OBVIOUS
      <4>2. call'[d] = call[d] /\ e <= epoch /\ e \in Nat
        BY <1>3, <1>8, <2>1, <3>2, <4>1, Now DEF Seen, CallSet
      <4>3. epoch \in Nat /\ epoch' = epoch + 1
        BY <1>1, <1>2
      <4> QED
        BY <4>1, <4>2, <4>3
    <3> QED
      BY <3>1, <3>2
  <2>2. ASSUME NEW m \in Managers, mgr'[m].load = "ok"
        PROVE  mgr'[m].observed \in Nat /\ mgr'[m].observed <= epoch' /\ mgr'[m].observed # epoch'
    <3>1. mgr'[m].observed = mgr[m].observed /\ mgr[m].observed \in Nat /\ mgr[m].observed <= epoch
      BY <1>4, <1>8, <2>2 DEF Seen
    <3> QED
      BY <1>1, <1>2, <3>1
  <2> QED
    BY <2>1, <2>2 DEF Seen, LatestIsFresh
<1> QED
  BY <1>1, <1>3, <1>5, <1>6, <1>7, <1>8

(* A kill: nothing is loaded, and no call goes on.                         *)
LEMMA CrashForgets ==
  ASSUME FInv, Crash
  PROVE  /\ Seen' /\ LatestIsFresh'
         /\ \A c \in Everyone : call'[c].pc = "ready" \/ call'[c].pc = "failed"
<1>1. \A m \in Managers : mgr'[m].load = "none"
  BY DEF Crash, NewManager
<1>2. \A c \in Everyone : call'[c].pc = "ready" \/ call'[c].pc = "failed"
  BY FreshIs DEF Crash
<1> QED
  BY <1>1, <1>2 DEF Seen, LatestIsFresh, Watched

(* Nothing has been changed yet.                                           *)
LEMMA InitSees ==
  ASSUME Init
  PROVE  Seen /\ LatestIsFresh
<1>1. \A c \in Everyone : call[c].pc = "ready" /\ call[c].muts = <<>>
  BY DEF Init, NewCall
<1>2. \A m \in Managers : FlightOf(call, m) = <<>>
  BY <1>1, FlightNone
<1>3. CASE mgr = [m \in Managers |-> NewManager]
  BY <1>1, <1>3 DEF Seen, LatestIsFresh, Watched, NewManager
<1>4. CASE mgr # [m \in Managers |-> NewManager]
  <2>1. PICK s \in [Tables -> {None, [created |-> 1, val |-> 1]}] :
          /\ file = [main |-> s, bak |-> Absent, tmp |-> Absent, btmp |-> Absent]
          /\ mgr = [m \in Managers |-> [NewManager EXCEPT !.cache = s, !.load = "ok", !.observed = 0]]
    BY <1>4 DEF Init
  <2>2. PICK w : w = [NewManager EXCEPT !.cache = s, !.load = "ok", !.observed = 0]
    OBVIOUS
  <2>3. w.cache = s /\ w.observed = 0 /\ w.pending = <<>>
    BY <2>2 DEF NewManager
  <2>4. \A m \in Managers : mgr[m] = w
    BY <2>1, <2>2
  <2>5. s \in Snapshot
    <3>1. [created |-> 1, val |-> 1] \in Record
      BY CallAssumption DEF Record
    <3> QED
      BY <3>1 DEF Snapshot
  <2>6. Durable = s
    BY <2>1, <2>5, ContentIs, DurableIs
  <2>7. \A m \in Managers : Unsaved(m) = <<>>
    BY <1>2, <2>3, <2>4, UnsavedIs, ConcatEmptySeq
  <2>8. epoch = 0
    BY DEF Init
  <2> QED
    BY <1>1, <2>3, <2>4, <2>6, <2>7, <2>8, ApplyNone DEF Seen, LatestIsFresh, Watched
<1> QED
  BY <1>3, <1>4

-----------------------------------------------------------------------------
(* What a step is                                                          *)

Adopts(c) == Publish(c) \/ Loaded(c) \/ (Refresh(c) /\ call'[c].pc = "done")
Ends(c) == Flushed(c) \/ Requeue(c)

LEMMA CourseOf ==
  ASSUME FInv, Alone, NEW c \in Everyone, Begin(c) \/ Step(c), Kept(file, file')
  PROVE  \/ Calm /\ (Quiet(c) \/ Ends(c) \/ Take(c) \/ (LoadRead(c) /\ ~At(c, "discard")) \/ Refreshed(c))
         \/ DropStale(c) /\ epoch' # epoch
         \/ \E t \in Tables, drop \in BOOLEAN : Mutate(c, t, drop)
         \/ Adopts(c)
         \/ Published(c)
<1>1. CASE Begin(c)
  BY <1>1, QuietBegin, QuietIsCalm DEF Begin
<1>2. CASE Save(c) \/ SaveAfterLoad(c) \/ Latest(c) \/ SaveImmediately(c) \/ StartLoad(c) \/ LoadFailed(c)
  BY <1>2, QuietSave, QuietLatest, QuietBegin, QuietLoad, QuietIsCalm
<1>3. CASE Lock(c) \/ Read(c) \/ RestoreBackup(c) \/ Persist(c) \/ Cleanup(c)
  BY <1>3, QuietFileCall, QuietIsCalm
<1>4. CASE Move(c) \/ DropStale(c)
  <2>1. CASE (Move(c) /\ ~Published(c)) \/ (DropStale(c) /\ epoch' = epoch)
    <3>1. Quiet(c)
      BY <2>1, QuietFailure
    <3> QED
      BY <3>1, QuietIsCalm
  <2> QED
    BY <1>4, <2>1
<1>5. CASE LoadRead(c)
  BY <1>5, QuietFailure, QuietIsCalm, ReadIsCalm
<1>6. CASE Refresh(c)
  BY <1>6, QuietFailure, QuietIsCalm DEF Adopts
<1>7. CASE Publish(c) \/ Loaded(c)
  BY <1>7 DEF Adopts
<1>8. CASE Take(c) \/ Flushed(c) \/ Requeue(c) \/ Refreshed(c)
  BY <1>8, TakeIsCalm, SettleIsCalm, ReadIsCalm DEF Ends
<1> QED
  BY <1>1, <1>2, <1>3, <1>4, <1>5, <1>6, <1>7, <1>8 DEF Step

LEMMA Course ==
  ASSUME FInv, Alone, [Next]_vars
  PROVE  \/ Calm
         \/ Crash
         \/ \E c \in Everyone :
              \/ DropStale(c) /\ epoch' # epoch
              \/ \E t \in Tables, drop \in BOOLEAN : Mutate(c, t, drop)
              \/ Adopts(c)
              \/ Published(c)
<1>1. CASE UNCHANGED vars
  <2>1. UNCHANGED <<file, epoch, mgr, call>>
    BY <1>1 DEF vars
  <2>2. \A m \in Managers : Unsaved(m)' = Unsaved(m)
    BY <2>1, UnsavedIs
  <2> QED
    BY <2>1, <2>2, DurableIs DEF Calm
<1>2. ASSUME NEW c \in Everyone, Begin(c) \/ Step(c), Kept(file, file')
      PROVE  \/ Calm
             \/ DropStale(c) /\ epoch' # epoch
             \/ \E t \in Tables, drop \in BOOLEAN : Mutate(c, t, drop)
             \/ Adopts(c)
             \/ Published(c)
  BY <1>2, CourseOf
<1> QED
  BY <1>1, <1>2, ContentStep DEF Next

LEMMA FreshStep ==
  ASSUME FInv, Alone, Seen, LatestIsFresh, [Next]_vars
  PROVE  Seen' /\ LatestIsFresh'
<1>1. ASSUME NEW c \in Everyone, Adopts(c) PROVE Seen' /\ LatestIsFresh'
  BY <1>1, AdoptStep DEF Adopts
<1> QED
  BY <1>1, Course, CalmKeeps, CrashForgets, AdvanceStep, MutateStep, PublishedStep

-----------------------------------------------------------------------------
(* The steps and what they promise                                         *)

(* No manager undoes the work of another one.                              *)
LEMMA NoUpdateLost ==
  ASSUME FInv, [Next]_vars
  PROVE  /\ Readable => Readable'
         /\ Durable' # Durable => holder # None /\ Durable' = Apply(Durable, call[holder].muts)
<1>1. CASE Kept(file, file')
  BY <1>1, DurableIs DEF Kept
<1>2. ASSUME NEW c \in Everyone, Published(c)
      PROVE  /\ Readable => Readable'
             /\ holder # None /\ Durable' = Apply(Durable, call[holder].muts)
  BY <1>2, DurableIs, Now DEF Published, New
<1> QED
  BY <1>1, <1>2, ContentStep

LEMMA PrefixOf ==
  ASSUME NEW s \in Seq(Mutation)
  PROVE  IsPrefix(s, s) /\ \A mu \in Mutation : IsPrefix(s, Append(s, mu))
<1>1. \A n \in 1..Len(s) : s[n] \in Mutation
  OBVIOUS
<1>2. SubSeq(s, 1, Len(s)) = s
  BY SubSeqFull
<1>3. ASSUME NEW mu \in Mutation PROVE IsPrefix(s, Append(s, mu))
  <2>1. PICK t : t = Append(s, mu)
    OBVIOUS
  <2>2. t \in Seq(Mutation) /\ Len(t) = Len(s) + 1 /\ \A n \in 1..Len(s) : t[n] = s[n]
    BY <2>1
  <2>3. SubSeq(t, 1, Len(s)) = SubSeq(s, 1, Len(s))
    BY <2>2
  <2> QED
    BY <2>1, <2>2, <2>3 DEF IsPrefix
<1> QED
  BY <1>2, <1>3 DEF IsPrefix

(* What is unsaved grows at its end, or has become durable.                *)
LEMMA UnsavedStep ==
  ASSUME FInv, Alone, [Next]_vars, crashes' = crashes, NEW m \in Managers
  PROVE  \/ IsPrefix(Unsaved(m), Unsaved(m)')
         \/ \E c \in Everyone :
              /\ ManagerOf[c] = m /\ holder = c
              /\ Unsaved(m) = call[c].muts \o Unsaved(m)'
              /\ Durable' = Apply(call[c].snap, call[c].muts)
<1>1. Unsaved(m) \in Seq(Mutation)
  BY UnsavedType
<1>2. ASSUME Unsaved(m)' = Unsaved(m) PROVE IsPrefix(Unsaved(m), Unsaved(m)')
  BY <1>1, <1>2, PrefixOf
<1>3. CASE Calm
  BY <1>2, <1>3 DEF Calm
<1>4. ~Crash
  BY DEF FInv, DataOK, Crash
<1>5. ASSUME NEW c \in Everyone, DropStale(c), epoch' # epoch, ManagerOf[c] = m
      PROVE  /\ holder = c /\ Unsaved(m) = call[c].muts \o Unsaved(m)'
             /\ Durable' = Apply(call[c].snap, call[c].muts)
  BY <1>5, AdvanceStep DEF New
<1>6. ASSUME NEW c \in Everyone, DropStale(c), epoch' # epoch, ManagerOf[c] # m
      PROVE  Unsaved(m)' = Unsaved(m)
  BY <1>6, AdvanceStep
<1>7. ASSUME NEW c \in Everyone, NEW t \in Tables, NEW drop \in BOOLEAN, Mutate(c, t, drop)
      PROVE  IsPrefix(Unsaved(m), Unsaved(m)')
  <2>1. CASE ManagerOf[c] = m
    <3>1. PICK mu \in Mutation : Unsaved(m)' = Append(Unsaved(m), mu)
      BY <1>7, <2>1, MutateStep
    <3> QED
      BY <1>1, <3>1, PrefixOf
  <2>2. CASE ManagerOf[c] # m
    BY <1>2, <1>7, <2>2, MutateStep
  <2> QED
    BY <2>1, <2>2
<1>8. ASSUME NEW c \in Everyone, Adopts(c) PROVE Unsaved(m)' = Unsaved(m)
  BY <1>8, AdoptStep DEF Adopts
<1>9. ASSUME NEW c \in Everyone, Published(c) PROVE Unsaved(m)' = Unsaved(m)
  BY <1>9, PublishedStep
<1> QED
  BY <1>2, <1>3, <1>4, <1>5, <1>6, <1>7, <1>8, <1>9, Course

(* The call c ends well when the flush of d does: nothing is unsaved.      *)
LEMMA EndIsDurable ==
  ASSUME FInv, Alone, NEW c \in Everyone, NEW d \in Everyone, Ends(d),
         call[c].pc \in {"awaitLoad", "waitSave", "flushed"}, call'[c].pc = "done"
  PROVE  Unsaved(ManagerOf[c])' = <<>>
<1> DEFINE w == mgr[ManagerOf[c]]
<1>1. PICK ok \in BOOLEAN : /\ Settle(d, ok)
                            /\ IF ok THEN call[d].pc = "flushed"
                               ELSE call[d].pc = "error" /\ call[d].kind = "flush"
  BY DEF Ends, Flushed, Requeue, At
<1>2. /\ call[c] \in CallSet /\ Fits(call[c]) /\ ManagerOf[c] \in Managers /\ w \in ManagerSet
      /\ d # None /\ DataOK
  BY Now DEF FInv
<1>3. ASSUME d = c PROVE ok /\ ~w.dirty /\ ManagerOf[d] = ManagerOf[c]
  <2>1. PICK l : l = CASE ~ok -> "failed" [] ok /\ Me(d).dirty -> "save" [] OTHER -> call[d].then
    OBVIOUS
  <2>2. call'[d] = [Fresh(l) EXCEPT !.then = call[d].then]
    BY <1>1, <2>1, SettleIs
  <2>3. l = "done"
    BY <1>3, <2>2 DEF Fresh, NewCall
  <2> QED
    BY <1>3, <2>1, <2>3 DEF Me
<1>4. ASSUME d # c PROVE ok /\ ~w.dirty /\ ManagerOf[d] = ManagerOf[c]
  <2>1. call[c].on = d
    BY <1>1, <1>4, SettleIs
  <2>2. call[c].pc = "waitSave" /\ w.save = d /\ ManagerOf[d] = ManagerOf[c]
    BY <1>2, <2>1, Same DEF Agree, Tidy, Waiting
  <2>3. PICK l : l = CASE ~ok -> IF call[c].kind = "load" THEN "error" ELSE "failed"
                        [] ok /\ call[c].pc = "waitSave" ->
                             IF Me(c).dirty THEN "save" ELSE call[c].then
                        [] ok /\ call[c].pc = "waitSave2" -> "latest"
                        [] OTHER -> "lock"
    OBVIOUS
  <2>4. call'[c] = [call[c] EXCEPT !.on = None, !.pc = l]
    BY <1>1, <1>4, <2>1, <2>3 DEF Settle
  <2>5. l = "done"
    BY <1>2, <2>4 DEF CallSet
  <2> QED
    BY <2>2, <2>3, <2>5 DEF Me
<1>5. ok /\ ~w.dirty /\ ManagerOf[d] = ManagerOf[c]
  BY <1>3, <1>4
<1>6. w.pending = <<>>
  BY <1>5, Same DEF Tidy
<1>7. FlightOf(call, ManagerOf[c]) = <<>>
  <2>1. Flushes(call[d]) /\ call[d].muts = <<>>
    BY <1>1, <1>5, QuietMutes DEF Flushes, Working, InLock
  <2>2. \A e \in Everyone : ManagerOf[e] = ManagerOf[c] => call[e].muts = <<>>
    BY <1>5, <2>1, Lone
  <2> QED
    BY <2>2, FlightNone
<1>8. Unsaved(ManagerOf[c])' = Unsaved(ManagerOf[c])
  BY <1>2, SettleIsCalm DEF Ends, Calm
<1> QED
  BY <1>6, <1>7, <1>8, UnsavedIs, ConcatEmptySeq

(* A call that reports success from a save has left nothing unsaved.       *)
LEMMA SavedStep ==
  ASSUME FInv, Alone, [Next]_vars, NEW c \in Everyone,
         call[c].pc \in {"awaitLoad", "waitSave", "flushed"}, call'[c].pc = "done"
  PROVE  Unsaved(ManagerOf[c])' = <<>>
<1> DEFINE w == mgr[ManagerOf[c]]
<1>1. ~Crash /\ ~(UNCHANGED vars)
  BY CrashForgets DEF vars
<1>2. ASSUME NEW d \in Everyone, Published(d) PROVE FALSE
  BY <1>2, PublishedStep
<1>3. PICK d \in Everyone : Begin(d) \/ Step(d)
  BY <1>1 DEF Next
<1>4. Kept(file, file')
  BY <1>2, ContentStep
<1>5. CASE Ends(d)
  BY <1>5, EndIsDurable
<1>6. CASE ~Ends(d)
  <2>1. d = c
    <3>1. ASSUME d # c PROVE call'[c] = call[c]
      <4>1. CASE Quiet(d)
        BY <3>1, <4>1 DEF Quiet
      <4>0. call \in [Everyone -> CallSet]
        BY DEF FInv, DataOK
      <4>2. CASE LoadRead(d) \/ Refreshed(d)
        BY <3>1, <4>0, <4>2 DEF LoadRead, Refreshed, Goto, FileCall
      <4>3. CASE DropStale(d) /\ epoch' # epoch
        BY <3>1, <4>3, AdvanceStep
      <4>4. CASE \E t \in Tables, drop \in BOOLEAN : Mutate(d, t, drop)
        BY <3>1, <4>0, <4>4 DEF Mutate, Goto
      <4>5. CASE Adopts(d)
        BY <3>1, <4>5, AdoptStep DEF Adopts
      <4>6. CASE Take(d)
        BY <3>1, <4>0, <4>6 DEF Take, Goto
      <4> QED
        BY <1>2, <1>3, <1>4, <1>6, <4>1, <4>2, <4>3, <4>4, <4>5, <4>6, CourseOf
    <3> QED
      BY <3>1
  <2>2. SaveAfterLoad(c)
    <3>1. ~Begin(c)
      BY DEF Begin, StartUp, BeginLatest, BeginReload, TimerFires, Mutate, Ready, At
    <3>2. ~(Save(c) \/ Take(c) \/ Lock(c) \/ Read(c) \/ Publish(c) \/ StartLoad(c) \/ LoadFailed(c))
      BY DEF Save, Take, Lock, Read, Publish, StartLoad, LoadFailed, At
    <3>3. ~(RestoreBackup(c) \/ Persist(c) \/ Move(c) \/ Cleanup(c) \/ DropStale(c) \/ LoadRead(c))
      BY DEF RestoreBackup, Persist, Move, Cleanup, DropStale, LoadRead, At
    <3>4. ~(Loaded(c) \/ Latest(c) \/ Refreshed(c) \/ Refresh(c) \/ SaveImmediately(c))
      BY DEF Loaded, Latest, Refreshed, Refresh, SaveImmediately, At
    <3> QED
      BY <1>3, <1>6, <2>1, <3>1, <3>2, <3>3, <3>4 DEF Step, Ends
  <2>3. /\ call[c] \in CallSet /\ DataOK /\ ManagerOf[c] \in Managers /\ call[c].pc = "awaitLoad"
    BY <2>2, Now DEF FInv, SaveAfterLoad, At
  <2>4. ~w.dirty
    <3>1. ~End(c, "failed")
      BY <2>3, FreshIs DEF End, DataOK
    <3>2. ~Goto(c, "take")
      BY <2>3 DEF Goto, DataOK, CallSet
    <3> QED
      BY <2>2, <3>1, <3>2 DEF SaveAfterLoad, Me
  <2>5. w.pending = <<>> /\ w.save = None
    BY <2>3, <2>4, Same DEF Tidy, Agree
  <2>6. FlightOf(call, ManagerOf[c]) = <<>>
    BY <2>5, Lone, FlightNone
  <2>7. Calm
    BY <1>4, <2>2, QuietSave, QuietIsCalm
  <2>8. Unsaved(ManagerOf[c])' = Unsaved(ManagerOf[c])
    BY <2>3, <2>7 DEF Calm
  <2> QED
    BY <2>5, <2>6, <2>8, UnsavedIs, ConcatEmptySeq
<1> QED
  BY <1>5, <1>6

-----------------------------------------------------------------------------
(* The theorems                                                            *)

Shared == Alone /\ Seen /\ LatestIsFresh

LEMMA FInvType ==
  ASSUME FInv
  PROVE  TypeOK
<1>1. file.main \in Snapshot \cup {Absent, Torn} /\ file.bak \in Snapshot \cup {Absent, Torn}
      /\ file.tmp \in Snapshot \cup {Absent, Torn} /\ file.btmp \in Snapshot \cup {Absent, Torn}
  BY DEF FInv, DataOK, Files
<1>2. \A f \in {"main", "bak", "tmp", "btmp"} : file[f] \in Snapshot \cup {Absent, Torn}
  BY <1>1
<1>3. \A m \in Managers : mgr[m] \in ManagerSet
  BY DEF FInv, DataOK
<1>4. \A m \in Managers : /\ mgr[m].cache \in Snapshot /\ mgr[m].pending \in Seq(Mutation)
                          /\ {mgr[m].dirty, mgr[m].timer, mgr[m].late} \subseteq BOOLEAN
                          /\ mgr[m].save \in Everyone \cup {None}
                          /\ mgr[m].load \in {"none", "running", "ok", "failed"}
                          /\ mgr[m].observed \in Nat \cup {None}
  BY <1>3 DEF ManagerSet
<1>5. clock \in 0..MaxClock
  BY CallAssumption DEF FInv, DataOK
<1> QED
  BY <1>2, <1>4, <1>5 DEF TypeOK, FInv, DataOK

(* The invariant of calls and files.                                      *)
THEOREM Invariant == Spec => []FInv
<1>1. Init => FInv
  BY InitEstablishes
<1>2. FInv /\ [Next]_vars => FInv'
  BY StepKeeps
<1> QED
  BY <1>1, <1>2, PTL DEF Spec

(* The invariants of managers, when saves do not overtake each other.      *)
THEOREM SharedInvariant == ~Overtaking /\ Spec => []Shared
<1> SUFFICES ASSUME ~Overtaking PROVE Spec => []Shared
  OBVIOUS
<1>1. Init => Shared
  BY InitEstablishes, InitSees DEF Shared
<1>2. FInv /\ Shared /\ [Next]_vars => Shared'
  BY StepKeeps, FreshStep DEF Shared
<1> QED
  BY <1>1, <1>2, Invariant, PTL DEF Spec

(* Files, lock, managers and calls keep their types: whoever is between    *)
(* lock and unlock has the lock (MetadataManager, withMetadataPathLock).   *)
THEOREM TypeCorrect == Spec => []TypeOK
BY Invariant, FInvType, PTL

(* Once there is a readable snapshot there always is one, whatever fails   *)
(* and wherever the process is killed (persistSnapshot,                    *)
(* restoreBackupSnapshot), overtaking saves included.                      *)
THEOREM SurvivesHolds == Spec => SnapshotSurvives
<1>1. FInv /\ [Next]_vars => [Readable => Readable']_vars
  BY NoUpdateLost
<1> QED
  BY <1>1, Invariant, PTL DEF Spec, SnapshotSurvives

(* What is durable changes by the mutations of the call that has the lock, *)
(* applied to what is durable at that moment: no manager undoes the work   *)
(* of another (flushDirtyState), overtaking saves included.                *)
THEOREM NoLostUpdateHolds == Spec => NoLostUpdate
<1>1. FInv /\ [Next]_vars =>
        [Durable' # Durable => holder # None /\ Durable' = Apply(Durable, call[holder].muts)]_vars
  BY NoUpdateLost
<1> QED
  BY <1>1, Invariant, PTL DEF Spec, NoLostUpdate

(* A manager that has seen the current epoch answers with the durable      *)
(* snapshot and its own unsaved mutations, unless a flush has published    *)
(* and not reported success (getLatest, load, flushDirtyState).            *)
THEOREM ConsistentHolds == ~Overtaking /\ Spec => []Consistent
<1>1. FInv /\ Shared => Consistent
  BY FInvType DEF Shared, Consistent
<1> QED
  BY <1>1, Invariant, SharedInvariant, PTL

(* Nothing is lost: the two theorems above, and no mutation leaves the     *)
(* memory of a living manager before it is durable, failed flushes and     *)
(* those that were late included (flushDirtyState).                        *)
THEOREM NothingLostHolds == ~Overtaking /\ Spec => NothingLost
<1>1. FInv /\ Shared /\ [Next]_vars =>
        [crashes' = crashes =>
           \A m \in Managers :
              \/ IsPrefix(Unsaved(m), Unsaved(m)')
              \/ \E c \in Everyone :
                   /\ ManagerOf[c] = m /\ holder = c
                   /\ Unsaved(m) = call[c].muts \o Unsaved(m)'
                   /\ Durable' = Apply(call[c].snap, call[c].muts)]_vars
  BY UnsavedStep DEF Shared
<1>2. ~Overtaking /\ Spec => NothingForgotten
  BY <1>1, Invariant, SharedInvariant, PTL DEF Spec, NothingForgotten
<1> QED
  BY <1>2, SurvivesHolds, NoLostUpdateHolds, PTL DEF NothingLost

(* A save that reports success leaves no mutation of its manager unsaved,  *)
(* whether it flushed itself, waited for the flush of another call or found *)
(* nothing to do (save, saveImmediately).                                  *)
THEOREM SavedIsDurableHolds == ~Overtaking /\ Spec => SavedIsDurable
<1>1. FInv /\ Shared /\ [Next]_vars =>
        [\A c \in Calls : call[c].pc \in {"awaitLoad", "waitSave", "flushed"} /\ call'[c].pc = "done"
           => Unsaved(ManagerOf[c])' = <<>>]_vars
  BY SavedStep DEF Shared, Everyone
<1> QED
  BY <1>1, Invariant, SharedInvariant, PTL DEF Spec, SavedIsDurable
=============================================================================
