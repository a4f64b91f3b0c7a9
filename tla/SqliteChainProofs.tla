-------------------------- MODULE SqliteChainProofs --------------------------
(***************************************************************************)
(* Proofs about SqliteChain, for any tables, calls and scopes: its type    *)
(* invariant; that every transaction is closed by the task of the chain    *)
(* that opened it, however calls overlap and statements fail; and that     *)
(* calls made one after the other implement AtomicTable.                   *)
(*                                                                         *)
(* The invariant has two parts.  What a call has to do is complete: where  *)
(* it uses a write, a row or a snapshot, it has one (Sound).  And where a  *)
(* call is says what it may hold: it waits in the chain exactly when it is *)
(* queued, and the call of the task is in one of three places, a           *)
(* transaction of its own, a single statement or the replay of a commit    *)
(* (Inside), while any other call is in none that ends a task (Outside).   *)
(*                                                                         *)
(* For the refinement, the tables show what the call found until its       *)
(* COMMIT or, for a drop, its metadata; then what it is to leave           *)
(* (Flipped).  Before that, the rows that statements see lead there: what  *)
(* is left of a write completes them (Toward), and a commit follows the    *)
(* path of its writes (OnPath).  RInv says so of the one call under way.   *)
(***************************************************************************)
EXTENDS SqliteChain, FiniteSetTheorems, WellFoundedInduction, TLAPS

-----------------------------------------------------------------------------
(* Sets of ids                                                             *)

(* Induction up to N, for a set of numbers.                                *)
LEMMA UpTo ==
  ASSUME NEW N \in Nat, NEW G, 0 \in G, \A n \in 1..N : n - 1 \in G => n \in G
  PROVE  0..N \subseteq G
<1> DEFINE S == {n \in 0..N : n \notin G}
           R == OpToRel(<, Nat)
<1>1. SUFFICES ASSUME S # {} PROVE FALSE
  OBVIOUS
<1>2. PICK n \in S : \A m \in S : ~ (<<m, n>> \in R)
  <2>1. IsWellFoundedOn(R, Nat)
    BY NatLessThanWellFounded
  <2>2. S \subseteq Nat
    OBVIOUS
  <2> HIDE DEF S
  <2> QED
    BY <1>1, <2>1, <2>2, WFMin
<1>3. \A m \in S : ~ (m < n)
  <2>1. \A m \in S : m \in Nat /\ n \in Nat
    OBVIOUS
  <2> HIDE DEF S
  <2> QED
    BY <1>2, <2>1 DEF OpToRel
<1>4. n \in 1..N /\ n - 1 \in 0..N
  OBVIOUS
<1>5. n - 1 \in G
  BY <1>3, <1>4
<1> QED
  BY <1>4, <1>5

(* The ids of a table, and its rows.                                       *)
IdSets == UNION {SUBSET (0..n) : n \in Nat}
RowSets == UNION {[D -> Calls] : D \in IdSets}

LEMMA IdSetIsFinite ==
  ASSUME NEW D \in IdSets
  PROVE  /\ IsFiniteSet(D) /\ Cardinality(D) \in Nat
         /\ \A k : IsFiniteSet({j \in D : j <= k})
<1>1. PICK n \in Nat : D \in SUBSET (0..n)
  BY DEF IdSets
<1>2. IsFiniteSet(0..n)
  BY <1>1, FS_Interval
<1>3. IsFiniteSet(D)
  BY <1>1, <1>2, FS_Subset
<1>4. \A k : {j \in D : j <= k} \in SUBSET D
  OBVIOUS
<1> QED
  BY <1>3, <1>4, FS_Subset, FS_CardinalityType

(* A set of ids has a greatest one.                                        *)
LEMMA MaxIsIn ==
  ASSUME NEW D \in IdSets
  PROVE  /\ Max({0} \cup D) \in Nat
         /\ D \cup {Max({0} \cup D) + 1} \in IdSets
         /\ \A y \in D : y \in Nat /\ y < Max({0} \cup D) + 1
<1> DEFINE E == {0} \cup D
<1>1. PICK N \in Nat : D \in SUBSET (0..N)
  BY DEF IdSets
<1> DEFINE G == {n \in 0..N : \E x \in E : (\A y \in E : y <= n => x >= y)}
<1>2. 0 \in G
  <2>1. \A y \in E : y <= 0 => 0 >= y
    BY <1>1
  <2> QED
    BY <1>1, <2>1
<1>3. ASSUME NEW n \in 1..N, n - 1 \in G PROVE n \in G
  <2>1. PICK x \in E : \A y \in E : y <= n - 1 => x >= y
    BY <1>3
  <2>2. \A y \in E : y \in Nat /\ (y <= n => (y <= n - 1 \/ y = n))
    BY <1>1
  <2>3. CASE n \in E
    <3>1. \A y \in E : y <= n => n >= y
      BY <2>2
    <3> QED
      BY <2>3, <3>1
  <2>4. CASE n \notin E
    <3>1. \A y \in E : y <= n => x >= y
      BY <2>1, <2>2, <2>4
    <3> QED
      BY <3>1
  <2> QED
    BY <2>3, <2>4
<1>4. N \in G
  <2>1. 0..N \subseteq G
    <3> HIDE DEF G
    <3> QED
      BY <1>2, <1>3, UpTo
  <2> QED
    BY <2>1
<1>5. PICK x \in E : \A y \in E : x >= y
  <2>1. \A y \in E : y <= N
    BY <1>1
  <2> QED
    BY <1>4, <2>1
<1>6. Max(E) \in E /\ \A y \in E : Max(E) >= y
  BY <1>5 DEF Max
<1>7. Max(E) \in 0..N
  <2>1. E \subseteq 0..N
    BY <1>1
  <2> HIDE DEF E
  <2> QED
    BY <1>6, <2>1
<1>8. D \cup {Max(E) + 1} \in SUBSET (0..(N + 1))
  <2>1. Max(E) + 1 \in 0..(N + 1)
    BY <1>7
  <2>2. D \subseteq 0..(N + 1)
    BY <1>1
  <2> QED
    BY <2>1, <2>2
<1>9. N + 1 \in Nat
  OBVIOUS
<1>10. \A y \in D : y \in Nat /\ y < Max(E) + 1
  <2>1. \A y \in D : y \in E /\ y \in Nat
    BY <1>1
  <2> HIDE DEF E
  <2> QED
    BY <1>6, <1>7, <2>1
<1> QED
  BY <1>7, <1>8, <1>9, <1>10 DEF IdSets

LEMMA AddId ==
  ASSUME NEW D \in IdSets, NEW k \in Nat
  PROVE  D \cup {k} \in IdSets
<1>1. PICK N \in Nat : D \in SUBSET (0..N)
  BY DEF IdSets
<1>2. D \cup {k} \in SUBSET (0..(N + k))
  BY <1>1
<1>3. N + k \in Nat
  OBVIOUS
<1> QED
  BY <1>2, <1>3 DEF IdSets

(* Every rank up to the number of ids is that of an id.                    *)
LEMMA RankIsTaken ==
  ASSUME NEW D \in IdSets, NEW i \in 1..Cardinality(D)
  PROVE  \E k \in D : Cardinality({j \in D : j <= k}) = i
<1> DEFINE U(k) == {j \in D : j <= k}
           Taken(k) == \A r \in 1..Cardinality(U(k)) : \E m \in D : Cardinality(U(m)) = r
<1>1. PICK N \in Nat : D \in SUBSET (0..N)
  BY DEF IdSets
<1> DEFINE G == {n \in 0..(N + 1) : Taken(n - 1)}
<1>2. \A k : IsFiniteSet(U(k)) /\ Cardinality(U(k)) \in Nat
  BY IdSetIsFinite, FS_CardinalityType
<1>3. 0 \in G
  <2>1. U(0 - 1) = {}
    <3>1. \A j \in D : ~ (j <= 0 - 1)
      BY <1>1
    <3> QED
      BY <3>1
  <2>2. Cardinality(U(0 - 1)) = 0
    BY <2>1, FS_EmptySet
  <2>3. 1..Cardinality(U(0 - 1)) = {}
    BY <2>2
  <2> HIDE DEF U
  <2> QED
    BY <1>1, <2>3
<1>4. ASSUME NEW n \in 1..(N + 1), n - 1 \in G PROVE n \in G
  <2> DEFINE p == n - 1
  <2>1. Taken(p - 1) /\ p \in Nat
    BY <1>4
  <2>2. CASE p \in D
    <3>1. U(p) = U(p - 1) \cup {p} /\ p \notin U(p - 1)
      <4>1. \A j \in D : (j <= p <=> (j <= p - 1 \/ j = p)) /\ ~ (p <= p - 1)
        BY <1>1, <2>1
      <4> HIDE DEF p
      <4> QED
        BY <2>2, <4>1
    <3>2. Cardinality(U(p)) = Cardinality(U(p - 1)) + 1
      BY <1>2, <3>1, FS_AddElement
    <3> HIDE DEF U, p
    <3>3. \A r \in 1..Cardinality(U(p)) : r \in 1..Cardinality(U(p - 1)) \/ r = Cardinality(U(p))
      BY <1>2, <3>2
    <3>4. Taken(p)
      BY <2>1, <2>2, <3>3
    <3> QED
      BY <3>4 DEF p
  <2>3. CASE p \notin D
    <3>1. U(p) = U(p - 1)
      <4>1. \A j \in D : (j # p => (j <= p <=> j <= p - 1))
        BY <1>1, <2>1
      <4> HIDE DEF p
      <4> QED
        BY <2>3, <4>1
    <3>2. Taken(p)
      BY <2>1, <3>1
    <3> HIDE DEF Taken
    <3> QED
      BY <3>2
  <2> QED
    BY <2>2, <2>3
<1>5. Taken(N)
  <2>1. 0..(N + 1) \subseteq G
    <3> HIDE DEF G
    <3> QED
      BY <1>3, <1>4, UpTo
  <2>2. N + 1 \in 0..(N + 1) /\ (N + 1) - 1 = N
    BY <1>1
  <2>3. N + 1 \in G
    <3> HIDE DEF G
    <3> QED
      BY <2>1, <2>2
  <2> HIDE DEF Taken
  <2> QED
    BY <2>2, <2>3
<1>6. U(N) = D
  <2>1. \A j \in D : j <= N
    BY <1>1
  <2> QED
    BY <2>1
<1> QED
  BY <1>5, <1>6

(* The rows of a table are a sequence of the calls that wrote them.        *)
LEMMA RowsAreSeq ==
  ASSUME NEW f \in RowSets
  PROVE  Rows(f) \in Seq(Calls)
<1>1. PICK D \in IdSets : f \in [D -> Calls]
  BY DEF RowSets
<1>2. Cardinality(D) \in Nat
  BY IdSetIsFinite
<1> DEFINE id(i) == CHOOSE k \in D : Cardinality({j \in D : j <= k}) = i
<1>3. \A i \in 1..Cardinality(D) : f[id(i)] \in Calls
  BY <1>1, RankIsTaken
<1>4. Rows(f) = [i \in 1..Cardinality(D) |-> f[id(i)]]
  BY <1>1 DEF Rows
<1> HIDE DEF id
<1>5. Rows(f) \in [1..Cardinality(D) -> Calls]
  BY <1>3, <1>4
<1> QED
  BY <1>2, <1>5

LEMMA EmptyTable == <<>> \in RowSets
<1>1. {} \in IdSets
  BY DEF IdSets
<1>2. <<>> \in [{} -> Calls]
  OBVIOUS
<1> QED
  BY <1>1, <1>2 DEF RowSets

LEMMA RowAdded ==
  ASSUME NEW f \in RowSets, NEW k \in Nat, NEW c \in Calls
  PROVE  [i \in DOMAIN f \cup {k} |-> IF i = k THEN c ELSE f[i]] \in RowSets
<1>1. PICK D \in IdSets : f \in [D -> Calls]
  BY DEF RowSets
<1>2. D \cup {k} \in IdSets
  BY AddId
<1>3. [i \in DOMAIN f \cup {k} |-> IF i = k THEN c ELSE f[i]] \in [D \cup {k} -> Calls]
  BY <1>1
<1> QED
  BY <1>2, <1>3 DEF RowSets

LEMMA RowSetIs ==
  ASSUME NEW f \in RowSets
  PROVE  DOMAIN f \in IdSets /\ Range(f) \subseteq Calls
BY DEF RowSets, Range

(* A finite set has an enumeration, and SetToSeq is one.                   *)
LEMMA SetToSeqIs ==
  ASSUME NEW S, IsFiniteSet(S)
  PROVE  SetToSeq(S) \in Seq(S)
<1>1. ExistsBijection(1..Cardinality(S), S) /\ Cardinality(S) \in Nat
  BY FS_CardinalityType
<1>2. \E f \in [1..Cardinality(S) -> S] : IsInjective(f)
  BY <1>1 DEF ExistsBijection, Bijection, Injection, Surjection, IsInjective
<1>3. SetToSeq(S) \in [1..Cardinality(S) -> S]
  BY <1>2 DEF SetToSeq
<1> QED
  BY <1>1, <1>3

-----------------------------------------------------------------------------
(* What a call has to do                                                   *)

Pcs == {"idle", "enter", "queued", "delete", "select", "insert", "commit", "rollback",
        "ended", "aborted", "read", "count", "publish", "undo", "dropMeta", "purge",
        "ok", "done", "failed"}

WriteSet == [table: Tables, items: Seq(Calls), over: BOOLEAN, counted: BOOLEAN, ddl: BOOLEAN]

Snapshots == [Tables -> RowSets]

States == [pc: Pcs, job: {"tx", "replay", "read", "count", "purge"}, todo: Seq(WriteSet),
           left: Seq(Calls), id: Nat, got: Nat, outer: BOOLEAN, restoring: BOOLEAN,
           snapshot: Snapshots \cup {<<>>}]

NoDdl(todo) == \A i \in 1..Len(todo) : ~ todo[i].ddl

(* Only a commit has a replay around its writes; it creates no table, and  *)
(* it can restore what it found as long as it has not begun to.            *)
Core(c, s) ==
  /\ s \in States
  /\ s.outer => Replay(c)
  /\ s.job = "replay" => Replay(c)
  /\ Replay(c) => NoDdl(s.todo)
  /\ Replay(c) /\ ~ s.restoring => s.snapshot \in Snapshots

(* Where a call is at a write, it has one, and a row where it inserts one. *)
HasWrite(s) ==
  \/ s.pc \in {"delete", "select", "insert", "count", "publish"}
  \/ s.pc \in {"enter", "queued"} /\ s.job \in {"tx", "count"}
  \/ s.pc \in {"commit", "rollback", "ended", "aborted"} /\ ~ s.outer

Shape(s) ==
  /\ s.job = "replay" => s.pc \in {"enter", "queued"}
  /\ s.pc \in {"delete", "select", "insert"} => s.job = "tx"
  /\ s.pc \in {"read", "count", "purge"} => s.job = s.pc
  /\ s.pc = "insert" => s.left # <<>>
  /\ HasWrite(s) => s.todo # <<>>

(* A call that is over has nothing left.                                   *)
Over(s) == s.pc \in {"done", "failed"}
Settled(s) == IF Over(s) THEN [Idle EXCEPT !.pc = s.pc] ELSE s

Ready(c, s) == Over(s) \/ (Core(c, s) /\ Shape(s) /\ s.pc # "idle")

Sound(c, s) ==
  /\ s \in States
  /\ IF s.pc = "idle" \/ Over(s) THEN s = [Idle EXCEPT !.pc = s.pc]
     ELSE Core(c, s) /\ Shape(s)

(* The places of the call of the task, and those of any other.             *)
InOwn(s) ==
  /\ ~ s.outer /\ s.job = "tx"
  /\ s.pc \in {"delete", "select", "insert", "commit", "rollback", "ended", "aborted"}

InReplay(s) ==
  /\ s.outer /\ s.job \in {"tx", "count"}
  /\ s.pc \in {"enter", "delete", "select", "insert", "count", "publish",
               "commit", "rollback", "ended", "aborted"}

InSingle(s) == ~ s.outer /\ s.job = s.pc /\ s.pc \in {"read", "count", "purge"}

Outside(s) ==
  Over(s) \/ (~ s.outer /\ s.pc \notin {"commit", "rollback", "ended", "aborted"})

(* A statement neither enters nor leaves a task, and only COMMIT and       *)
(* ROLLBACK end a transaction.                                             *)
Keeps(c, s, u) ==
  /\ c \in task /\ InOwn(s) => InOwn(u)
  /\ c \in task /\ InReplay(s) => InReplay(u)
  /\ c \in task /\ InSingle(s) => InSingle(u)
  /\ c \notin task /\ Outside(s) => Outside(u)
  /\ u.pc # "queued"

Stays(c, s, u) == Keeps(c, s, u) /\ u.pc \notin {"ended", "aborted"}

LEMMA IdleIs ==
  Idle \in States /\ Idle.pc = "idle" /\ Idle.job = "tx" /\ Idle.todo = <<>> /\ ~ Idle.outer
BY DEF Idle, States, Pcs

LEMMA SettledIs ==
  ASSUME NEW c, NEW u, Ready(c, u)
  PROVE  /\ Sound(c, Settled(u)) /\ Settled(u).pc = u.pc
         /\ Outside(u) => Outside(Settled(u))
         /\ ~ Over(u) => Settled(u) = u
<1>1. CASE Over(u)
  <2>1. [Idle EXCEPT !.pc = u.pc] \in States /\ [Idle EXCEPT !.pc = u.pc].pc = u.pc
    BY <1>1, IdleIs DEF Over, States, Pcs
  <2> QED
    BY <1>1, <2>1 DEF Sound, Settled, Over, Outside
<1>2. CASE ~ Over(u)
  BY <1>2 DEF Ready, Sound, Settled, Core
<1> QED
  BY <1>1, <1>2

(* What NextWrite leaves.                                                  *)
LEMMA NextWriteIs ==
  ASSUME NEW c, NEW s, Core(c, s), NEW todo \in Seq(WriteSet), Replay(c) => NoDdl(todo)
  PROVE  /\ Ready(c, NextWrite(s, todo))
         /\ s.outer => InReplay(NextWrite(s, todo))
         /\ ~ s.outer => Outside(NextWrite(s, todo))
         /\ NextWrite(s, todo).pc \notin {"queued", "ended", "aborted", "done"}
<1> DEFINE u == NextWrite(s, todo)
           p == IF todo # <<>> THEN "enter"
                ELSE IF s.outer THEN IF s.restoring THEN "rollback" ELSE "commit"
                ELSE IF s.restoring THEN "failed" ELSE "ok"
<1>1. p \in {"enter", "rollback", "commit", "failed", "ok"}
  OBVIOUS
<1>2. u \in States
  <2>1. s \in States /\ p \in Pcs
    BY <1>1 DEF Core, Pcs
  <2>2. u = [s EXCEPT !.todo = todo, !.job = "tx", !.id = 0, !.got = 0, !.left = <<>>, !.pc = p]
    BY DEF NextWrite
  <2>3. 0 \in Nat /\ <<>> \in Seq(Calls) /\ "tx" \in {"tx", "replay", "read", "count", "purge"}
    OBVIOUS
  <2> HIDE DEF p, u
  <2>4. [s EXCEPT !.todo = todo, !.job = "tx"] \in States
    BY <2>1, <2>3 DEF States
  <2>5. [s EXCEPT !.todo = todo, !.job = "tx", !.id = 0, !.got = 0] \in States
    BY <2>1, <2>3 DEF States
  <2> QED
    BY <2>1, <2>2, <2>3 DEF States
<1>3. /\ u.pc = p /\ u.todo = todo /\ u.job = "tx" /\ u.outer = s.outer
      /\ u.restoring = s.restoring /\ u.snapshot = s.snapshot
  BY DEF Core, NextWrite, States
<1> HIDE DEF u
<1>4. Core(c, u)
  BY <1>2, <1>3 DEF Core
<1>5. Shape(u)
  BY <1>3 DEF Shape, HasWrite
<1>6. Ready(c, u)
  BY <1>1, <1>3, <1>4, <1>5 DEF Ready
<1>7. s.outer => InReplay(u)
  BY <1>3 DEF InReplay
<1>8. ~ s.outer => Outside(u)
  BY <1>3 DEF Outside, Over
<1>9. u.pc \notin {"queued", "ended", "aborted", "done"}
  BY <1>1, <1>3
<1> QED
  BY <1>6, <1>7, <1>8, <1>9 DEF u

(* The writes that restore the tables of a commit.                         *)
LEMMA RestoresIs ==
  ASSUME scope \in Scope, NEW s, s.snapshot \in Snapshots
  PROVE  /\ Restores(s) \in Seq(WriteSet) /\ NoDdl(Restores(s))
         /\ \A i \in 1..Len(Restores(s)) :
              \E j \in DOMAIN scope.ops : Restores(s)[i].table = scope.ops[j].table
<1> DEFINE T == {scope.ops[i].table : i \in DOMAIN scope.ops}
           n == Len(scope.ops)
           touched == SetToSeq(T)
           w(i) == Write(touched[i], Rows(s.snapshot[touched[i]]), TRUE, FALSE, FALSE)
<1>1. n \in Nat /\ DOMAIN scope.ops = 1..n /\ \A i \in 1..n : scope.ops[i].table \in Tables
  <2>1. scope.ops \in Seq([table: Tables, over: BOOLEAN])
    BY DEF Scope
  <2>2. n \in Nat /\ DOMAIN scope.ops = 1..n
    BY <2>1
  <2>3. \A R : scope.ops \in Seq(R) => \A i \in 1..n : scope.ops[i] \in R
    BY <2>2
  <2>4. \A i \in 1..n : scope.ops[i] \in [table: Tables, over: BOOLEAN]
    BY <2>1, <2>3
  <2> QED
    BY <2>2, <2>4
<1>2. IsFiniteSet(T)
  <2> DEFINE f == [i \in 1..n |-> scope.ops[i].table]
  <2>1. f \in Surjection(1..n, T)
    BY <1>1 DEF Surjection
  <2>2. IsFiniteSet(1..n)
    BY <1>1, FS_Interval
  <2> HIDE DEF f, T
  <2> QED
    BY <2>1, <2>2, FS_Surjection
<1>3. T \subseteq Tables
  BY <1>1
<1>4. touched \in Seq(T)
  <2> HIDE DEF T
  <2> QED
    BY <1>2, SetToSeqIs
<1>5. /\ Len(touched) \in Nat /\ DOMAIN touched = 1..Len(touched)
      /\ \A i \in 1..Len(touched) : touched[i] \in Tables
  <2> HIDE DEF T, touched
  <2> QED
    BY <1>3, <1>4
<1>6. \A i \in 1..Len(touched) : touched[i] \in T
  <2> HIDE DEF T, touched
  <2> QED
    BY <1>4
<1>7. \A i \in 1..Len(touched) : \E j \in DOMAIN scope.ops : w(i).table = scope.ops[j].table
  <2>1. \A i : w(i).table = touched[i]
    BY DEF Write
  <2> HIDE DEF touched, w
  <2> QED
    BY <1>6, <2>1
<1>8. \A i \in 1..Len(touched) : w(i) \in WriteSet /\ ~ w(i).ddl
  <2> HIDE DEF touched
  <2>1. \A i \in 1..Len(touched) : Rows(s.snapshot[touched[i]]) \in Seq(Calls)
    BY <1>5, RowsAreSeq DEF Snapshots
  <2> QED
    BY <1>5, <2>1 DEF Write, WriteSet
<1>9. Restores(s) = [i \in 1..Len(touched) |-> w(i)]
  <2>1. Restores(s) = [i \in DOMAIN touched |-> w(i)]
    BY DEF Restores
  <2> HIDE DEF touched, w
  <2> QED
    BY <1>5, <2>1
<1> HIDE DEF touched, w
<1>10. Restores(s) \in [1..Len(touched) -> WriteSet]
  BY <1>8, <1>9
<1>11. Restores(s) \in Seq(WriteSet) /\ Len(Restores(s)) = Len(touched)
  BY <1>5, <1>10
<1>12. NoDdl(Restores(s))
  BY <1>8, <1>9, <1>11 DEF NoDdl
<1>13. \A i \in 1..Len(Restores(s)) : Restores(s)[i] = w(i)
  BY <1>9, <1>11
<1> QED
  BY <1>7, <1>11, <1>12, <1>13

(* What follows a write that is over, where there is one.                  *)
LEMMA RestIs ==
  ASSUME NEW c, NEW s, Core(c, s), s.todo # <<>>
  PROVE  /\ Tail(s.todo) \in Seq(WriteSet)
         /\ Replay(c) => NoDdl(Tail(s.todo))
         /\ Head(s.todo) \in WriteSet
         /\ Replay(c) => ~ Head(s.todo).ddl
<1>1. s.todo \in Seq(WriteSet)
  BY DEF Core, States
<1>2. /\ Tail(s.todo) \in Seq(WriteSet) /\ Len(Tail(s.todo)) = Len(s.todo) - 1
      /\ \A i \in 1..Len(Tail(s.todo)) : Tail(s.todo)[i] = s.todo[i + 1]
      /\ Head(s.todo) = s.todo[1] /\ Len(s.todo) \in Nat /\ Len(s.todo) >= 1
      /\ Head(s.todo) \in WriteSet
  BY <1>1
<1>3. \A i \in 1..Len(Tail(s.todo)) : i + 1 \in 1..Len(s.todo)
  BY <1>2
<1>4. 1 \in 1..Len(s.todo)
  BY <1>2
<1> QED
  BY <1>2, <1>3, <1>4 DEF Core, NoDdl

(* A call that throws ends, or goes on with restoring.                     *)
LEMMA ThrowIs ==
  ASSUME scope \in Scope, NEW c, NEW s, Core(c, s), s.todo # <<>>
  PROVE  /\ Ready(c, Throw(c, s))
         /\ s.outer => InReplay(Throw(c, s))
         /\ ~ s.outer => Outside(Throw(c, s))
         /\ Throw(c, s).pc \notin {"queued", "ended", "aborted", "done"}
<1>1. CASE ~ Replay(c)
  <2>1. Throw(c, s).pc = "failed" /\ ~ s.outer
    BY <1>1 DEF Throw, Core, States
  <2> QED
    BY <2>1 DEF Ready, Over, Outside
<1>2. CASE Replay(c) /\ s.restoring
  <2>1. Throw(c, s) = NextWrite(s, Tail(s.todo))
    BY <1>2 DEF Throw
  <2>2. Tail(s.todo) \in Seq(WriteSet) /\ NoDdl(Tail(s.todo))
    BY <1>2, RestIs
  <2> QED
    BY <2>1, <2>2, NextWriteIs
<1>3. CASE Replay(c) /\ ~ s.restoring
  <2> DEFINE r == [s EXCEPT !.restoring = TRUE, !.snapshot = <<>>]
  <2>1. Throw(c, s) = NextWrite(r, Restores(s))
    BY <1>3 DEF Throw
  <2>2. Restores(s) \in Seq(WriteSet) /\ NoDdl(Restores(s))
    BY <1>3, RestoresIs DEF Core
  <2>3. r \in States
    BY DEF Core, States
  <2>4. r.restoring /\ r.outer = s.outer /\ r.job = s.job /\ r.todo = s.todo
    BY DEF Core, States
  <2> HIDE DEF r
  <2>5. Core(c, r)
    BY <2>3, <2>4 DEF Core
  <2> QED
    BY <2>1, <2>2, <2>4, <2>5, NextWriteIs
<1> QED
  BY <1>1, <1>2, <1>3

(* A statement that fails leads to a rollback of the call's own            *)
(* transaction; any other error is thrown.                                 *)
LEMMA RaiseIs ==
  ASSUME scope \in Scope, NEW c, NEW s, Core(c, s), Shape(s),
         s.pc \in {"delete", "select", "insert"}
  PROVE  Ready(c, Raise(c, s)) /\ Stays(c, s, Raise(c, s))
<1>1. s.job = "tx" /\ s.todo # <<>>
  BY DEF Shape, HasWrite
<1>2. CASE OwnTransaction(c, s)
  <2> DEFINE u == [s EXCEPT !.pc = "rollback"]
  <2>1. u \in States
    BY DEF Core, States, Pcs
  <2>2. /\ u.pc = "rollback" /\ u.outer = s.outer /\ u.job = s.job /\ u.todo = s.todo
        /\ u.restoring = s.restoring /\ u.snapshot = s.snapshot
    BY DEF Core, States
  <2>3. Raise(c, s) = u
    BY <1>2 DEF Raise
  <2>4. ~ s.outer /\ c \in task
    BY <1>2 DEF OwnTransaction, Own
  <2> HIDE DEF u
  <2>5. Ready(c, u)
    BY <1>1, <2>1, <2>2 DEF Ready, Core, Shape, HasWrite
  <2>6. Stays(c, s, u)
    BY <1>1, <2>2, <2>4 DEF Stays, Keeps, InOwn, InReplay, InSingle
  <2> QED
    BY <2>3, <2>5, <2>6
<1>3. CASE ~ OwnTransaction(c, s)
  <2>1. Raise(c, s) = Throw(c, s)
    BY <1>3 DEF Raise
  <2>2. c \in task => s.outer
    BY <1>1, <1>3 DEF OwnTransaction, Own
  <2>3. c \notin task /\ Outside(s) => ~ s.outer
    BY DEF Outside, Over
  <2>4. ~ InOwn(s) \/ ~ s.outer
    BY DEF InOwn
  <2>5. ~ InSingle(s)
    BY <1>1 DEF InSingle
  <2> QED
    BY <1>1, <2>1, <2>2, <2>3, <2>4, <2>5, ThrowIs DEF Stays, Keeps
<1> QED
  BY <1>2, <1>3

LEMMA AfterTransactionIs ==
  ASSUME NEW c, NEW s, Core(c, s), s.todo # <<>>, s.job \in {"tx", "count"}
  PROVE  /\ Ready(c, AfterTransaction(s))
         /\ AfterTransaction(s).outer = s.outer
         /\ AfterTransaction(s).pc \in {"enter", "publish"}
         /\ AfterTransaction(s).job \in {"tx", "count"}
<1> DEFINE u == AfterTransaction(s)
<1>1. u \in States
  BY DEF AfterTransaction, Core, States, Pcs
<1>2. /\ u.outer = s.outer /\ u.todo = s.todo /\ u.restoring = s.restoring
      /\ u.snapshot = s.snapshot
  BY DEF AfterTransaction, Core, States
<1>3. (u.pc = "enter" /\ u.job = "count") \/ (u.pc = "publish" /\ u.job = s.job)
  BY DEF AfterTransaction, Core, States
<1> HIDE DEF u
<1>4. Core(c, u) /\ Shape(u)
  BY <1>1, <1>2, <1>3 DEF Core, Shape, HasWrite
<1> QED
  BY <1>2, <1>3, <1>4 DEF Ready, u

LEMMA AfterRowsIs ==
  ASSUME NEW c, NEW s, Core(c, s), s.todo # <<>>, s.job = "tx", s.pc \in {"select", "insert"}
  PROVE  Ready(c, AfterRows(c, s)) /\ Stays(c, s, AfterRows(c, s))
<1>1. CASE OwnTransaction(c, s)
  <2> DEFINE u == [s EXCEPT !.pc = "commit", !.id = 0]
  <2>1. u \in States
    BY DEF Core, States, Pcs
  <2>2. /\ u.pc = "commit" /\ u.outer = s.outer /\ u.job = s.job /\ u.todo = s.todo
        /\ u.restoring = s.restoring /\ u.snapshot = s.snapshot
    BY DEF Core, States
  <2>3. AfterRows(c, s) = u
    BY <1>1 DEF AfterRows
  <2>4. ~ s.outer /\ c \in task
    BY <1>1 DEF OwnTransaction, Own
  <2> HIDE DEF u
  <2>5. Ready(c, u)
    BY <2>1, <2>2 DEF Ready, Core, Shape, HasWrite
  <2>6. Stays(c, s, u)
    BY <2>2, <2>4 DEF Stays, Keeps, InOwn, InReplay, InSingle
  <2> QED
    BY <2>3, <2>5, <2>6
<1>2. CASE ~ OwnTransaction(c, s)
  <2> DEFINE r == [s EXCEPT !.id = 0]
             u == AfterTransaction(r)
  <2>1. r \in States
    BY DEF Core, States
  <2>2. /\ r.outer = s.outer /\ r.job = s.job /\ r.todo = s.todo
        /\ r.restoring = s.restoring /\ r.snapshot = s.snapshot
    BY DEF Core, States
  <2> HIDE DEF r
  <2>3. Core(c, r)
    BY <2>1, <2>2 DEF Core
  <2>4. /\ Ready(c, u) /\ u.outer = s.outer /\ u.pc \in {"enter", "publish"}
        /\ u.job \in {"tx", "count"}
    BY <2>2, <2>3, AfterTransactionIs
  <2>5. AfterRows(c, s) = u
    BY <1>2 DEF AfterRows, r
  <2> HIDE DEF u
  <2>6. c \in task => s.outer
    BY <1>2 DEF OwnTransaction, Own
  <2>7. Stays(c, s, u)
    BY <2>4, <2>6 DEF Stays, Keeps, InOwn, InReplay, InSingle, Outside, Over
  <2> QED
    BY <2>4, <2>5, <2>7
<1> QED
  BY <1>1, <1>2

(* The first step of what was enqueued.                                    *)
LEMMA EnteredIs ==
  ASSUME NEW c, NEW s, Core(c, s), Shape(s), s.pc \in {"enter", "queued"}
  PROVE  /\ Ready(c, Entered(s))
         /\ s.outer /\ s.job # "read" /\ s.job # "purge" => InReplay(Entered(s))
         /\ ~ s.outer => Outside(Entered(s))
         /\ ~ s.outer /\ s.job = "tx" => InOwn(Entered(s))
         /\ ~ s.outer /\ s.job \notin {"tx", "replay"} => InSingle(Entered(s))
         /\ Entered(s).pc \notin {"queued", "ended", "aborted", "done"}
<1> DEFINE u == Entered(s)
<1>1. CASE s.job = "replay"
  <2>1. u = NextWrite(s, s.todo)
    BY <1>1 DEF Entered
  <2>2. s.todo \in Seq(WriteSet) /\ (Replay(c) => NoDdl(s.todo))
    BY DEF Core, States
  <2> QED
    BY <1>1, <2>1, <2>2, NextWriteIs
<1>2. CASE s.job # "replay"
  <2> DEFINE p == IF s.job = "tx" THEN First(Head(s.todo)) ELSE s.job
  <2>1. u = [s EXCEPT !.pc = p]
    BY <1>2 DEF Entered
  <2>2. s.job \in {"tx", "read", "count", "purge"}
    BY <1>2 DEF Core, States
  <2>3. (s.job = "tx" => p \in {"delete", "select"}) /\ (s.job # "tx" => p = s.job)
    BY DEF First
  <2> HIDE DEF p
  <2>4. p \in Pcs
    BY <2>2, <2>3 DEF Pcs
  <2>5. u \in States
    BY <2>1, <2>4 DEF Core, States
  <2>6. /\ u.pc = p /\ u.outer = s.outer /\ u.job = s.job /\ u.todo = s.todo
        /\ u.restoring = s.restoring /\ u.snapshot = s.snapshot
    BY <2>1 DEF Core, States
  <2> HIDE DEF u
  <2>7. Core(c, u)
    BY <2>5, <2>6 DEF Core
  <2>8. Shape(u) /\ u.pc # "idle"
    BY <2>2, <2>3, <2>6 DEF Shape, HasWrite
  <2>9. /\ s.outer /\ s.job # "read" /\ s.job # "purge" => InReplay(u)
        /\ ~ s.outer => Outside(u)
        /\ ~ s.outer /\ s.job = "tx" => InOwn(u)
        /\ ~ s.outer /\ s.job \notin {"tx", "replay"} => InSingle(u)
        /\ u.pc \notin {"queued", "ended", "aborted", "done"}
    BY <2>2, <2>3, <2>6 DEF InReplay, Outside, Over, InOwn, InSingle
  <2> QED
    BY <2>7, <2>8, <2>9 DEF Ready, u
<1> QED
  BY <1>1, <1>2

-----------------------------------------------------------------------------
(* The invariant                                                           *)

DataOK ==
  /\ scope \in Scope
  /\ db \in Snapshots /\ committed \in Snapshots
  /\ open \in BOOLEAN /\ faults \in 0..scope.faults
  /\ count \in [Tables -> Nat \cup {NoTable}]

CallsOK == st \in [Calls -> States] /\ \A c \in Calls : Sound(c, st[c])

(* The call of the task; only a transaction needs the depth.               *)
Inside(s) ==
  \/ (InOwn(s) \/ InReplay(s)) /\ depth = 1
  \/ InSingle(s) /\ (~ scope.beginFails => depth = 0)

(* A call that may have the transaction open.                              *)
Opened(s) == (s.outer \/ s.job = "tx") /\ s.pc \notin {"ended", "aborted"}

Placed ==
  /\ depth \in {0, 1} /\ task \subseteq Calls /\ \A c, d \in task : c = d
  /\ chain \in Seq(Calls) /\ IsInjective(chain)
  /\ \A c \in Calls : c \in Range(chain) <=> st[c].pc = "queued"
  /\ \A c \in task : Inside(st[c])
  /\ \A c \in Calls \ task : Outside(st[c])
  /\ open => \E c \in task : Opened(st[c])
  /\ task = {} /\ ~ scope.beginFails => depth = 0

IInv == DataOK /\ CallsOK /\ Placed

(* What the lemmas above need of a call that is under way.                 *)
LEMMA Running ==
  ASSUME IInv, NEW c \in Calls, st[c].pc \notin {"idle", "done", "failed"}
  PROVE  scope \in Scope /\ st[c] \in States /\ Core(c, st[c]) /\ Shape(st[c])
BY DEF IInv, DataOK, CallsOK, Sound, Over

(* The step of one call, to what is sound for it, leaves all calls sound.  *)
LEMMA Moved ==
  ASSUME CallsOK, NEW c \in Calls, NEW u, Ready(c, u), Goto(c, u), scope' = scope
  PROVE  /\ CallsOK'
         /\ st'[c] = Settled(u) /\ st'[c].pc = u.pc
         /\ \A d \in Calls : d # c => st'[d] = st[d]
<1>1. /\ Sound(c, Settled(u)) /\ Settled(u).pc = u.pc
  BY SettledIs
<1>2. /\ st'[c] = Settled(u)
      /\ \A d \in Calls : d # c => st'[d] = st[d]
      /\ st' = [st EXCEPT ![c] = Settled(u)]
  BY DEF CallsOK, Goto, Settled, Over
<1>3. Settled(u) \in States
  BY <1>1 DEF Sound
<1>4. st' \in [Calls -> States]
  BY <1>2, <1>3 DEF CallsOK
<1>5. \A d \in Calls : Sound(d, st'[d])
  BY <1>1, <1>2 DEF CallsOK
<1>6. \A d \in Calls : Sound(d, st[d])'
  BY <1>5 DEF Sound, Core, Replay
<1> QED
  BY <1>1, <1>2, <1>4, <1>6 DEF CallsOK

(* A statement: the chain, the task and the depth stay as they are.        *)
LEMMA Statement ==
  ASSUME CallsOK, Placed, NEW c \in Calls, NEW u, Ready(c, u), Goto(c, u),
         st[c].pc # "queued", Keeps(c, st[c], u),
         open' => (open /\ u.pc \notin {"ended", "aborted"}),
         UNCHANGED <<scope, depth, task, chain>>
  PROVE  CallsOK' /\ Placed'
<1>1. /\ CallsOK' /\ st'[c] = Settled(u) /\ st'[c].pc = u.pc
      /\ \A d \in Calls : d # c => st'[d] = st[d]
  BY Moved
<1>2. /\ Outside(u) => Outside(Settled(u))
      /\ ~ Over(u) => Settled(u) = u
  BY SettledIs
<1>3. u.pc # "queued"
  BY DEF Keeps
<1>4. /\ InOwn(u) => ~ Over(u)
      /\ InReplay(u) => ~ Over(u)
      /\ InSingle(u) => ~ Over(u)
  BY DEF InOwn, InReplay, InSingle, Over
<1>5. \A d \in Calls : d \in Range(chain) <=> st'[d].pc = "queued"
  BY <1>1, <1>3 DEF Placed
<1>6. ASSUME NEW d \in task PROVE Inside(st[d])'
  <2>1. Inside(st[d])
    BY DEF Placed
  <2>2. CASE d = c
    <3>1. /\ InOwn(st[c]) => InOwn(st'[c])
          /\ InReplay(st[c]) => InReplay(st'[c])
          /\ InSingle(st[c]) => InSingle(st'[c])
      BY <1>1, <1>2, <1>4, <2>2 DEF Keeps
    <3>2. \/ (InOwn(st'[c]) \/ InReplay(st'[c])) /\ depth = 1
          \/ InSingle(st'[c]) /\ (~ scope.beginFails => depth = 0)
      BY <2>1, <2>2, <3>1 DEF Inside
    <3> QED
      BY <2>2, <3>2 DEF Inside, InOwn, InReplay, InSingle
  <2>3. CASE d # c
    <3>1. st'[d] = st[d]
      BY <1>1, <2>3 DEF Placed
    <3> QED
      BY <2>1, <3>1 DEF Inside, InOwn, InReplay, InSingle
  <2> QED
    BY <2>2, <2>3
<1>7. ASSUME NEW d \in Calls \ task PROVE Outside(st'[d])
  <2>1. Outside(st[d])
    BY DEF Placed
  <2>2. CASE d = c
    BY <1>1, <1>2, <2>1, <2>2 DEF Keeps
  <2> QED
    BY <1>1, <2>1, <2>2
<1>8. ASSUME open' PROVE \E d \in task : Opened(st'[d])
  <2>1. PICK d \in task : Opened(st[d])
    BY <1>8 DEF Placed
  <2>2. Inside(st[d]) /\ d \in Calls
    BY DEF Placed
  <2>3. CASE d = c
    <3>1. InOwn(st[c]) \/ InReplay(st[c])
      BY <2>1, <2>2, <2>3 DEF Inside, InSingle, Opened
    <3>2. InOwn(u) \/ InReplay(u)
      BY <2>3, <3>1 DEF Keeps
    <3>3. st'[c] = u
      BY <1>1, <1>2, <1>4, <3>2
    <3> QED
      BY <1>8, <2>3, <3>2, <3>3 DEF Opened, InOwn, InReplay
  <2>4. CASE d # c
    BY <1>1, <2>1, <2>2, <2>4
  <2> QED
    BY <2>3, <2>4
<1> QED
  BY <1>1, <1>5, <1>6, <1>7, <1>8 DEF Placed, Inside, Outside, Opened, InOwn, InReplay, InSingle, Over

(* A single statement is over: its call leaves the task, if it is the one. *)
LEMMA Leaving ==
  ASSUME CallsOK, Placed, NEW c \in Calls, NEW u, Ready(c, u), Goto(c, u),
         st[c].pc \in {"read", "count", "purge"}, ~ st[c].outer,
         Outside(u), u.pc # "queued",
         task' = task \ {c}, UNCHANGED <<scope, open, depth, chain>>
  PROVE  CallsOK' /\ Placed'
<1>1. /\ CallsOK' /\ st'[c] = Settled(u) /\ st'[c].pc = u.pc
      /\ \A d \in Calls : d # c => st'[d] = st[d]
  BY Moved
<1>2. Outside(st'[c])
  BY <1>1, SettledIs
<1>3. \A d \in Calls : d \in Range(chain) <=> st'[d].pc = "queued"
  BY <1>1 DEF Placed
<1>4. \A d \in Calls \ task' : Outside(st'[d])
  BY <1>1, <1>2 DEF Placed
<1>5. CASE c \in task
  <2>1. task = {c} /\ task' = {}
    BY <1>5 DEF Placed
  <2>2. Inside(st[c])
    BY <1>5 DEF Placed
  <2>3. InSingle(st[c])
    BY <2>2 DEF Inside, InOwn, InReplay
  <2>4. ~ Opened(st[c]) /\ (~ scope.beginFails => depth = 0)
    BY <2>2, <2>3 DEF Inside, InOwn, InReplay, InSingle, Opened
  <2>5. ~ open
    BY <2>1, <2>4 DEF Placed
  <2> QED
    BY <1>1, <1>3, <1>4, <2>1, <2>4, <2>5 DEF Placed, Outside, Over
<1>6. CASE c \notin task
  <2>1. task' = task
    BY <1>6
  <2>2. \A d \in task : d \in Calls /\ d # c
    BY <1>6 DEF Placed
  <2>3. \A d \in task : st'[d] = st[d]
    BY <1>1, <2>2
  <2>4. \A d \in task : Inside(st[d])'
    BY <2>3 DEF Placed, Inside, InOwn, InReplay, InSingle
  <2>5. open => \E d \in task : Opened(st'[d])
    BY <2>3 DEF Placed
  <2> QED
    BY <1>1, <1>3, <1>4, <2>1, <2>4, <2>5 DEF Placed, Outside, Over, Opened
<1> QED
  BY <1>5, <1>6

(* Rows, counts and faults stay well formed.                               *)
LEMMA DataKept ==
  ASSUME DataOK, UNCHANGED faults \/ Fault, scope' = scope,
         db' \in Snapshots, committed' \in Snapshots, open' \in BOOLEAN,
         count' \in [Tables -> Nat \cup {NoTable}]
  PROVE  DataOK'
<1>1. scope.faults \in Nat
  BY DEF DataOK, Scope
<1>2. faults' \in 0..scope.faults
  BY <1>1 DEF DataOK, Fault
<1> QED
  BY <1>2 DEF DataOK

LEMMA ExecIs ==
  ASSUME DataOK, NEW t \in Tables, NEW f \in RowSets,
         NoExec \/ Exec([db EXCEPT ![t] = f])
  PROVE  db' \in Snapshots /\ committed' \in Snapshots
<1>1. [db EXCEPT ![t] = f] \in Snapshots
  BY DEF DataOK, Snapshots
<1> QED
  BY <1>1 DEF DataOK, NoExec, Exec

(* A call that only goes to another place.                                 *)
LEMMA PcIs ==
  ASSUME NEW c, NEW s, Core(c, s), NEW p \in Pcs, NEW u, u = [s EXCEPT !.pc = p]
  PROVE  /\ Core(c, u) /\ u.pc = p /\ u.job = s.job /\ u.outer = s.outer
         /\ u.todo = s.todo /\ u.left = s.left
<1>1. u \in States
  BY DEF Core, States
<1>2. /\ u.pc = p /\ u.outer = s.outer /\ u.job = s.job /\ u.todo = s.todo
      /\ u.left = s.left /\ u.restoring = s.restoring /\ u.snapshot = s.snapshot
  BY DEF Core, States
<1> QED
  BY <1>1, <1>2 DEF Core

LEMMA StatesAreTyped ==
  ASSUME NEW c, NEW s, Core(c, s), s.todo # <<>>
  PROVE  /\ Head(s.todo) \in WriteSet /\ Head(s.todo).table \in Tables
         /\ Head(s.todo).items \in Seq(Calls) /\ Head(s.todo).counted \in BOOLEAN
<1>1. Head(s.todo) \in WriteSet
  BY RestIs
<1> QED
  BY <1>1 DEF WriteSet
-----------------------------------------------------------------------------
(* Each step preserves the invariant                                       *)

LEMMA DeleteRowsKeeps ==
  ASSUME IInv, NEW c \in Calls, DeleteRows(c)
  PROVE  IInv'
<1>1. /\ st[c].pc = "delete" /\ DataOK /\ CallsOK /\ Placed
      /\ UNCHANGED <<scope, open, depth, task, chain, count>>
  BY DEF IInv, DeleteRows
<1>2. scope \in Scope /\ Core(c, st[c]) /\ Shape(st[c])
  BY <1>1, Running
<1>3. st[c].todo # <<>> /\ st[c].job = "tx"
  BY <1>1, <1>2 DEF Shape, HasWrite
<1>4. Current(c).table \in Tables
  BY <1>2, <1>3, StatesAreTyped DEF Current
<1>5. DataOK'
  <2>1. NoExec \/ Exec([db EXCEPT ![Current(c).table] = <<>>])
    BY DEF DeleteRows
  <2>2. db' \in Snapshots /\ committed' \in Snapshots
    BY <1>1, <1>4, <2>1, EmptyTable, ExecIs
  <2>3. UNCHANGED faults \/ Fault
    BY DEF DeleteRows
  <2> QED
    BY <1>1, <2>2, <2>3, DataKept DEF DataOK
<1>6. CASE Goto(c, [st[c] EXCEPT !.pc = "select"])
  <2>1. PICK u : u = [st[c] EXCEPT !.pc = "select"]
    OBVIOUS
  <2>2. /\ Core(c, u) /\ u.pc = "select" /\ u.job = st[c].job /\ u.outer = st[c].outer
        /\ u.todo = st[c].todo
    <3>1. "select" \in Pcs
      BY DEF Pcs
    <3> QED
      BY <1>2, <2>1, <3>1, PcIs
  <2>3. Ready(c, u)
    BY <1>3, <2>2 DEF Ready, Shape, HasWrite
  <2>4. Keeps(c, st[c], u)
    BY <1>1, <1>3, <2>2 DEF Keeps, InOwn, InReplay, InSingle, Outside, Over
  <2> QED
    BY <1>1, <1>5, <1>6, <2>1, <2>2, <2>3, <2>4, Statement DEF IInv
<1>7. CASE Goto(c, Raise(c, st[c]))
  <2>1. PICK u : u = Raise(c, st[c])
    OBVIOUS
  <2>2. Ready(c, u) /\ Stays(c, st[c], u)
    BY <1>1, <1>2, <2>1, RaiseIs
  <2> QED
    BY <1>1, <1>5, <1>7, <2>1, <2>2, Statement DEF IInv, Stays
<1> QED
  BY <1>6, <1>7 DEF DeleteRows

LEMMA SelectNextIdKeeps ==
  ASSUME IInv, NEW c \in Calls, SelectNextId(c)
  PROVE  IInv'
<1>1. /\ st[c].pc = "select" /\ DataOK /\ CallsOK /\ Placed /\ NoExec
      /\ UNCHANGED <<scope, open, depth, task, chain, count>>
  BY DEF IInv, SelectNextId
<1>2. scope \in Scope /\ Core(c, st[c]) /\ Shape(st[c])
  BY <1>1, Running
<1>3. st[c].todo # <<>> /\ st[c].job = "tx"
  BY <1>1, <1>2 DEF Shape, HasWrite
<1>4. Current(c).table \in Tables /\ Current(c).items \in Seq(Calls)
  BY <1>2, <1>3, StatesAreTyped DEF Current
<1>5. DataOK'
  <2>1. UNCHANGED faults \/ Fault
    BY DEF SelectNextId
  <2> QED
    BY <1>1, <2>1, DataKept DEF DataOK, NoExec
<1> DEFINE w == Current(c)
           id == Max({0} \cup DOMAIN db[w.table]) + 1
<1>6. PICK s : s = [st[c] EXCEPT !.id = id, !.left = w.items]
  OBVIOUS
<1>7. id \in Nat
  <2>1. db[w.table] \in RowSets
    BY <1>1, <1>4 DEF DataOK, Snapshots
  <2>2. DOMAIN db[w.table] \in IdSets
    BY <2>1, RowSetIs
  <2>3. \A D \in IdSets : Max({0} \cup D) \in Nat
    BY MaxIsIn
  <2> QED
    BY <2>2, <2>3
<1>8. /\ Core(c, s) /\ s.pc = "select" /\ s.job = "tx" /\ s.outer = st[c].outer
      /\ s.todo = st[c].todo /\ s.left = w.items
  <2> HIDE DEF w, id
  <2>1. s \in States
    BY <1>2, <1>4, <1>6, <1>7 DEF Core, States, w
  <2>2. /\ s.pc = "select" /\ s.job = "tx" /\ s.outer = st[c].outer
        /\ s.todo = st[c].todo /\ s.left = w.items
        /\ s.restoring = st[c].restoring /\ s.snapshot = st[c].snapshot
    BY <1>1, <1>2, <1>3, <1>6 DEF Core, States
  <2> QED
    BY <1>2, <1>3, <2>1, <2>2 DEF Core
<1>9. CASE Goto(c, IF w.items = <<>> THEN AfterRows(c, s) ELSE [s EXCEPT !.pc = "insert"])
  <2>1. PICK u : u = IF w.items = <<>> THEN AfterRows(c, s) ELSE [s EXCEPT !.pc = "insert"]
    OBVIOUS
  <2>2. CASE w.items = <<>>
    <3>1. Ready(c, u) /\ Stays(c, s, u)
      BY <1>3, <1>8, <2>1, <2>2, AfterRowsIs
    <3>2. Stays(c, st[c], u)
      BY <1>1, <1>3, <1>8, <3>1 DEF Stays, Keeps, InOwn, InReplay, InSingle, Outside, Over
    <3> QED
      BY <1>1, <1>5, <1>9, <2>1, <3>1, <3>2, Statement DEF IInv, Stays
  <2>3. CASE w.items # <<>>
    <3>1. "insert" \in Pcs
      BY DEF Pcs
    <3>2. /\ Core(c, u) /\ u.pc = "insert" /\ u.job = "tx" /\ u.outer = st[c].outer
          /\ u.todo = st[c].todo /\ u.left # <<>>
      BY <1>8, <2>1, <2>3, <3>1, PcIs
    <3>3. Ready(c, u)
      BY <1>3, <3>2 DEF Ready, Shape, HasWrite
    <3>4. Keeps(c, st[c], u)
      BY <1>1, <1>3, <3>2 DEF Keeps, InOwn, InReplay, InSingle, Outside, Over
    <3> QED
      BY <1>1, <1>5, <1>9, <2>1, <3>2, <3>3, <3>4, Statement DEF IInv
  <2> QED
    BY <2>2, <2>3
<1>10. CASE Goto(c, Raise(c, st[c]))
  <2>1. PICK u : u = Raise(c, st[c])
    OBVIOUS
  <2>2. Ready(c, u) /\ Stays(c, st[c], u)
    BY <1>1, <1>2, <2>1, RaiseIs
  <2> QED
    BY <1>1, <1>5, <1>10, <2>1, <2>2, Statement DEF IInv, Stays
<1> QED
  BY <1>6, <1>9, <1>10 DEF SelectNextId

LEMMA InsertRowKeeps ==
  ASSUME IInv, NEW c \in Calls, InsertRow(c)
  PROVE  IInv'
<1> DEFINE t == Current(c).table
           f == db[t]
<1>1. /\ st[c].pc = "insert" /\ DataOK /\ CallsOK /\ Placed
      /\ UNCHANGED <<scope, open, depth, task, chain, count>>
  BY DEF IInv, InsertRow
<1>2. scope \in Scope /\ Core(c, st[c]) /\ Shape(st[c])
  BY <1>1, Running
<1>3. st[c].todo # <<>> /\ st[c].job = "tx" /\ st[c].left # <<>>
  BY <1>1, <1>2 DEF Shape, HasWrite
<1>4. t \in Tables
  BY <1>2, <1>3, StatesAreTyped DEF Current
<1>5. st[c].left \in Seq(Calls) /\ st[c].id \in Nat
  BY <1>2 DEF Core, States
<1>6. Head(st[c].left) \in Calls /\ Tail(st[c].left) \in Seq(Calls)
  BY <1>3, <1>5
<1>7. DataOK'
  <2>1. f \in RowSets
    BY <1>1, <1>4 DEF DataOK, Snapshots
  <2> DEFINE g == [i \in DOMAIN f \cup {st[c].id} |->
                     IF i = st[c].id THEN Head(st[c].left) ELSE f[i]]
  <2>2. \A h \in RowSets, k \in Nat, d \in Calls :
          [i \in DOMAIN h \cup {k} |-> IF i = k THEN d ELSE h[i]] \in RowSets
    BY RowAdded
  <2>3. g \in RowSets
    BY <1>5, <1>6, <2>1, <2>2
  <2>4. NoExec \/ Exec([db EXCEPT ![t] = g])
    BY DEF InsertRow
  <2> HIDE DEF g, t
  <2>5. \A h \in RowSets : Exec([db EXCEPT ![t] = h]) => db' \in Snapshots /\ committed' \in Snapshots
    BY <1>1, <1>4, ExecIs
  <2>6. db' \in Snapshots /\ committed' \in Snapshots
    BY <1>1, <2>3, <2>4, <2>5 DEF NoExec, DataOK
  <2>7. UNCHANGED faults \/ Fault
    BY DEF InsertRow
  <2> QED
    BY <1>1, <2>6, <2>7, DataKept DEF DataOK
<1>8. PICK s : s = [st[c] EXCEPT !.id = @ + 1, !.left = Tail(@)]
  OBVIOUS
<1>9. /\ Core(c, s) /\ s.pc = "insert" /\ s.job = "tx" /\ s.outer = st[c].outer
      /\ s.todo = st[c].todo
  <2>1. st[c].id + 1 \in Nat
    BY <1>5
  <2>2. s = [st[c] EXCEPT !.id = st[c].id + 1, !.left = Tail(st[c].left)]
    BY <1>8
  <2>3. s \in States
    BY <1>2, <1>6, <2>1, <2>2 DEF Core, States
  <2>4. /\ s.pc = "insert" /\ s.job = "tx" /\ s.outer = st[c].outer
        /\ s.todo = st[c].todo
        /\ s.restoring = st[c].restoring /\ s.snapshot = st[c].snapshot
    BY <1>1, <1>2, <1>3, <2>2 DEF Core, States
  <2> QED
    BY <1>2, <1>3, <2>3, <2>4 DEF Core
<1>10. CASE Goto(c, IF s.left = <<>> THEN AfterRows(c, s) ELSE s)
  <2>1. PICK u : u = IF s.left = <<>> THEN AfterRows(c, s) ELSE s
    OBVIOUS
  <2>2. CASE s.left = <<>>
    <3>1. Ready(c, u) /\ Stays(c, s, u)
      BY <1>3, <1>9, <2>1, <2>2, AfterRowsIs
    <3>2. Stays(c, st[c], u)
      BY <1>1, <1>3, <1>9, <3>1 DEF Stays, Keeps, InOwn, InReplay, InSingle, Outside, Over
    <3> QED
      BY <1>1, <1>7, <1>10, <2>1, <3>1, <3>2, Statement DEF IInv, Stays
  <2>3. CASE s.left # <<>>
    <3>1. u = s
      BY <2>1, <2>3
    <3>2. Ready(c, u)
      BY <1>3, <1>9, <2>3, <3>1 DEF Ready, Shape, HasWrite
    <3>3. Keeps(c, st[c], u)
      BY <1>1, <1>3, <1>9, <3>1 DEF Keeps, InOwn, InReplay, InSingle, Outside, Over
    <3> QED
      BY <1>1, <1>7, <1>9, <1>10, <2>1, <3>1, <3>2, <3>3, Statement DEF IInv
  <2> QED
    BY <2>2, <2>3
<1>11. CASE Goto(c, Raise(c, st[c]))
  <2>1. PICK u : u = Raise(c, st[c])
    OBVIOUS
  <2>2. Ready(c, u) /\ Stays(c, st[c], u)
    BY <1>1, <1>2, <2>1, RaiseIs
  <2> QED
    BY <1>1, <1>7, <1>11, <2>1, <2>2, Statement DEF IInv, Stays
<1> QED
  BY <1>8, <1>10, <1>11 DEF InsertRow

(* Where the call of a given place can be.                                 *)
LEMMA WhereIs ==
  ASSUME IInv, NEW c \in Calls
  PROVE  /\ st[c].pc \in {"commit", "rollback", "ended", "aborted"} =>
              c \in task /\ depth = 1 /\ (InOwn(st[c]) \/ InReplay(st[c]))
         /\ st[c].pc = "publish" /\ c \in task => InReplay(st[c])
         /\ st[c].pc \in {"idle", "queued", "undo", "dropMeta", "ok"} =>
              c \notin task /\ Outside(st[c]) /\ ~ st[c].outer
<1>1. c \in task => Inside(st[c])
  BY DEF IInv, Placed
<1>2. c \notin task => Outside(st[c])
  BY DEF IInv, Placed
<1> QED
  BY <1>1, <1>2 DEF Inside, InOwn, InReplay, InSingle, Outside, Over

LEMMA CommitKeeps ==
  ASSUME IInv, NEW c \in Calls, Commit(c)
  PROVE  IInv'
<1>1. /\ st[c].pc = "commit" /\ DataOK /\ CallsOK /\ Placed
      /\ UNCHANGED <<scope, db, depth, task, chain, count>>
  BY DEF IInv, Commit
<1>2. Core(c, st[c]) /\ Shape(st[c])
  BY <1>1, Running
<1>3. DataOK'
  <2>1. /\ UNCHANGED faults \/ Fault
        /\ committed' = db \/ committed' = committed
        /\ open' = FALSE \/ open' = open
    BY DEF Commit
  <2> QED
    BY <1>1, <2>1, DataKept DEF DataOK
<1>4. c \in task /\ (InOwn(st[c]) \/ InReplay(st[c]))
  BY <1>1, WhereIs
<1>5. ASSUME NEW p \in {"ended", "rollback"}, Goto(c, [st[c] EXCEPT !.pc = p]),
             open' => (open /\ p = "rollback")
      PROVE  IInv'
  <2>1. PICK u : u = [st[c] EXCEPT !.pc = p]
    OBVIOUS
  <2>2. p \in Pcs
    BY DEF Pcs
  <2>3. /\ Core(c, u) /\ u.pc = p /\ u.job = st[c].job /\ u.outer = st[c].outer
        /\ u.todo = st[c].todo
    BY <1>2, <2>1, <2>2, PcIs
  <2>4. Ready(c, u)
    BY <1>1, <1>2, <2>3 DEF Ready, Shape, HasWrite
  <2>5. Keeps(c, st[c], u)
    BY <1>1, <1>4, <2>3 DEF Keeps, InOwn, InReplay, InSingle
  <2> QED
    BY <1>1, <1>3, <1>5, <2>1, <2>3, <2>4, <2>5, Statement DEF IInv
<1>6. CASE open' = FALSE /\ Goto(c, [st[c] EXCEPT !.pc = "ended"])
  BY <1>5, <1>6
<1>7. CASE open' = open /\ Goto(c, [st[c] EXCEPT !.pc = "rollback"])
  BY <1>5, <1>7
<1> QED
  BY <1>6, <1>7 DEF Commit

LEMMA RollbackKeeps ==
  ASSUME IInv, NEW c \in Calls, Rollback(c)
  PROVE  IInv'
<1>1. /\ st[c].pc = "rollback" /\ DataOK /\ CallsOK /\ Placed
      /\ UNCHANGED <<scope, committed, depth, task, chain, count, faults>>
      /\ db' = committed /\ open' = FALSE
  BY DEF IInv, Rollback
<1>2. Core(c, st[c]) /\ Shape(st[c])
  BY <1>1, Running
<1>3. DataOK'
  BY <1>1, DataKept DEF DataOK
<1>4. c \in task /\ (InOwn(st[c]) \/ InReplay(st[c]))
  BY <1>1, WhereIs
<1>5. PICK u : u = [st[c] EXCEPT !.pc = "aborted"]
  OBVIOUS
<1>6. "aborted" \in Pcs
  BY DEF Pcs
<1>7. /\ Core(c, u) /\ u.pc = "aborted" /\ u.job = st[c].job /\ u.outer = st[c].outer
      /\ u.todo = st[c].todo
  BY <1>2, <1>5, <1>6, PcIs
<1>8. Ready(c, u)
  BY <1>1, <1>2, <1>7 DEF Ready, Shape, HasWrite
<1>9. Keeps(c, st[c], u)
  BY <1>1, <1>4, <1>7 DEF Keeps, InOwn, InReplay, InSingle
<1>10. Goto(c, u)
  BY <1>5 DEF Rollback
<1> QED
  BY <1>1, <1>3, <1>8, <1>9, <1>10, Statement DEF IInv

LEMMA EndTaskKeeps ==
  ASSUME IInv, NEW c \in Calls, EndTask(c)
  PROVE  IInv'
<1> DEFINE s == st[c]
           v == IF s.outer THEN [s EXCEPT !.pc = IF s.pc = "ended" THEN "ok" ELSE "failed",
                                          !.outer = FALSE]
                ELSE IF s.pc = "ended" THEN AfterTransaction(s)
                ELSE Throw(c, s)
<1>1. /\ s.pc \in {"ended", "aborted"} /\ DataOK /\ CallsOK /\ Placed
      /\ depth' = 0 /\ task' = {} /\ NoExec
      /\ UNCHANGED <<open, chain, count, faults, scope>>
  BY DEF IInv, EndTask
<1>2. scope \in Scope /\ Core(c, s) /\ Shape(s)
  BY <1>1, Running
<1>3. DataOK'
  BY <1>1, DataKept DEF DataOK, NoExec
<1>4. c \in task /\ (InOwn(s) \/ InReplay(s))
  BY <1>1, WhereIs
<1>5. task = {c}
  BY <1>4 DEF IInv, Placed
<1>6. ~ open
  BY <1>1, <1>5 DEF Placed, Opened
<1>7. PICK u : u = v
  OBVIOUS
<1>8. Goto(c, u)
  BY <1>7 DEF EndTask
<1>9. Ready(c, u) /\ Outside(u) /\ u.pc # "queued"
  <2>1. CASE s.outer
    <3> DEFINE p == IF s.pc = "ended" THEN "ok" ELSE "failed"
    <3>1. u = [s EXCEPT !.pc = p, !.outer = FALSE]
      BY <1>7, <2>1
    <3>2. p \in {"ok", "failed"} /\ p \in Pcs
      BY DEF Pcs
    <3> HIDE DEF p, v
    <3>3. u \in States
      BY <1>2, <3>1, <3>2 DEF Core, States
    <3>4. /\ u.pc = p /\ ~ u.outer /\ u.job = s.job /\ u.todo = s.todo
          /\ u.restoring = s.restoring /\ u.snapshot = s.snapshot
      BY <1>2, <3>1 DEF Core, States
    <3>5. s.job # "replay"
      BY <1>1, <1>2 DEF Shape
    <3>6. Core(c, u)
      BY <1>2, <3>3, <3>4 DEF Core
    <3>7. Shape(u)
      BY <3>2, <3>4, <3>5 DEF Shape, HasWrite
    <3> QED
      BY <3>2, <3>4, <3>6, <3>7 DEF Ready, Outside, Over
  <2>2. CASE ~ s.outer
    <3>1. s.todo # <<>> /\ s.job = "tx"
      BY <1>1, <1>2, <1>4, <2>2 DEF Shape, HasWrite, InOwn, InReplay
    <3>2. CASE s.pc = "ended"
      <4>1. u = AfterTransaction(s)
        BY <1>7, <2>2, <3>2
      <4>2. /\ Ready(c, u) /\ u.outer = s.outer /\ u.pc \in {"enter", "publish"}
        BY <1>2, <3>1, <4>1, AfterTransactionIs
      <4> QED
        BY <2>2, <4>2 DEF Outside
    <3>3. CASE s.pc # "ended"
      <4>1. u = Throw(c, s)
        BY <1>7, <2>2, <3>3
      <4> QED
        BY <1>2, <2>2, <3>1, <4>1, ThrowIs
    <3> QED
      BY <3>2, <3>3
  <2> QED
    BY <2>1, <2>2
<1>10. /\ CallsOK' /\ st'[c] = Settled(u) /\ st'[c].pc = u.pc
       /\ \A d \in Calls : d # c => st'[d] = st[d]
  BY <1>1, <1>8, <1>9, Moved
<1>11. Outside(st'[c])
  BY <1>9, <1>10, SettledIs
<1>12. \A d \in Calls : d \in Range(chain) <=> st'[d].pc = "queued"
  BY <1>1, <1>9, <1>10 DEF Placed
<1>13. \A d \in Calls \ {} : Outside(st'[d])
  BY <1>1, <1>5, <1>10, <1>11 DEF Placed
<1>14. Placed'
  BY <1>1, <1>6, <1>12, <1>13 DEF Placed, Outside, Over
<1> QED
  BY <1>3, <1>10, <1>14 DEF IInv

(* A call that is over or fails where it is in no task.                    *)
LEMMA Finishes ==
  ASSUME CallsOK, Placed, NEW c \in Calls, c \notin task, st[c].pc # "queued",
         NEW p \in {"done", "failed"}, Goto(c, [st[c] EXCEPT !.pc = p]), st[c] \in States,
         UNCHANGED <<scope, open, depth, task, chain>>
  PROVE  CallsOK' /\ Placed'
<1>1. PICK u : u = [st[c] EXCEPT !.pc = p]
  OBVIOUS
<1>2. u.pc = p
  BY <1>1 DEF States
<1>3. Ready(c, u) /\ Keeps(c, st[c], u)
  BY <1>2 DEF Ready, Over, Keeps, Outside
<1> QED
  BY <1>1, <1>2, <1>3, Statement

LEMMA ReadRowsKeeps ==
  ASSUME IInv, NEW c \in Calls, ReadRows(c)
  PROVE  IInv'
<1>1. /\ st[c].pc = "read" /\ DataOK /\ CallsOK /\ Placed /\ NoExec /\ LeaveChain(c)
      /\ UNCHANGED <<open, chain, depth, count, scope>>
  BY DEF IInv, ReadRows
<1>2. scope \in Scope /\ Core(c, st[c]) /\ Shape(st[c])
  BY <1>1, Running
<1>3. DataOK'
  <2>1. UNCHANGED faults \/ Fault
    BY DEF ReadRows
  <2> QED
    BY <1>1, <2>1, DataKept DEF DataOK, NoExec
<1>4. ~ st[c].outer /\ task' = task \ {c}
  <2>1. c \in task => Inside(st[c])
    BY <1>1 DEF Placed
  <2>2. c \notin task => Outside(st[c])
    BY <1>1 DEF Placed
  <2>3. ~ st[c].outer
    BY <1>1, <2>1, <2>2 DEF Inside, InOwn, InReplay, InSingle, Outside, Over
  <2> QED
    BY <1>1, <2>3 DEF LeaveChain
<1> DEFINE t == scope.target[c]
           w == Write(t, Append(Rows(db[t]), c), TRUE, FALSE, FALSE)
<1>5. CASE Goto(c, [st[c] EXCEPT !.pc = "enter", !.job = "tx", !.todo = <<w>>])
  <2>1. PICK u : u = [st[c] EXCEPT !.pc = "enter", !.job = "tx", !.todo = <<w>>]
    OBVIOUS
  <2>2. t \in Tables
    BY <1>2 DEF Scope
  <2>3. Rows(db[t]) \in Seq(Calls)
    BY <1>1, <2>2, RowsAreSeq DEF DataOK, Snapshots
  <2>4. w \in WriteSet /\ ~ w.ddl
    <3> HIDE DEF t
    <3>1. Append(Rows(db[t]), c) \in Seq(Calls)
      BY <2>3
    <3> QED
      BY <2>2, <3>1 DEF Write, WriteSet
  <2> HIDE DEF w
  <2>5. <<w>> \in Seq(WriteSet) /\ NoDdl(<<w>>) /\ <<w>> # <<>>
    BY <2>4 DEF NoDdl
  <2>6. u \in States
    BY <1>2, <2>1, <2>5 DEF Core, States, Pcs
  <2>7. /\ u.pc = "enter" /\ u.job = "tx" /\ u.outer = st[c].outer /\ u.todo = <<w>>
        /\ u.restoring = st[c].restoring /\ u.snapshot = st[c].snapshot
    BY <1>2, <2>1 DEF Core, States
  <2>8. Core(c, u) /\ Shape(u)
    BY <1>2, <2>5, <2>6, <2>7 DEF Core, Shape, HasWrite
  <2>9. Ready(c, u) /\ Outside(u)
    BY <1>4, <2>7, <2>8 DEF Ready, Outside
  <2> QED
    BY <1>1, <1>3, <1>4, <1>5, <2>1, <2>7, <2>9, Leaving DEF IInv
<1>6. CASE Goto(c, [st[c] EXCEPT !.pc = "failed"])
  <2>1. PICK u : u = [st[c] EXCEPT !.pc = "failed"]
    OBVIOUS
  <2>2. u.pc = "failed"
    BY <1>2, <2>1 DEF Core, States
  <2>3. Ready(c, u) /\ Outside(u)
    BY <2>2 DEF Ready, Outside, Over
  <2> QED
    BY <1>1, <1>3, <1>4, <1>6, <2>1, <2>2, <2>3, Leaving DEF IInv
<1> QED
  BY <1>5, <1>6 DEF ReadRows

LEMMA PurgeRowsKeeps ==
  ASSUME IInv, NEW c \in Calls, PurgeRows(c)
  PROVE  IInv'
<1>1. /\ st[c].pc = "purge" /\ DataOK /\ CallsOK /\ Placed /\ LeaveChain(c)
      /\ UNCHANGED <<open, chain, depth, count, scope>>
  BY DEF IInv, PurgeRows
<1>2. scope \in Scope /\ Core(c, st[c]) /\ Shape(st[c])
  BY <1>1, Running
<1>3. DataOK'
  <2>1. scope.target[c] \in Tables
    BY <1>2 DEF Scope
  <2>2. NoExec \/ Exec([db EXCEPT ![scope.target[c]] = <<>>])
    BY DEF PurgeRows
  <2>3. db' \in Snapshots /\ committed' \in Snapshots
    BY <1>1, <2>1, <2>2, EmptyTable, ExecIs
  <2>4. UNCHANGED faults \/ Fault
    BY DEF PurgeRows
  <2> QED
    BY <1>1, <2>3, <2>4, DataKept DEF DataOK
<1>4. ~ st[c].outer /\ task' = task \ {c}
  <2>1. c \in task => Inside(st[c])
    BY <1>1 DEF Placed
  <2>2. c \notin task => Outside(st[c])
    BY <1>1 DEF Placed
  <2>3. ~ st[c].outer
    BY <1>1, <2>1, <2>2 DEF Inside, InOwn, InReplay, InSingle, Outside, Over
  <2> QED
    BY <1>1, <2>3 DEF LeaveChain
<1>5. ASSUME NEW p \in {"ok", "failed"}, Goto(c, [st[c] EXCEPT !.pc = p]) PROVE IInv'
  <2>1. PICK u : u = [st[c] EXCEPT !.pc = p]
    OBVIOUS
  <2>2. p \in Pcs
    BY DEF Pcs
  <2>3. /\ Core(c, u) /\ u.pc = p /\ u.job = st[c].job /\ u.outer = st[c].outer
        /\ u.todo = st[c].todo
    BY <1>2, <2>1, <2>2, PcIs
  <2>4. st[c].job = "purge"
    BY <1>1, <1>2 DEF Shape
  <2>5. Ready(c, u) /\ Outside(u)
    BY <1>4, <2>3, <2>4 DEF Ready, Shape, HasWrite, Outside, Over
  <2> QED
    BY <1>1, <1>3, <1>4, <1>5, <2>1, <2>3, <2>5, Leaving DEF IInv
<1> QED
  BY <1>5 DEF PurgeRows

LEMMA CountRowsKeeps ==
  ASSUME IInv, NEW c \in Calls, CountRows(c)
  PROVE  IInv'
<1>1. /\ st[c].pc = "count" /\ DataOK /\ CallsOK /\ Placed /\ NoExec /\ LeaveChain(c)
      /\ UNCHANGED <<open, chain, depth, count, scope>>
  BY DEF IInv, CountRows
<1>2. scope \in Scope /\ Core(c, st[c]) /\ Shape(st[c])
  BY <1>1, Running
<1>3. DataOK'
  <2>1. UNCHANGED faults \/ Fault
    BY DEF CountRows
  <2> QED
    BY <1>1, <2>1, DataKept DEF DataOK, NoExec
<1>4. st[c].todo # <<>> /\ st[c].job = "count"
  BY <1>1, <1>2 DEF Shape, HasWrite
<1>5. (c \in task => Inside(st[c])) /\ (c \notin task => Outside(st[c]))
  BY <1>1 DEF Placed
<1>6. ASSUME NEW u, Goto(c, u), Ready(c, u), u.pc \notin {"queued", "ended", "aborted"},
             st[c].outer => InReplay(u), ~ st[c].outer => Outside(u)
      PROVE  IInv'
  <2>1. CASE st[c].outer
    <3>1. c \in task /\ task' = task
      BY <1>1, <1>5, <2>1 DEF LeaveChain, Outside, Over
    <3>2. Keeps(c, st[c], u)
      BY <1>6, <2>1, <3>1 DEF Keeps, InOwn, InSingle
    <3> QED
      BY <1>1, <1>3, <1>6, <3>1, <3>2, Statement DEF IInv
  <2>2. CASE ~ st[c].outer
    <3>1. task' = task \ {c}
      BY <1>1, <2>2 DEF LeaveChain
    <3> QED
      BY <1>1, <1>3, <1>6, <2>2, <3>1, Leaving DEF IInv
  <2> QED
    BY <2>1, <2>2
<1> DEFINE n == Cardinality(DOMAIN db[Current(c).table])
<1>7. CASE Goto(c, [st[c] EXCEPT !.pc = "publish", !.got = n])
  <2>1. PICK u : u = [st[c] EXCEPT !.pc = "publish", !.got = n]
    OBVIOUS
  <2>2. n \in Nat
    <3>1. Current(c).table \in Tables
      BY <1>2, <1>4, StatesAreTyped DEF Current
    <3>2. db[Current(c).table] \in RowSets
      BY <1>1, <3>1 DEF DataOK, Snapshots
    <3>3. DOMAIN db[Current(c).table] \in IdSets
      BY <3>2, RowSetIs
    <3>4. \A D \in IdSets : Cardinality(D) \in Nat
      BY IdSetIsFinite
    <3> QED
      BY <3>3, <3>4
  <2> HIDE DEF n
  <2>3. u \in States
    BY <1>2, <2>1, <2>2 DEF Core, States, Pcs
  <2>4. /\ u.pc = "publish" /\ u.job = "count" /\ u.outer = st[c].outer /\ u.todo = st[c].todo
        /\ u.restoring = st[c].restoring /\ u.snapshot = st[c].snapshot
    BY <1>2, <1>4, <2>1 DEF Core, States
  <2>5. Core(c, u) /\ Shape(u)
    BY <1>2, <1>4, <2>3, <2>4 DEF Core, Shape, HasWrite
  <2>6. Ready(c, u) /\ (st[c].outer => InReplay(u)) /\ (~ st[c].outer => Outside(u))
    BY <2>4, <2>5 DEF Ready, InReplay, Outside
  <2> QED
    BY <1>6, <1>7, <2>1, <2>4, <2>6
<1>8. CASE Goto(c, Throw(c, st[c]))
  <2>1. PICK u : u = Throw(c, st[c])
    OBVIOUS
  <2>2. /\ Ready(c, u) /\ (st[c].outer => InReplay(u)) /\ (~ st[c].outer => Outside(u))
        /\ u.pc \notin {"queued", "ended", "aborted"}
    BY <1>2, <1>4, <2>1, ThrowIs
  <2> QED
    BY <1>6, <1>8, <2>1, <2>2
<1> QED
  BY <1>7, <1>8 DEF CountRows

LEMMA PublishKeeps ==
  ASSUME IInv, NEW c \in Calls, Publish(c)
  PROVE  IInv'
<1> DEFINE w == Current(c)
<1>1. /\ st[c].pc = "publish" /\ DataOK /\ CallsOK /\ Placed /\ NoExec
      /\ UNCHANGED <<open, depth, task, chain, scope>>
  BY DEF IInv, Publish
<1>2. scope \in Scope /\ Core(c, st[c]) /\ Shape(st[c])
  BY <1>1, Running
<1>3. st[c].todo # <<>>
  BY <1>1, <1>2 DEF Shape, HasWrite
<1>4. w.table \in Tables /\ Len(w.items) \in Nat /\ st[c].got \in Nat
  <2>1. w.table \in Tables /\ w.items \in Seq(Calls)
    BY <1>2, <1>3, StatesAreTyped DEF Current
  <2> QED
    BY <1>2, <2>1 DEF Core, States
<1>5. DataOK'
  <2> DEFINE n == IF w.counted THEN st[c].got ELSE Len(w.items)
  <2>1. count' = [count EXCEPT ![w.table] = n]
    BY DEF Publish
  <2>2. n \in Nat
    BY <1>4
  <2>3. UNCHANGED faults \/ Fault
    BY DEF Publish
  <2> HIDE DEF n, w
  <2>4. count' \in [Tables -> Nat \cup {NoTable}]
    BY <1>1, <1>4, <2>1, <2>2 DEF DataOK
  <2> QED
    BY <1>1, <2>3, <2>4, DataKept DEF DataOK, NoExec
<1>6. (c \in task => InReplay(st[c])) /\ (c \notin task => Outside(st[c]))
  BY <1>1, WhereIs DEF Placed
<1>7. ASSUME NEW u, Goto(c, u), Ready(c, u), u.pc \notin {"queued", "ended", "aborted"},
             st[c].outer => InReplay(u), ~ st[c].outer => Outside(u)
      PROVE  IInv'
  <2>1. (c \in task => st[c].outer) /\ (c \notin task => ~ st[c].outer)
    BY <1>1, <1>6 DEF InReplay, Outside, Over
  <2>2. Keeps(c, st[c], u)
    BY <1>1, <1>7, <2>1 DEF Keeps, InOwn, InSingle
  <2> QED
    BY <1>1, <1>5, <1>7, <2>2, Statement DEF IInv
<1>8. CASE Goto(c, NextWrite(st[c], Tail(st[c].todo)))
  <2>1. PICK u : u = NextWrite(st[c], Tail(st[c].todo))
    OBVIOUS
  <2>2. Tail(st[c].todo) \in Seq(WriteSet) /\ (Replay(c) => NoDdl(Tail(st[c].todo)))
    BY <1>2, <1>3, RestIs
  <2>3. /\ Ready(c, u) /\ (st[c].outer => InReplay(u)) /\ (~ st[c].outer => Outside(u))
        /\ u.pc \notin {"queued", "ended", "aborted"}
    BY <1>2, <2>1, <2>2, NextWriteIs
  <2> QED
    BY <1>7, <1>8, <2>1, <2>3
<1>9. CASE w.ddl /\ Goto(c, [st[c] EXCEPT !.pc = "undo"])
  <2>1. PICK u : u = [st[c] EXCEPT !.pc = "undo"]
    OBVIOUS
  <2>2. "undo" \in Pcs
    BY DEF Pcs
  <2>3. Core(c, u) /\ u.pc = "undo" /\ u.job = st[c].job /\ u.outer = st[c].outer
    BY <1>2, <2>1, <2>2, PcIs
  <2>4. Replay(c) => ~ w.ddl
    BY <1>2, <1>3, RestIs DEF Current
  <2>5. ~ st[c].outer
    BY <1>2, <1>9, <2>4 DEF Core
  <2>6. Ready(c, u) /\ Outside(u)
    BY <1>1, <1>2, <2>3, <2>5 DEF Ready, Shape, HasWrite, Outside
  <2> QED
    BY <1>7, <1>9, <2>1, <2>3, <2>5, <2>6
<1>10. CASE Goto(c, Throw(c, st[c]))
  <2>1. PICK u : u = Throw(c, st[c])
    OBVIOUS
  <2>2. /\ Ready(c, u) /\ (st[c].outer => InReplay(u)) /\ (~ st[c].outer => Outside(u))
        /\ u.pc \notin {"queued", "ended", "aborted"}
    BY <1>2, <1>3, <2>1, ThrowIs
  <2> QED
    BY <1>7, <1>10, <2>1, <2>2
<1> QED
  BY <1>8, <1>9, <1>10 DEF Publish

LEMMA UndoCreateKeeps ==
  ASSUME IInv, NEW c \in Calls, UndoCreate(c)
  PROVE  IInv'
<1>1. /\ st[c].pc = "undo" /\ DataOK /\ CallsOK /\ Placed
      /\ Goto(c, [st[c] EXCEPT !.pc = "failed"])
      /\ UNCHANGED <<open, depth, task, chain, count, scope>>
  BY DEF IInv, UndoCreate
<1>2. scope \in Scope /\ st[c] \in States
  BY <1>1, Running
<1>3. DataOK'
  <2>1. scope.target[c] \in Tables
    BY <1>2 DEF Scope
  <2>2. NoExec \/ Exec([db EXCEPT ![scope.target[c]] = <<>>])
    BY DEF UndoCreate
  <2>3. db' \in Snapshots /\ committed' \in Snapshots
    BY <1>1, <2>1, <2>2, EmptyTable, ExecIs
  <2>4. UNCHANGED faults \/ Fault
    BY DEF UndoCreate
  <2> QED
    BY <1>1, <2>3, <2>4, DataKept DEF DataOK
<1>4. c \notin task
  BY <1>1, WhereIs
<1> QED
  BY <1>1, <1>2, <1>3, <1>4, Finishes DEF IInv

LEMMA DropMetaKeeps ==
  ASSUME IInv, NEW c \in Calls, DropMeta(c)
  PROVE  IInv'
<1>1. /\ st[c].pc = "dropMeta" /\ DataOK /\ CallsOK /\ Placed /\ NoExec
      /\ UNCHANGED <<open, depth, task, chain, scope>>
  BY DEF IInv, DropMeta
<1>2. scope \in Scope /\ st[c] \in States /\ Core(c, st[c]) /\ Shape(st[c])
  BY <1>1, Running
<1>3. DataOK'
  <2>1. scope.target[c] \in Tables
    BY <1>2 DEF Scope
  <2>2. /\ count' = [count EXCEPT ![scope.target[c]] = NoTable] \/ count' = count
        /\ UNCHANGED faults \/ Fault
    BY DEF DropMeta
  <2>3. count' \in [Tables -> Nat \cup {NoTable}]
    BY <1>1, <2>1, <2>2 DEF DataOK
  <2> QED
    BY <1>1, <2>2, <2>3, DataKept DEF DataOK, NoExec
<1>4. c \notin task /\ ~ st[c].outer
  BY <1>1, WhereIs
<1>5. CASE Goto(c, [st[c] EXCEPT !.pc = "enter", !.job = "purge"])
  <2>1. PICK u : u = [st[c] EXCEPT !.pc = "enter", !.job = "purge"]
    OBVIOUS
  <2>2. u \in States
    BY <1>2, <2>1 DEF Core, States, Pcs
  <2>3. /\ u.pc = "enter" /\ u.job = "purge" /\ u.outer = st[c].outer /\ u.todo = st[c].todo
        /\ u.restoring = st[c].restoring /\ u.snapshot = st[c].snapshot
    BY <1>2, <2>1 DEF Core, States
  <2>4. Core(c, u) /\ Shape(u)
    BY <1>2, <2>2, <2>3 DEF Core, Shape, HasWrite
  <2>5. Ready(c, u) /\ Keeps(c, st[c], u)
    BY <1>4, <2>3, <2>4 DEF Ready, Keeps, Outside
  <2> QED
    BY <1>1, <1>3, <1>5, <2>1, <2>3, <2>5, Statement DEF IInv
<1>6. CASE Goto(c, [st[c] EXCEPT !.pc = "failed"])
  BY <1>1, <1>2, <1>3, <1>4, <1>6, Finishes DEF IInv
<1> QED
  BY <1>5, <1>6 DEF DropMeta

LEMMA ReturnKeeps ==
  ASSUME IInv, NEW c \in Calls, Return(c)
  PROVE  IInv'
<1>1. /\ st[c].pc = "ok" /\ DataOK /\ CallsOK /\ Placed /\ NoExec
      /\ Goto(c, [st[c] EXCEPT !.pc = "done"])
      /\ UNCHANGED <<open, depth, task, chain, count, faults, scope>>
  BY DEF IInv, Return
<1>2. st[c] \in States
  BY <1>1, Running
<1>3. DataOK'
  BY <1>1, DataKept DEF DataOK, NoExec
<1>4. c \notin task
  BY <1>1, WhereIs
<1> QED
  BY <1>1, <1>2, <1>3, <1>4, Finishes DEF IInv

(* The chain of waiting calls.                                             *)
LEMMA AppendIs ==
  ASSUME NEW s \in Seq(Calls), IsInjective(s), NEW c \in Calls, c \notin Range(s)
  PROVE  /\ Append(s, c) \in Seq(Calls) /\ IsInjective(Append(s, c))
         /\ \A d : d \in Range(Append(s, c)) <=> (d \in Range(s) \/ d = c)
<1> DEFINE a == Append(s, c)
           n == Len(s)
<1>1. /\ a \in Seq(Calls) /\ n \in Nat /\ DOMAIN s = 1..n /\ DOMAIN a = 1..(n + 1)
      /\ \A i \in 1..n : a[i] = s[i]
      /\ a[n + 1] = c
  OBVIOUS
<1>2. \A i \in 1..(n + 1) : i \in 1..n \/ i = n + 1
  BY <1>1
<1>3. (\A i \in 1..n : i \in 1..(n + 1)) /\ n + 1 \in 1..(n + 1)
  BY <1>1
<1>4. \A i \in 1..n : s[i] # c
  BY <1>1 DEF Range
<1> HIDE DEF a, n
<1>5. IsInjective(a)
  BY <1>1, <1>2, <1>4 DEF IsInjective
<1>6. \A d : d \in Range(a) <=> (d \in Range(s) \/ d = c)
  BY <1>1, <1>2, <1>3 DEF Range
<1> QED
  BY <1>1, <1>5, <1>6 DEF a

LEMMA TailIs ==
  ASSUME NEW s \in Seq(Calls), IsInjective(s), s # <<>>
  PROVE  /\ Head(s) \in Calls /\ Head(s) \in Range(s)
         /\ Tail(s) \in Seq(Calls) /\ IsInjective(Tail(s))
         /\ \A d : d \in Range(Tail(s)) <=> (d \in Range(s) /\ d # Head(s))
<1> DEFINE a == Tail(s)
           n == Len(s)
<1>1. /\ a \in Seq(Calls) /\ n \in Nat /\ n >= 1 /\ DOMAIN s = 1..n /\ DOMAIN a = 1..(n - 1)
      /\ \A i \in 1..(n - 1) : a[i] = s[i + 1]
      /\ Head(s) = s[1] /\ Head(s) \in Calls
  OBVIOUS
<1>2. \A i \in 1..(n - 1) : i + 1 \in 1..n /\ i + 1 # 1
  BY <1>1
<1>3. \A i \in 1..n : i = 1 \/ (i - 1 \in 1..(n - 1) /\ (i - 1) + 1 = i)
  BY <1>1
<1>4. 1 \in 1..n
  BY <1>1
<1>5. \A i, j \in 1..(n - 1) : i + 1 = j + 1 => i = j
  BY <1>1
<1> HIDE DEF a, n
<1>6. IsInjective(a)
  BY <1>1, <1>2, <1>5 DEF IsInjective
<1>7. \A d : d \in Range(a) => (d \in Range(s) /\ d # Head(s))
  BY <1>1, <1>2, <1>4 DEF Range, IsInjective
<1>8. ASSUME NEW d \in Range(s), d # Head(s) PROVE d \in Range(a)
  <2>1. PICK i \in 1..n : s[i] = d
    BY <1>1 DEF Range
  <2>2. i - 1 \in 1..(n - 1) /\ (i - 1) + 1 = i
    BY <1>1, <1>3, <1>8, <2>1
  <2>3. a[i - 1] = d
    BY <1>1, <2>1, <2>2
  <2> QED
    BY <1>1, <2>2, <2>3 DEF Range
<1> QED
  BY <1>1, <1>4, <1>6, <1>7, <1>8 DEF Range, a

LEMMA EnterKeeps ==
  ASSUME IInv, NEW c \in Calls, Enter(c)
  PROVE  IInv'
<1>1. /\ st[c].pc = "enter" /\ DataOK /\ CallsOK /\ Placed /\ NoExec
      /\ UNCHANGED <<open, depth, task, count, faults, scope>>
  BY DEF IInv, Enter
<1>2. Core(c, st[c]) /\ Shape(st[c])
  BY <1>1, Running
<1>3. DataOK'
  BY <1>1, DataKept DEF DataOK, NoExec
<1>4. (c \in task => Inside(st[c])) /\ (c \notin task => Outside(st[c]))
  BY <1>1 DEF Placed
<1>5. c \in task => InReplay(st[c]) /\ depth = 1
  BY <1>1, <1>4 DEF Inside, InOwn, InSingle
<1>6. c \notin task => ~ st[c].outer
  BY <1>1, <1>4 DEF Outside, Over
<1>7. CASE Goto(c, Entered(st[c])) /\ UNCHANGED chain
  <2>1. PICK u : u = Entered(st[c])
    OBVIOUS
  <2>2. /\ Ready(c, u) /\ (~ st[c].outer => Outside(u))
        /\ u.pc \notin {"queued", "ended", "aborted"}
    BY <1>1, <1>2, <2>1, EnteredIs
  <2>3. c \in task => InReplay(u)
    <3>1. c \in task => st[c].outer /\ st[c].job # "read" /\ st[c].job # "purge"
      BY <1>5 DEF InReplay
    <3> QED
      BY <1>1, <1>2, <2>1, <3>1, EnteredIs
  <2>4. Keeps(c, st[c], u)
    BY <1>1, <1>6, <2>2, <2>3 DEF Keeps, InOwn, InSingle
  <2> QED
    BY <1>1, <1>3, <1>7, <2>1, <2>2, <2>4, Statement DEF IInv
<1>8. CASE /\ ~ Bypasses(c)
           /\ Goto(c, [st[c] EXCEPT !.pc = "queued"]) /\ chain' = Append(chain, c)
  <2>1. PICK u : u = [st[c] EXCEPT !.pc = "queued"]
    OBVIOUS
  <2>2. "queued" \in Pcs
    BY DEF Pcs
  <2>3. /\ Core(c, u) /\ u.pc = "queued" /\ u.job = st[c].job /\ u.outer = st[c].outer
        /\ u.todo = st[c].todo
    BY <1>2, <2>1, <2>2, PcIs
  <2>4. Ready(c, u)
    BY <1>1, <1>2, <2>3 DEF Ready, Shape, HasWrite
  <2>5. c \notin task
    BY <1>5, <1>8 DEF Bypasses
  <2>6. /\ CallsOK' /\ st'[c] = Settled(u) /\ st'[c].pc = "queued"
        /\ \A d \in Calls : d # c => st'[d] = st[d]
    BY <1>1, <1>8, <2>1, <2>3, <2>4, Moved
  <2>7. Outside(st'[c])
    <3>1. Outside(u)
      BY <1>6, <2>3, <2>5 DEF Outside
    <3> QED
      BY <2>4, <2>6, <3>1, SettledIs
  <2>8. c \notin Range(chain)
    BY <1>1 DEF Placed
  <2>9. /\ chain' \in Seq(Calls) /\ IsInjective(chain')
        /\ \A d : d \in Range(chain') <=> (d \in Range(chain) \/ d = c)
    BY <1>1, <1>8, <2>8, AppendIs DEF Placed
  <2>10. \A d \in Calls : d \in Range(chain') <=> st'[d].pc = "queued"
    BY <1>1, <2>6, <2>9 DEF Placed
  <2>11. \A d \in task : d \in Calls /\ d # c
    BY <1>1, <2>5 DEF Placed
  <2>12. \A d \in task : Inside(st[d])'
    BY <1>1, <2>6, <2>11 DEF Placed, Inside, InOwn, InReplay, InSingle
  <2>13. \A d \in Calls \ task : Outside(st'[d])
    BY <1>1, <2>6, <2>7 DEF Placed
  <2>14. open => \E d \in task : Opened(st'[d])
    BY <1>1, <2>6, <2>11 DEF Placed
  <2>15. Placed'
    BY <1>1, <2>9, <2>10, <2>12, <2>13, <2>14 DEF Placed, Outside, Over, Opened, IsInjective, Range
  <2> QED
    BY <1>3, <2>6, <2>15 DEF IInv
<1> QED
  BY <1>7, <1>8 DEF Enter

(* The call at the head of the chain starts, in a place of its own, or it  *)
(* fails to.                                                               *)
LEMMA Starting ==
  ASSUME CallsOK, Placed, task = {}, chain # <<>>, Head(chain) \in Calls,
         NEW u, Ready(Head(chain), u), Goto(Head(chain), u), u.pc # "queued",
         chain' = Tail(chain), depth' \in {0, 1}, scope' = scope,
         \/ /\ task' = {Head(chain)} /\ (open' => Opened(u))
            /\ \/ (InOwn(u) \/ InReplay(u)) /\ depth' = 1
               \/ InSingle(u) /\ (~ scope.beginFails => depth' = 0)
         \/ task' = {} /\ Outside(u) /\ ~ open' /\ (~ scope.beginFails => depth' = 0)
  PROVE  CallsOK' /\ Placed'
<1>1. PICK c \in Calls : c = Head(chain)
  OBVIOUS
<1>2. /\ CallsOK' /\ st'[c] = Settled(u) /\ st'[c].pc = u.pc
      /\ \A d \in Calls : d # c => st'[d] = st[d]
  BY <1>1, Moved
<1>3. /\ chain' \in Seq(Calls) /\ IsInjective(chain')
      /\ \A d : d \in Range(chain') <=> (d \in Range(chain) /\ d # c)
  BY <1>1, TailIs DEF Placed
<1>4. \A d \in Calls : d \in Range(chain') <=> st'[d].pc = "queued"
  BY <1>2, <1>3 DEF Placed
<1>5. \A d \in Calls : d # c => Outside(st'[d])
  BY <1>2 DEF Placed
<1>6. CASE /\ task' = {c} /\ (open' => Opened(u))
           /\ \/ (InOwn(u) \/ InReplay(u)) /\ depth' = 1
              \/ InSingle(u) /\ (~ scope.beginFails => depth' = 0)
  <2>1. st'[c] = u
    <3>1. ~ Over(u)
      BY <1>6 DEF InOwn, InReplay, InSingle, Over
    <3> QED
      BY <1>1, <1>2, <3>1, SettledIs
  <2>2. Inside(st[c])'
    BY <1>6, <2>1 DEF Inside, InOwn, InReplay, InSingle
  <2>3. \A d \in task' : Inside(st[d])'
    BY <1>6, <2>2 DEF Inside, InOwn, InReplay, InSingle
  <2>4. open' => \E d \in task' : Opened(st'[d])
    BY <1>6, <2>1
  <2>5. \A d \in Calls \ task' : Outside(st'[d])
    BY <1>5, <1>6
  <2>6. Placed'
    BY <1>3, <1>4, <1>6, <2>3, <2>4, <2>5
       DEF Placed, Outside, Over, Opened, IsInjective, Range, Inside, InOwn, InReplay, InSingle
  <2> QED
    BY <1>2, <2>6
<1>7. CASE task' = {} /\ Outside(u) /\ ~ open' /\ (~ scope.beginFails => depth' = 0)
  <2>1. Outside(st'[c])
    BY <1>1, <1>2, <1>7, SettledIs
  <2>2. \A d \in Calls \ task' : Outside(st'[d])
    BY <1>5, <2>1
  <2>3. Placed'
    BY <1>3, <1>4, <1>7, <2>2 DEF Placed, Outside, Over, IsInjective, Range
  <2> QED
    BY <1>2, <2>3
<1> QED
  BY <1>1, <1>6, <1>7

LEMMA StartTaskKeeps ==
  ASSUME IInv, NEW c \in Calls, StartTask(c)
  PROVE  IInv'
<1>1. /\ task = {} /\ chain # <<>> /\ Head(chain) = c /\ chain' = Tail(chain)
      /\ DataOK /\ CallsOK /\ Placed /\ NoExec /\ UNCHANGED <<count, scope>>
  BY DEF IInv, StartTask
<1>2. st[c].pc = "queued"
  <2>1. c \in Range(chain)
    BY <1>1, TailIs DEF Placed
  <2> QED
    BY <1>1, <2>1 DEF Placed
<1>3. Core(c, st[c]) /\ Shape(st[c])
  BY <1>2, Running
<1>4. ~ st[c].outer /\ ~ open
  <2>1. ~ st[c].outer
    BY <1>2, WhereIs
  <2> QED
    BY <1>1, <2>1 DEF Placed
<1>5. (~ scope.beginFails => depth = 0) /\ depth \in {0, 1}
  BY <1>1 DEF Placed
<1>6. DataOK'
  <2>1. /\ UNCHANGED faults \/ Fault
        /\ open' \in BOOLEAN
    BY <1>1 DEF StartTask, DataOK
  <2> QED
    BY <1>1, <2>1, DataKept DEF DataOK, NoExec
<1>7. CASE /\ st[c].job \notin {"tx", "replay"}
           /\ Goto(c, Entered(st[c])) /\ task' = {c}
           /\ UNCHANGED <<open, depth, faults>>
  <2>1. PICK u : u = Entered(st[c])
    OBVIOUS
  <2>2. Ready(c, u) /\ InSingle(u) /\ u.pc # "queued"
    BY <1>2, <1>3, <1>4, <1>7, <2>1, EnteredIs
  <2> QED
    BY <1>1, <1>4, <1>5, <1>6, <1>7, <2>1, <2>2, Starting DEF IInv
<1>8. CASE /\ st[c].job \in {"tx", "replay"}
           /\ depth' = 1 /\ open' = TRUE
           /\ Goto(c, Entered([st[c] EXCEPT !.outer = (st[c].job = "replay")]))
           /\ task' = {c}
  <2> DEFINE b == st[c].job = "replay"
  <2>1. PICK s : s = [st[c] EXCEPT !.outer = b]
    OBVIOUS
  <2>2. b \in BOOLEAN
    OBVIOUS
  <2>3. s \in States
    <3> HIDE DEF b
    <3> QED
      BY <1>3, <2>1, <2>2 DEF Core, States
  <2>4. /\ s.pc = "queued" /\ s.job = st[c].job /\ s.todo = st[c].todo
        /\ s.restoring = st[c].restoring /\ s.snapshot = st[c].snapshot
    <3> HIDE DEF b
    <3> QED
      BY <1>2, <1>3, <2>1 DEF Core, States
  <2>5. s.outer <=> st[c].job = "replay"
    <3>1. s.outer = b
      <4> HIDE DEF b
      <4> QED
        BY <1>3, <2>1 DEF Core, States
    <3> QED
      BY <3>1
  <2>6. Core(c, s) /\ Shape(s)
    BY <1>2, <1>3, <2>3, <2>4, <2>5 DEF Core, Shape, HasWrite
  <2>7. PICK u : u = Entered(s)
    OBVIOUS
  <2>8. /\ Ready(c, u) /\ u.pc \notin {"queued", "ended", "aborted"}
        /\ s.outer /\ s.job # "read" /\ s.job # "purge" => InReplay(u)
        /\ ~ s.outer /\ s.job = "tx" => InOwn(u)
    BY <2>4, <2>6, <2>7, EnteredIs
  <2>9. InReplay(u) \/ InOwn(u)
    BY <1>8, <2>4, <2>5, <2>8
  <2>10. Opened(u)
    BY <2>8, <2>9 DEF Opened, InReplay, InOwn
  <2>11. Goto(c, u)
    BY <1>8, <2>1, <2>7
  <2> QED
    BY <1>1, <1>6, <1>8, <2>8, <2>9, <2>10, <2>11, Starting DEF IInv
<1>9. CASE /\ scope.beginFails /\ depth' = 1 /\ UNCHANGED <<open, task>>
           /\ Goto(c, [st[c] EXCEPT !.pc = "failed"])
  <2>1. PICK u : u = [st[c] EXCEPT !.pc = "failed"]
    OBVIOUS
  <2>2. u.pc = "failed"
    BY <1>3, <2>1 DEF Core, States
  <2>3. Ready(c, u) /\ Outside(u)
    BY <2>2 DEF Ready, Outside, Over
  <2> QED
    BY <1>1, <1>4, <1>6, <1>9, <2>1, <2>2, <2>3, Starting DEF IInv
<1> QED
  BY <1>7, <1>8, <1>9 DEF StartTask

(* What a call that is made has to do.                                     *)
LEMMA Arrives ==
  ASSUME IInv, NEW c \in Calls, st[c].pc = "idle", NEW u, Goto(c, u), Ready(c, u), Outside(u),
         u.pc \notin {"queued", "ended", "aborted"}, NoExec,
         UNCHANGED <<scope, open, depth, task, chain, count, faults>>
  PROVE  IInv'
<1>1. DataOK /\ CallsOK /\ Placed
  BY DEF IInv
<1>2. DataOK'
  BY <1>1, DataKept DEF DataOK, NoExec
<1>3. c \notin task
  BY WhereIs
<1>4. Keeps(c, st[c], u)
  BY <1>3 DEF Keeps
<1> QED
  BY <1>1, <1>2, <1>4, Statement DEF IInv

LEMMA IdleThen ==
  ASSUME NEW c \in Calls, ~ Replay(c), NEW u \in States,
         u.pc \in {"enter", "ok", "failed", "dropMeta"}, u.job \in {"tx", "read"}, ~ u.outer,
         u.pc = "enter" /\ u.job = "tx" => u.todo # <<>>
  PROVE  Ready(c, u) /\ Outside(u)
<1>1. Core(c, u)
  BY DEF Core
<1>2. Shape(u)
  BY DEF Shape, HasWrite
<1> QED
  BY <1>1, <1>2 DEF Ready, Outside

LEMMA ArriveKeeps ==
  ASSUME IInv, NEW c \in Calls, Arrive(c)
  PROVE  IInv'
<1> DEFINE t == scope.target[c]
           missing == count[t] = NoTable
           created(items) == CreateWrites(t, items)
           todo == (IF missing THEN created(<<>>) ELSE <<>>)
                   \o <<Write(t, <<c, c>>, scope.kind[c] = "overwrite", TRUE, FALSE)>>
           ops == [i \in DOMAIN scope.ops |->
                     Write(scope.ops[i].table, <<c, c>>, scope.ops[i].over, TRUE, FALSE)]
<1>1. /\ st[c].pc = "idle" /\ NoExec
      /\ UNCHANGED <<scope, open, depth, task, chain, count, faults>>
      /\ DataOK
  BY DEF IInv, Arrive
<1>2. /\ scope \in Scope /\ t \in Tables
      /\ scope.ops \in Seq([table: Tables, over: BOOLEAN])
  BY <1>1 DEF DataOK, Scope
<1>3. \A items \in Seq(Calls) : created(items) \in Seq(WriteSet) /\ created(items) # <<>>
  BY <1>2 DEF CreateWrites, Write, WriteSet
<1>4. todo \in Seq(WriteSet) /\ todo # <<>>
  <2>1. <<>> \in Seq(Calls) /\ <<c, c>> \in Seq(Calls)
    OBVIOUS
  <2>2. Write(t, <<c, c>>, scope.kind[c] = "overwrite", TRUE, FALSE) \in WriteSet
    BY <1>2, <2>1 DEF Write, WriteSet
  <2>3. \A w \in WriteSet, s \in Seq(WriteSet) : s \o <<w>> \in Seq(WriteSet) /\ s \o <<w>> # <<>>
    OBVIOUS
  <2>4. (IF missing THEN created(<<>>) ELSE <<>>) \in Seq(WriteSet)
    <3>1. <<>> \in Seq(WriteSet)
      OBVIOUS
    <3> HIDE DEF created, missing
    <3>2. created(<<>>) \in Seq(WriteSet)
      BY <1>3, <2>1
    <3> QED
      BY <3>1, <3>2
  <2> QED
    BY <2>2, <2>3, <2>4
<1>5. CASE /\ scope.kind[c] \in {"append", "overwrite"}
           /\ Goto(c, [Idle EXCEPT !.pc = "enter", !.todo = todo])
  <2>1. PICK u : u = [Idle EXCEPT !.pc = "enter", !.todo = todo]
    OBVIOUS
  <2> HIDE DEF todo
  <2>2. u \in States /\ u.pc = "enter" /\ u.job = "tx" /\ u.todo = todo /\ ~ u.outer
    BY <1>4, <2>1, IdleIs DEF States, Pcs
  <2>3. ~ Replay(c)
    BY <1>5 DEF Replay
  <2>4. Ready(c, u) /\ Outside(u) /\ u.pc = "enter"
    BY <1>4, <2>2, <2>3, IdleThen
  <2> QED
    BY <1>1, <1>5, <2>1, <2>4, Arrives
<1>6. CASE /\ scope.kind[c] = "modify"
           /\ Goto(c, [Idle EXCEPT !.pc = "enter", !.job = "read"])
  <2>1. PICK u : u = [Idle EXCEPT !.pc = "enter", !.job = "read"]
    OBVIOUS
  <2>2. u \in States /\ u.pc = "enter" /\ u.job = "read" /\ ~ u.outer
    BY <2>1, IdleIs DEF States, Pcs
  <2>3. ~ Replay(c)
    BY <1>6 DEF Replay
  <2>4. Ready(c, u) /\ Outside(u) /\ u.pc = "enter"
    BY <2>2, <2>3, IdleThen
  <2> QED
    BY <1>1, <1>6, <2>1, <2>4, Arrives
<1>7. ASSUME NEW p \in {"ok", "failed", "dropMeta"}, Goto(c, [Idle EXCEPT !.pc = p]), ~ Replay(c)
      PROVE  IInv'
  <2>1. PICK u : u = [Idle EXCEPT !.pc = p]
    OBVIOUS
  <2>2. u \in States /\ u.pc = p /\ u.job = "tx" /\ ~ u.outer
    BY <2>1, IdleIs DEF States, Pcs
  <2>4. Ready(c, u) /\ Outside(u) /\ u.pc = p
    BY <1>7, <2>2, IdleThen
  <2> QED
    BY <1>1, <1>7, <2>1, <2>4, Arrives
<1>8. CASE /\ scope.kind[c] = "create"
           /\ Goto(c, [Idle EXCEPT !.pc = "enter", !.todo = created(<<c>>)])
  <2>1. PICK u : u = [Idle EXCEPT !.pc = "enter", !.todo = created(<<c>>)]
    OBVIOUS
  <2>2. created(<<c>>) \in Seq(WriteSet) /\ created(<<c>>) # <<>>
    <3>1. <<c>> \in Seq(Calls)
      OBVIOUS
    <3> QED
      BY <1>3, <3>1
  <2> HIDE DEF created
  <2>3. /\ u \in States /\ u.pc = "enter" /\ u.job = "tx" /\ u.todo = created(<<c>>)
        /\ ~ u.outer
    BY <2>1, <2>2, IdleIs DEF States, Pcs
  <2>4. ~ Replay(c)
    BY <1>8 DEF Replay
  <2>5. Ready(c, u) /\ Outside(u) /\ u.pc = "enter"
    BY <2>2, <2>3, <2>4, IdleThen
  <2> QED
    BY <1>1, <1>8, <2>1, <2>5, Arrives
<1>9. CASE /\ scope.kind[c] = "commit"
           /\ Goto(c, [Idle EXCEPT !.pc = "enter", !.job = "replay", !.snapshot = db, !.todo = ops])
  <2>1. PICK u : u = [Idle EXCEPT !.pc = "enter", !.job = "replay", !.snapshot = db, !.todo = ops]
    OBVIOUS
  <2>2. /\ Len(scope.ops) \in Nat /\ DOMAIN scope.ops = 1..Len(scope.ops)
        /\ \A i \in 1..Len(scope.ops) : scope.ops[i] \in [table: Tables, over: BOOLEAN]
    <3>1. \A R : scope.ops \in Seq(R) =>
            /\ Len(scope.ops) \in Nat /\ DOMAIN scope.ops = 1..Len(scope.ops)
            /\ \A i \in 1..Len(scope.ops) : scope.ops[i] \in R
      OBVIOUS
    <3> QED
      BY <1>2, <3>1
  <2>3. \A i \in 1..Len(scope.ops) : ops[i] \in WriteSet /\ ~ ops[i].ddl
    <3>1. <<c, c>> \in Seq(Calls)
      OBVIOUS
    <3> QED
      BY <2>2, <3>1 DEF Write, WriteSet
  <2>4. ops = [i \in 1..Len(scope.ops) |-> ops[i]]
    BY <2>2
  <2> HIDE DEF ops
  <2>5. ops \in [1..Len(scope.ops) -> WriteSet]
    BY <2>3, <2>4
  <2>6. ops \in Seq(WriteSet) /\ Len(ops) = Len(scope.ops)
    BY <2>2, <2>5
  <2>7. NoDdl(ops)
    BY <2>3, <2>6 DEF NoDdl
  <2>8. db \in Snapshots
    BY <1>1 DEF DataOK
  <2>9. u \in States
    BY <2>1, <2>6, <2>8, IdleIs DEF States, Pcs
  <2>10. u.pc = "enter" /\ u.job = "replay" /\ u.todo = ops /\ ~ u.outer /\ u.snapshot = db
    BY <2>1, IdleIs DEF States
  <2>11. Ready(c, u) /\ Outside(u)
    BY <1>9, <2>7, <2>8, <2>9, <2>10 DEF Ready, Core, Shape, HasWrite, Outside, Replay
  <2> QED
    BY <1>1, <1>9, <2>1, <2>10, <2>11, Arrives
<1>10. \/ /\ scope.kind[c] \in {"append", "overwrite"}
          /\ Goto(c, [Idle EXCEPT !.pc = "enter", !.todo = todo])
       \/ /\ scope.kind[c] = "modify"
          /\ \/ Goto(c, [Idle EXCEPT !.pc = "failed"])
             \/ Goto(c, [Idle EXCEPT !.pc = "enter", !.job = "read"])
       \/ /\ scope.kind[c] = "create"
          /\ \/ Goto(c, [Idle EXCEPT !.pc = "enter", !.todo = created(<<c>>)])
             \/ Goto(c, [Idle EXCEPT !.pc = "ok"])
       \/ scope.kind[c] = "drop" /\ Goto(c, [Idle EXCEPT !.pc = "dropMeta"])
       \/ /\ scope.kind[c] = "commit"
          /\ Goto(c, [Idle EXCEPT !.pc = "enter", !.job = "replay", !.snapshot = db, !.todo = ops])
  BY DEF Arrive
<1> HIDE DEF todo, ops, created
<1> QED
  BY <1>5, <1>6, <1>7, <1>8, <1>9, <1>10 DEF Replay

-----------------------------------------------------------------------------
(* Theorems                                                                *)

LEMMA InitOK == Init => IInv
<1> SUFFICES ASSUME Init PROVE IInv
  OBVIOUS
<1>1. scope \in Scope /\ scope.faults \in Nat
  BY SqliteAssumption DEF Init, Scope
<1>2. DataOK
  <2>1. db \in Snapshots /\ committed \in Snapshots
    BY EmptyTable DEF Init, Snapshots
  <2>2. count \in [Tables -> Nat \cup {NoTable}]
    BY DEF Init
  <2>3. open = FALSE /\ faults = 0
    BY DEF Init
  <2>4. open \in BOOLEAN
    BY <2>3
  <2>5. faults \in 0..scope.faults
    BY <1>1, <2>3
  <2> QED
    BY <1>1, <2>1, <2>2, <2>4, <2>5 DEF DataOK
<1>3. \A c \in Calls : st[c] = Idle
  BY DEF Init
<1>4. Idle = [Idle EXCEPT !.pc = "idle"]
  BY DEF Idle
<1>5. CallsOK
  <2>1. st \in [Calls -> States]
    BY IdleIs DEF Init
  <2> QED
    BY <1>3, <1>4, <2>1, IdleIs DEF CallsOK, Sound
<1>6. Placed
  <2>1. chain \in Seq(Calls) /\ IsInjective(chain) /\ Range(chain) = {}
    BY DEF Init, IsInjective, Range
  <2> QED
    BY <1>3, <2>1, IdleIs DEF Init, Placed, Outside
<1> QED
  BY <1>2, <1>5, <1>6 DEF IInv

LEMMA StutterOK == IInv /\ UNCHANGED vars => IInv'
<1> SUFFICES ASSUME IInv, UNCHANGED vars PROVE IInv'
  OBVIOUS
<1>1. DataOK'
  BY DEF IInv, DataOK, vars
<1>2. CallsOK'
  BY DEF IInv, CallsOK, Sound, Core, Replay, vars
<1>3. Placed'
  BY DEF IInv, Placed, Inside, Outside, Opened, vars
<1> QED
  BY <1>1, <1>2, <1>3 DEF IInv

LEMMA NextOK == IInv /\ [Next]_vars => IInv'
<1> SUFFICES ASSUME IInv, Next PROVE IInv'
  BY StutterOK
<1>1. PICK c \in Calls : Arrive(c) \/ Step(c)
  BY DEF Next
<1> QED
  BY <1>1, ArriveKeeps, EnterKeeps, StartTaskKeeps, DeleteRowsKeeps, SelectNextIdKeeps,
     InsertRowKeeps, CommitKeeps, RollbackKeeps, EndTaskKeeps, ReadRowsKeeps, CountRowsKeeps,
     PublishKeeps, UndoCreateKeeps, DropMetaKeeps, PurgeRowsKeeps, ReturnKeeps DEF Step

LEMMA Invariance == Spec => []IInv
BY InitOK, NextOK, PTL DEF Spec

LEMMA TypeFollows == IInv => TypeOK
<1> SUFFICES ASSUME IInv PROVE TypeOK
  OBVIOUS
<1>1. \A t \in Tables : Range(db[t]) \subseteq Calls /\ Range(committed[t]) \subseteq Calls
  <2>1. \A t \in Tables : db[t] \in RowSets /\ committed[t] \in RowSets
    BY DEF IInv, DataOK, Snapshots
  <2> QED
    BY <2>1, RowSetIs
<1>2. Cardinality(task) <= 1
  <2>1. CASE task = {}
    BY <2>1, FS_EmptySet
  <2>2. CASE task # {}
    <3>1. PICK c \in task : TRUE
      BY <2>2
    <3>2. task = {c}
      BY DEF IInv, Placed
    <3>3. Cardinality({c}) = 1
      BY FS_Singleton
    <3> QED
      BY <3>2, <3>3
  <2> QED
    BY <2>1, <2>2
<1>3. task \cap Range(chain) = {}
  <2>1. \A c \in task : st[c].pc # "queued"
    BY DEF IInv, Placed, Inside, InOwn, InReplay, InSingle
  <2> QED
    BY <2>1 DEF IInv, Placed
<1>4. \A t \in Tables : count[t] \in Nat \cup {NoTable}
  BY DEF IInv, DataOK
<1> QED
  BY <1>1, <1>2, <1>3, <1>4 DEF IInv, DataOK, Placed, TypeOK

LEMMA BracketsFollow == IInv => Bracketed
<1> SUFFICES ASSUME IInv PROVE Bracketed
  OBVIOUS
<1>1. ASSUME open PROVE depth = 1 /\ \E c \in task : st[c].job # "read"
  <2>1. PICK c \in task : Opened(st[c])
    BY <1>1 DEF IInv, Placed
  <2>2. Inside(st[c])
    BY DEF IInv, Placed
  <2> QED
    BY <2>1, <2>2 DEF Inside, InOwn, InReplay, InSingle, Opened
<1> QED
  BY <1>1 DEF IInv, Placed, Bracketed

(* The tables hold rows of calls, the depth is 0 or 1, one task at most is *)
(* under way, and a call waits in the chain once and not while it runs.    *)
THEOREM TypeCorrect == Spec => []TypeOK
BY Invariance, TypeFollows, PTL

(* However calls overlap and statements fail, a transaction is open only   *)
(* within the task of the chain that opened it, and while no task is under *)
(* way nothing goes past the chain unless a BEGIN has failed.              *)
THEOREM ConsistentHolds == Spec => []Consistent
<1>1. IInv => Consistent
  BY TypeFollows, BracketsFollow DEF Consistent
<1> QED
  BY <1>1, Invariance, PTL

-----------------------------------------------------------------------------
(* What the tables show                                                    *)

(* The id of a rank is the only one.                                       *)
Ranked(D, i) == CHOOSE k \in D : Cardinality({j \in D : j <= k}) = i

LEMMA RankIsOwn ==
  ASSUME NEW D \in IdSets, NEW k \in D
  PROVE  /\ Cardinality({j \in D : j <= k}) \in 1..Cardinality(D)
         /\ Ranked(D, Cardinality({j \in D : j <= k})) = k
<1> DEFINE U(m) == {j \in D : j <= m}
<1>1. D \subseteq Nat
  BY DEF IdSets
<1>2. ASSUME NEW a \in D, NEW b \in D, a < b PROVE Cardinality(U(a)) # Cardinality(U(b))
  <2>1. U(a) \in SUBSET U(b)
    <3>1. \A j \in D : j <= a => j <= b
      BY <1>1, <1>2
    <3> QED
      BY <3>1
  <2>2. b \in U(b) /\ b \notin U(a)
    BY <1>1, <1>2
  <2>3. IsFiniteSet(U(b))
    BY IdSetIsFinite
  <2> HIDE DEF U
  <2> QED
    BY <2>1, <2>2, <2>3, FS_Subset
<1>3. \A a \in D : Cardinality(U(a)) = Cardinality(U(k)) => a = k
  <2>1. \A a \in D : a < k \/ k < a \/ a = k
    BY <1>1
  <2> HIDE DEF U
  <2> QED
    BY <1>2, <2>1
<1>4. Cardinality(U(k)) \in 1..Cardinality(D)
  <2>1. U(k) \in SUBSET D /\ k \in U(k)
    BY <1>1
  <2>2. IsFiniteSet(D) /\ IsFiniteSet(U(k))
    BY IdSetIsFinite
  <2> HIDE DEF U
  <2>3. /\ Cardinality(U(k)) \in Nat /\ Cardinality(D) \in Nat
        /\ Cardinality(U(k)) <= Cardinality(D) /\ Cardinality(U(k)) # 0
    BY <2>1, <2>2, FS_Subset, FS_CardinalityType, FS_EmptySet
  <2> QED
    BY <2>3
<1>5. Ranked(D, Cardinality(U(k))) = k
  <2>1. Ranked(D, Cardinality(U(k))) = CHOOSE a \in D : Cardinality(U(a)) = Cardinality(U(k))
    BY DEF Ranked
  <2> HIDE DEF U
  <2> QED
    BY <1>3, <2>1
<1> QED
  BY <1>4, <1>5

(* A row with a new greatest id is the last row.                           *)
LEMMA RowsAppend ==
  ASSUME NEW f \in RowSets, NEW id \in Nat, \A i \in DOMAIN f : i < id, NEW x \in Calls
  PROVE  Rows([i \in DOMAIN f \cup {id} |-> IF i = id THEN x ELSE f[i]]) = Append(Rows(f), x)
<1> DEFINE D == DOMAIN f
           E == D \cup {id}
           h == [i \in E |-> IF i = id THEN x ELSE f[i]]
           n == Cardinality(D)
<1>1. D \in IdSets /\ D \subseteq Nat
  BY RowSetIs DEF IdSets
<1>2. E \in IdSets
  BY <1>1, AddId
<1>3. n \in Nat /\ Cardinality(E) = n + 1
  <2>1. id \notin D
    <3>1. ~ (id < id)
      OBVIOUS
    <3> QED
      BY <3>1
  <2>2. IsFiniteSet(D)
    BY <1>1, IdSetIsFinite
  <2> QED
    BY <2>1, <2>2, FS_AddElement, FS_CardinalityType
<1>4. ASSUME NEW i \in 1..n PROVE Ranked(E, i) = Ranked(D, i) /\ Ranked(D, i) \in D
  <2>1. PICK k \in D : Cardinality({j \in D : j <= k}) = i
    BY <1>1, RankIsTaken
  <2>2. {j \in E : j <= k} = {j \in D : j <= k}
    <3>1. ~ (id <= k)
      BY <1>1
    <3> QED
      BY <3>1
  <2>3. Ranked(D, i) = k
    BY <1>1, <2>1, RankIsOwn
  <2>4. Ranked(E, i) = k
    <3>1. Cardinality({j \in E : j <= k}) = i /\ k \in E
      BY <2>1, <2>2
    <3> HIDE DEF E
    <3> QED
      BY <1>2, <3>1, RankIsOwn
  <2> QED
    BY <2>3, <2>4
<1>5. Ranked(E, n + 1) = id
  <2>1. {j \in E : j <= id} = E
    <3>1. \A j \in E : j <= id
      BY <1>1
    <3> QED
      BY <3>1
  <2>2. Cardinality({j \in E : j <= id}) = n + 1 /\ id \in E
    BY <1>3, <2>1
  <2> HIDE DEF E
  <2> QED
    BY <1>2, <2>2, RankIsOwn
<1>6. Rows(f) = [i \in 1..n |-> f[Ranked(D, i)]]
  BY DEF Rows, Ranked
<1>7. Rows(h) = [i \in 1..(n + 1) |-> h[Ranked(E, i)]]
  <2>1. DOMAIN h = E
    OBVIOUS
  <2> HIDE DEF h, E
  <2>2. Rows(h) = [i \in 1..Cardinality(E) |-> h[Ranked(E, i)]]
    BY <2>1 DEF Rows, Ranked
  <2> QED
    BY <1>3, <2>2
<1>8. Rows(f) \in Seq(Calls) /\ Len(Rows(f)) = n
  <2>1. Rows(f) \in Seq(Calls)
    BY RowsAreSeq
  <2>2. DOMAIN Rows(f) = 1..n
    BY <1>6
  <2> HIDE DEF n
  <2> QED
    BY <1>3, <2>1, <2>2
<1>9. Append(Rows(f), x) = [i \in 1..(n + 1) |-> IF i = n + 1 THEN x ELSE Rows(f)[i]]
  <2>1. PICK r \in Seq(Calls) : r = Rows(f) /\ Len(r) = n
    BY <1>8
  <2>2. PICK a \in Seq(Calls) : a = Append(r, x)
    <3>1. Append(r, x) \in Seq(Calls)
      OBVIOUS
    <3> QED
      BY <3>1
  <2>3. /\ Len(a) = n + 1 /\ a[n + 1] = x
        /\ \A i \in 1..(n + 1) : i # n + 1 => a[i] = r[i]
    BY <1>3, <2>1, <2>2
  <2>4. a = [i \in 1..(n + 1) |-> a[i]]
    BY <2>3
  <2>5. \A i \in 1..(n + 1) : a[i] = IF i = n + 1 THEN x ELSE r[i]
    BY <2>3
  <2>6. a = [i \in 1..(n + 1) |-> IF i = n + 1 THEN x ELSE r[i]]
    BY <2>4, <2>5
  <2> QED
    BY <2>1, <2>2, <2>6
<1>10. ASSUME NEW i \in 1..(n + 1) PROVE h[Ranked(E, i)] = IF i = n + 1 THEN x ELSE Rows(f)[i]
  <2>1. CASE i = n + 1
    BY <1>5, <2>1
  <2>2. CASE i # n + 1
    <3>1. i \in 1..n
      BY <1>3, <2>2
    <3>2. Ranked(E, i) = Ranked(D, i) /\ Ranked(D, i) \in D
      BY <1>4, <3>1
    <3>3. Ranked(D, i) # id
      BY <3>2
    <3>4. Rows(f)[i] = f[Ranked(D, i)]
      BY <1>6, <3>1
    <3> QED
      BY <2>2, <3>2, <3>3, <3>4
  <2> QED
    BY <2>1, <2>2
<1> QED
  <2>1. Rows(h) = Append(Rows(f), x)
    <3> HIDE DEF h, E, D, n
    <3> QED
      BY <1>7, <1>9, <1>10
  <2> QED
    BY <2>1

(* The tables as they show with the rows d and the counts k.               *)
Shown(d, k) == [t \in Tables |-> IF k[t] = NoTable THEN NoTable ELSE Rows(d[t])]
Values == [Tables -> {NoTable} \cup Seq(Calls)]

(* A row with a new id, rows at the end of a table, and a whole write.     *)
Inserted(f, id, x) == [i \in DOMAIN f \cup {id} |-> IF i = id THEN x ELSE f[i]]
Grown(v, t, x) == [v EXCEPT ![t] = Append(@, x)]
Added(v, t, rows) == [v EXCEPT ![t] = @ \o rows]
Written(v, w) == [v EXCEPT ![w.table] = (IF w.over THEN <<>> ELSE @) \o w.items]

LEMMA ShownIs ==
  ASSUME NEW d \in Snapshots, NEW k
  PROVE  /\ Shown(d, k) \in Values
         /\ \A t \in Tables : k[t] # NoTable =>
              Shown(d, k)[t] = Rows(d[t]) /\ Shown(d, k)[t] \in Seq(Calls)
         /\ \A t \in Tables : k[t] = NoTable => Shown(d, k)[t] = NoTable
<1>1. \A t \in Tables : Rows(d[t]) \in Seq(Calls)
  BY RowsAreSeq DEF Snapshots
<1> QED
  BY <1>1 DEF Shown, Values

LEMMA RowsOfNothing == Rows(<<>>) = <<>>
<1>1. DOMAIN <<>> = {} /\ Cardinality({}) = 0
  BY FS_EmptySet
<1>2. Rows(<<>>) = [i \in 1..0 |-> <<>>[Ranked({}, i)]]
  BY <1>1 DEF Rows, Ranked
<1>3. \A i \in 1..0 : FALSE
  OBVIOUS
<1>4. [i \in 1..0 |-> <<>>[Ranked({}, i)]] = <<>>
  BY <1>3
<1> QED
  BY <1>2, <1>4

LEMMA ShownEmptied ==
  ASSUME NEW d \in Snapshots, NEW k, NEW t \in Tables, k[t] # NoTable
  PROVE  Shown([d EXCEPT ![t] = <<>>], k) = [Shown(d, k) EXCEPT ![t] = <<>>]
BY RowsOfNothing DEF Shown, Snapshots

LEMMA ShownInserted ==
  ASSUME NEW d \in Snapshots, NEW k, NEW t \in Tables, k[t] # NoTable,
         NEW id \in Nat, \A i \in DOMAIN d[t] : i < id, NEW x \in Calls
  PROVE  Shown([d EXCEPT ![t] = Inserted(d[t], id, x)], k) = Grown(Shown(d, k), t, x)
<1>1. d[t] \in RowSets
  BY DEF Snapshots
<1>2. Rows(Inserted(d[t], id, x)) = Append(Rows(d[t]), x)
  BY <1>1, RowsAppend DEF Inserted
<1> QED
  BY <1>2 DEF Shown, Snapshots, Grown

LEMMA ShownHidden ==
  ASSUME NEW d \in Snapshots, NEW k, NEW t \in Tables, k[t] = NoTable, NEW f
  PROVE  Shown([d EXCEPT ![t] = f], k) = Shown(d, k)
BY DEF Shown, Snapshots

LEMMA ShownCounted ==
  ASSUME NEW d, NEW k, NEW j, \A t \in Tables : k[t] = NoTable <=> j[t] = NoTable
  PROVE  Shown(d, j) = Shown(d, k)
BY DEF Shown

LEMMA WrittenOver ==
  ASSUME NEW v \in Values, NEW w \in WriteSet, w.over
  PROVE  Added([v EXCEPT ![w.table] = <<>>], w.table, w.items) = Written(v, w)
BY DEF Added, Written, Values, WriteSet

LEMMA WrittenAfter ==
  ASSUME NEW v \in Values, NEW w \in WriteSet, ~ w.over
  PROVE  Added(v, w.table, w.items) = Written(v, w)
BY DEF Added, Written, Values, WriteSet

LEMMA AddedNothing ==
  ASSUME NEW v \in Values, NEW t \in Tables, v[t] \in Seq(Calls)
  PROVE  Added(v, t, <<>>) = v
<1>1. v[t] \o <<>> = v[t]
  OBVIOUS
<1> QED
  BY <1>1 DEF Added, Values

LEMMA AddedOne ==
  ASSUME NEW v \in Values, NEW t \in Tables, v[t] \in Seq(Calls),
         NEW left \in Seq(Calls), left # <<>>
  PROVE  Added(Grown(v, t, Head(left)), t, Tail(left)) = Added(v, t, left)
<1>1. \A r \in Seq(Calls) : Append(r, Head(left)) \o Tail(left) = r \o left
  OBVIOUS
<1>2. Append(v[t], Head(left)) \o Tail(left) = v[t] \o left
  BY <1>1
<1>3. Grown(v, t, Head(left))[t] = Append(v[t], Head(left))
  BY DEF Values, Grown
<1> QED
  BY <1>2, <1>3 DEF Added, Values, Grown

-----------------------------------------------------------------------------
(* One call after the other                                                *)

(* The effect of a call is in place.                                       *)
Flipped(s) ==
  \/ s.pc \in {"ended", "ok"} \/ s.job = "purge"
  \/ ~ s.outer /\ (s.job = "count" \/ s.pc = "publish")

(* The current write, or what is left of it, leads to the tables v.        *)
Toward(s, v, d, k) ==
  /\ s.pc \in {"enter", "queued"} /\ s.job = "tx" => Written(Shown(d, k), Head(s.todo)) = v
  /\ s.pc = "delete" => Written(Shown(d, k), Head(s.todo)) = v /\ Head(s.todo).over
  /\ s.pc = "select" => Added(Shown(d, k), Head(s.todo).table, Head(s.todo).items) = v
  /\ s.pc = "insert" => /\ Added(Shown(d, k), Head(s.todo).table, s.left) = v
                        /\ \A i \in DOMAIN d[Head(s.todo).table] : i < s.id
  /\ s.pc = "commit" /\ ~ s.outer => Shown(d, k) = v
  /\ s.outer /\ ((s.job = "count" /\ s.pc \in {"enter", "count"}) \/ s.pc = "publish") =>
       Shown(d, k) = v

(* The tables after each write of a commit.                                *)
OpWrite(c, i) == Write(scope.ops[i].table, <<c, c>>, scope.ops[i].over, TRUE, FALSE)

IsPath(f, c, g) ==
  LET n == Len(scope.ops) IN
  /\ f \in [0..n -> Values] /\ f[0] = g.from /\ f[n] = g.to
  /\ \A i \in 1..n : f[i] = Written(f[i - 1], OpWrite(c, i))

OnPath(f, c, s, d, k) ==
  LET n == Len(scope.ops)
      m == Len(s.todo)
  IN  /\ m <= n /\ \A i \in 1..m : s.todo[i] = OpWrite(c, (n - m) + i)
      /\ s.job = "replay" => m = n
      /\ m > 0 => Toward(s, f[(n - m) + 1], d, k)
      /\ s.pc = "commit" => Shown(d, k) = f[n]

(* A call that has not failed is on its way to its outcome.                *)
Way(c, s, d, k, g) ==
  ~ s.restoring => IF Replay(c) THEN \E f : IsPath(f, c, g) /\ OnPath(f, c, s, d, k)
                   ELSE Toward(s, g.to, d, k)

(* What a call does where it is.                                           *)
Fits(c, s, k, g) ==
  /\ c \in scope.calls /\ s.pc # "undo"
  /\ s.restoring => Replay(c) /\ s.job # "replay" /\ s.pc # "commit"
  /\ Replay(c) => s.outer \/ s.job = "replay" \/ s.pc = "ok"
  /\ Replay(c) => \A i \in DOMAIN scope.ops : k[scope.ops[i].table] # NoTable
  /\ s.job = "read" => /\ ~ Replay(c) /\ k[scope.target[c]] # NoTable
                       /\ g.to = [g.from EXCEPT ![scope.target[c]] = Append(@, c)]
  /\ s.pc = "dropMeta" => /\ scope.kind[c] = "drop"
                          /\ g.to = [g.from EXCEPT ![scope.target[c]] = NoTable]
  /\ s.job = "purge" => scope.kind[c] = "drop" /\ k[scope.target[c]] = NoTable
  /\ s.pc = "dropMeta" \/ s.job = "purge" => s.todo = <<>>
  /\ ~ Replay(c) /\ s.todo # <<>> => Tail(s.todo) = <<>>
  /\ \A i \in 1..Len(s.todo) : ~ s.todo[i].ddl /\ k[s.todo[i].table] # NoTable

Local(c, s, d, m, k, g) ==
  /\ g.from \in Values /\ g.to \in Values
  /\ Fits(c, s, k, g)
  /\ Shown(m, k) = (IF Flipped(s) THEN g.to ELSE g.from)
  /\ Way(c, s, d, k, g)

(* Its statements run in its own task, within the transaction.             *)
Holds(c, s, T, o) ==
  /\ s.pc \in {"delete", "select", "insert"} => c \in T
  /\ c \in T /\ Opened(s) => o

Kept ==
  \A t \in scope.existing :
    (\A c \in scope.calls : scope.kind[c] = "drop" => scope.target[c] # t) => count[t] # NoTable

RInv ==
  /\ ghost.call \in Calls
  /\ \A c \in Calls : Active(c) => c = ghost.call
  /\ ~ open => db = committed
  /\ Kept
  /\ Active(ghost.call) =>
       /\ Local(ghost.call, st[ghost.call], db, committed, count, ghost)
       /\ Holds(ghost.call, st[ghost.call], task, open)

(* A step of the call, as a client sees it.                                *)
Goes ==
  LET p == st[ghost.call].pc
      q == st'[ghost.call].pc
  IN  /\ ghost' = ghost /\ Active(ghost.call)
      /\ p = "ok" => q = "done"
      /\ View' = View \/ q \notin {"idle", "ok", "done", "failed"}
      /\ q = "ok" => View = ghost.to
      /\ q # "idle"

LEMMA Now ==
  ASSUME IInv, RInv, NEW c \in Calls, Active(c)
  PROVE  /\ c = ghost.call /\ scope \in Scope
         /\ st[c] \in States /\ Core(c, st[c]) /\ Shape(st[c])
         /\ Local(c, st[c], db, committed, count, ghost) /\ Holds(c, st[c], task, open)
         /\ db \in Snapshots /\ committed \in Snapshots
         /\ count \in [Tables -> Nat \cup {NoTable}] /\ NoTable \notin Nat
         /\ View = Shown(committed, count)
         /\ task \subseteq {c}
<1>1. st[c].pc \notin {"idle", "done", "failed"}
  BY DEF Active, Done
<1>2. c = ghost.call
  BY DEF RInv
<1>3. task \subseteq {c}
  <2>1. ASSUME NEW e \in task PROVE e = c
    <3>1. e \in Calls /\ Inside(st[e])
      BY DEF IInv, Placed
    <3>2. Active(e)
      BY <3>1 DEF Active, Done, Inside, InOwn, InReplay, InSingle
    <3> QED
      BY <1>2, <3>1, <3>2 DEF RInv
  <2> QED
    BY <2>1
<1>4. scope \in Scope /\ st[c] \in States /\ Core(c, st[c]) /\ Shape(st[c])
  BY <1>1, Running
<1>5. View = Shown(committed, count)
  BY DEF View, Shown
<1>6. Local(c, st[c], db, committed, count, ghost) /\ Holds(c, st[c], task, open)
  BY <1>2 DEF RInv
<1> QED
  BY <1>2, <1>3, <1>4, <1>5, <1>6, SqliteAssumption DEF IInv, DataOK

(* What is local holds of the next state, if the scope stays.              *)
LEMMA LocalNext ==
  ASSUME scope' = scope, NEW c, NEW u, NEW d, NEW m, NEW k, NEW g,
         d = db', m = committed', k = count', g = ghost', Local(c, u, d, m, k, g)
  PROVE  Local(c, u, db, committed, count, ghost)'
<1>1. Fits(c, u, count, ghost)'
  BY DEF Local, Fits, Replay
<1>2. /\ (ghost.from \in Values /\ ghost.to \in Values)'
      /\ (Shown(committed, count) = (IF Flipped(u) THEN ghost.to ELSE ghost.from))'
  BY DEF Local
<1>3. ASSUME NEW f, IsPath(f, c, g), OnPath(f, c, u, d, k)
      PROVE  IsPath(f, c, ghost)' /\ OnPath(f, c, u, db, count)'
  BY <1>3 DEF IsPath, OnPath, OpWrite
<1>4. Way(c, u, db, count, ghost)'
  BY <1>3 DEF Local, Way, Replay
<1> QED
  BY <1>1, <1>2, <1>4 DEF Local

LEMMA Advances ==
  ASSUME IInv, RInv, NEW c \in Calls, Active(c), NEW u, Goto(c, u),
         scope' = scope, ghost' = ghost, ~ open' => db' = committed', Kept',
         st[c].pc = "ok" => u.pc = "done",
         View' = View \/ u.pc \notin {"ok", "done", "failed"},
         u.pc = "ok" => View = ghost.to,
         u.pc # "idle",
         NEW d, NEW m, NEW k, d = db', m = committed', k = count',
         Over(u) \/ (Local(c, u, d, m, k, ghost) /\ Holds(c, u, task', open'))
  PROVE  RInv' /\ Goes
<1>1. c = ghost.call
  BY Now
<1>2. st \in [Calls -> States]
  BY DEF IInv, CallsOK
<1>3. /\ st'[c].pc = u.pc /\ (~ Over(u) => st'[c] = u)
      /\ \A e \in Calls : e # c => st'[e] = st[e]
  BY <1>2 DEF Goto, Over, Idle
<1>4. Goes
  BY <1>1, <1>3 DEF Goes
<1>5. \A e \in Calls : e # c => ~ Active(e)'
  BY <1>1, <1>3 DEF RInv, Active, Done
<1>6. CASE Over(u)
  <2>1. ~ Active(c)'
    BY <1>3, <1>6 DEF Active, Done, Over
  <2>2. ~ Active(ghost.call)'
    BY <1>1, <2>1 DEF Active, Done
  <2> QED
    BY <1>1, <1>4, <1>5, <2>1, <2>2 DEF RInv
<1>7. CASE ~ Over(u)
  <2>1. Local(c, u, db, committed, count, ghost)'
    <3>1. PICK g : g = ghost
      OBVIOUS
    <3>2. Local(c, u, d, m, k, g)
      BY <1>7, <3>1
    <3> QED
      BY <3>1, <3>2, LocalNext
  <2>2. st'[c] = u
    BY <1>3, <1>7
  <2> QED
    BY <1>1, <1>4, <1>5, <1>7, <2>1, <2>2 DEF RInv
<1> QED
  BY <1>6, <1>7

(* A call goes on with the same write.                                     *)
LEMMA Continues ==
  ASSUME NEW c, NEW s, NEW d, NEW m, NEW k, NEW g, Local(c, s, d, m, k, g),
         NEW u, u.todo = s.todo, u.restoring = s.restoring, u.outer = s.outer,
         u.job = s.job \/ (u.job \in {"tx", "count"} /\ s.job # "replay"),
         s.pc # "ok", u.pc \notin {"undo", "dropMeta"},
         u.pc = "commit" => ~ Replay(c),
         Flipped(u) <=> Flipped(s),
         NEW e, NEW n, Shown(n, k) = Shown(m, k),
         \A v : ~ s.restoring /\ Toward(s, v, d, k) => Toward(u, v, e, k)
  PROVE  Local(c, u, e, n, k, g)
<1>1. Fits(c, u, k, g)
  BY DEF Local, Fits
<1>2. ASSUME NEW f, ~ s.restoring, Replay(c), OnPath(f, c, s, d, k) PROVE OnPath(f, c, u, e, k)
  BY <1>2 DEF OnPath
<1>3. Way(c, u, e, k, g)
  BY <1>2 DEF Local, Way
<1> QED
  BY <1>1, <1>3 DEF Local

LEMMA NextWriteFields ==
  ASSUME NEW s \in States, NEW todo, NEW u, u = NextWrite(s, todo)
  PROVE  /\ u.todo = todo /\ u.job = "tx" /\ u.outer = s.outer /\ u.restoring = s.restoring
         /\ u.pc = IF todo # <<>> THEN "enter"
                   ELSE IF s.outer THEN IF s.restoring THEN "rollback" ELSE "commit"
                   ELSE IF s.restoring THEN "failed" ELSE "ok"
BY DEF NextWrite, States

LEMMA OpTables ==
  ASSUME scope \in Scope
  PROVE  /\ Len(scope.ops) \in Nat /\ DOMAIN scope.ops = 1..Len(scope.ops)
         /\ \A i \in DOMAIN scope.ops : /\ scope.ops[i].table \in Tables
                                       /\ scope.ops[i].over \in BOOLEAN
<1>1. scope.ops \in Seq([table: Tables, over: BOOLEAN])
  BY DEF Scope
<1>2. \A R : scope.ops \in Seq(R) =>
        /\ Len(scope.ops) \in Nat /\ DOMAIN scope.ops = 1..Len(scope.ops)
        /\ \A i \in DOMAIN scope.ops : scope.ops[i] \in R
  OBVIOUS
<1>3. \A i \in DOMAIN scope.ops : scope.ops[i] \in [table: Tables, over: BOOLEAN]
  BY <1>1, <1>2
<1>4. Len(scope.ops) \in Nat /\ DOMAIN scope.ops = 1..Len(scope.ops)
  BY <1>1, <1>2
<1> QED
  BY <1>3, <1>4

(* A call that throws ends; a commit restores what it found.               *)
LEMMA Throws ==
  ASSUME scope \in Scope, NEW c, NEW s, Core(c, s), s.todo # <<>>, s.job # "replay", s.pc # "ok",
         NEW d, NEW m, NEW k, NEW g, Local(c, s, d, m, k, g),
         NEW e, NEW n, NEW j, Shown(n, j) = g.from,
         \A t \in Tables : k[t] # NoTable => j[t] # NoTable,
         NEW u, u = Throw(c, s)
  PROVE  /\ ~ Replay(c) => u.pc = "failed"
         /\ Replay(c) => /\ u.pc \in {"enter", "rollback"} /\ s.outer /\ u.outer
                         /\ u.job = "tx" /\ Local(c, u, e, n, j, g)
<1>1. CASE ~ Replay(c)
  BY <1>1 DEF Throw, Core, States
<1>2. CASE Replay(c)
  <2>1. s \in States /\ s.outer
    BY <1>2 DEF Core, Local, Fits
  <2>2. PICK todo : /\ u.todo = todo /\ u.job = "tx" /\ u.outer /\ u.restoring
                    /\ u.pc \in {"enter", "rollback"}
                    /\ \A i \in 1..Len(todo) : ~ todo[i].ddl /\ j[todo[i].table] # NoTable
    <3>1. CASE s.restoring
      <4>1. u = NextWrite(s, Tail(s.todo))
        BY <1>2, <3>1 DEF Throw
      <4>2. /\ u.todo = Tail(s.todo) /\ u.job = "tx" /\ u.outer /\ u.restoring
            /\ u.pc \in {"enter", "rollback"}
        BY <2>1, <3>1, <4>1, NextWriteFields
      <4>3. \A i \in 1..Len(Tail(s.todo)) :
              ~ Tail(s.todo)[i].ddl /\ j[Tail(s.todo)[i].table] # NoTable
        <5>1. s.todo \in Seq(WriteSet)
          BY <2>1 DEF States
        <5>2. \A i \in 1..Len(Tail(s.todo)) :
                /\ i + 1 \in 1..Len(s.todo) /\ Tail(s.todo)[i] = s.todo[i + 1]
                /\ s.todo[i + 1] \in WriteSet
          BY <5>1
        <5>3. \A w \in WriteSet : w.table \in Tables
          BY DEF WriteSet
        <5> QED
          BY <5>2, <5>3 DEF Local, Fits
      <4> QED
        BY <4>2, <4>3
    <3>2. CASE ~ s.restoring
      <4>1. PICK r : r = [s EXCEPT !.restoring = TRUE, !.snapshot = <<>>]
        OBVIOUS
      <4>2. r \in States /\ r.restoring /\ r.outer
        BY <2>1, <4>1 DEF States
      <4>3. u = NextWrite(r, Restores(s))
        BY <1>2, <3>2, <4>1 DEF Throw
      <4>4. /\ u.todo = Restores(s) /\ u.job = "tx" /\ u.outer /\ u.restoring
            /\ u.pc \in {"enter", "rollback"}
        BY <4>2, <4>3, NextWriteFields
      <4>5. s.snapshot \in Snapshots
        BY <1>2, <3>2 DEF Core
      <4>6. \A i \in 1..Len(Restores(s)) :
              ~ Restores(s)[i].ddl /\ j[Restores(s)[i].table] # NoTable
        <5>1. /\ NoDdl(Restores(s))
              /\ \A i \in 1..Len(Restores(s)) :
                   \E h \in DOMAIN scope.ops : Restores(s)[i].table = scope.ops[h].table
          BY <4>5, RestoresIs
        <5>2. \A h \in DOMAIN scope.ops : j[scope.ops[h].table] # NoTable
          BY <1>2, OpTables DEF Local, Fits
        <5> QED
          BY <5>1, <5>2 DEF NoDdl
      <4> QED
        BY <4>4, <4>6
    <3> QED
      BY <3>1, <3>2
  <2>3. ~ Flipped(u)
    BY <2>2 DEF Flipped
  <2>4. Fits(c, u, j, g)
    <3>1. \A h \in DOMAIN scope.ops : j[scope.ops[h].table] # NoTable
      BY <1>2, OpTables DEF Local, Fits
    <3> QED
      BY <1>2, <2>2, <3>1 DEF Local, Fits
  <2>5. Local(c, u, e, n, j, g)
    BY <2>2, <2>3, <2>4 DEF Local, Way
  <2> QED
    BY <1>2, <2>1, <2>2, <2>5
<1> QED
  BY <1>1, <1>2

(* A step that leaves rows, counts and the transaction alone.              *)
LEMMA Still ==
  ASSUME RInv, NoExec, UNCHANGED <<scope, open, count>>
  PROVE  (~ open' => db' = committed') /\ Kept' /\ View' = View
<1>1. View' = View
  BY DEF View, NoExec
<1>2. Kept'
  BY DEF RInv, Kept
<1> QED
  BY <1>1, <1>2 DEF RInv, NoExec

LEMMA EnterGoes ==
  ASSUME IInv, RInv, ~ scope.beginFails, NEW c \in Calls, Enter(c)
  PROVE  RInv' /\ Goes
<1> DEFINE s == st[c]
<1>1. /\ s.pc = "enter" /\ NoExec /\ UNCHANGED <<open, depth, task, count, faults, scope, ghost>>
      /\ Active(c)
  BY DEF Enter, Active, Done
<1>2. /\ c = ghost.call /\ s \in States /\ Core(c, s) /\ Shape(s) /\ task \subseteq {c}
      /\ Local(c, s, db, committed, count, ghost) /\ Holds(c, s, task, open)
      /\ db \in Snapshots
  BY <1>1, Now
<1>3. (~ open' => db' = committed') /\ Kept' /\ View' = View
  BY <1>1, Still
<1>4. /\ c \in task => InReplay(s) /\ depth = 1
      /\ c \notin task => depth = 0 /\ ~ s.outer
  <2>1. c \in task => Inside(s)
    BY DEF IInv, Placed
  <2>2. c \notin task => task = {} /\ Outside(s)
    BY <1>2 DEF IInv, Placed
  <2> QED
    BY <1>1, <2>1, <2>2 DEF IInv, Placed, Inside, InOwn, InSingle, Outside, Over
<1>5. CASE c \in task
  <2>1. Goto(c, Entered(s)) /\ s.outer /\ s.job \in {"tx", "count"} /\ s.todo # <<>>
    BY <1>1, <1>2, <1>4, <1>5 DEF Enter, Bypasses, InReplay, Shape, HasWrite
  <2>2. PICK u : u = Entered(s)
    OBVIOUS
  <2>3. /\ u.todo = s.todo /\ u.restoring = s.restoring /\ u.outer = s.outer /\ u.job = s.job
        /\ u.pc = IF s.job = "tx" THEN First(Head(s.todo)) ELSE "count"
    BY <1>2, <2>1, <2>2 DEF Entered, States
  <2>4. Head(s.todo) \in WriteSet
    BY <1>2, <2>1, RestIs
  <2>5. ASSUME NEW v, Toward(s, v, db, count) PROVE Toward(u, v, db, count)
    <3>1. Shown(db, count) \in Values
      BY <1>2, ShownIs
    <3>2. ~ Head(s.todo).over => 
            Added(Shown(db, count), Head(s.todo).table, Head(s.todo).items) = Written(Shown(db, count), Head(s.todo))
      BY <2>4, <3>1, WrittenAfter
    <3> QED
      BY <1>1, <2>1, <2>3, <2>5, <3>2 DEF Toward, First
  <2>6. u.pc \in {"delete", "select", "count"}
    BY <2>3 DEF First
  <2>7. Local(c, u, db, committed, count, ghost)
    BY <1>1, <1>2, <2>1, <2>3, <2>5, <2>6, Continues DEF Flipped
  <2>8. Holds(c, u, task, open)
    BY <1>1, <1>2, <1>5, <2>1, <2>3, <2>6 DEF Holds, Opened
  <2> QED
    BY <1>1, <1>2, <1>3, <2>1, <2>2, <2>6, <2>7, <2>8, Advances DEF NoExec
<1>6. CASE c \notin task
  <2>1. Goto(c, [s EXCEPT !.pc = "queued"]) /\ ~ s.outer
    BY <1>4, <1>6 DEF Enter, Bypasses
  <2>2. PICK u : u = [s EXCEPT !.pc = "queued"]
    OBVIOUS
  <2>3. /\ u.todo = s.todo /\ u.restoring = s.restoring /\ u.outer = s.outer /\ u.job = s.job
        /\ u.pc = "queued"
    BY <1>2, <2>2 DEF States
  <2>4. Local(c, u, db, committed, count, ghost)
    BY <1>1, <1>2, <2>3, Continues DEF Flipped, Toward
  <2>5. Holds(c, u, task, open)
    BY <1>6, <2>3 DEF Holds
  <2> QED
    BY <1>1, <1>2, <1>3, <2>1, <2>2, <2>3, <2>4, <2>5, Advances DEF NoExec
<1> QED
  BY <1>5, <1>6

(* The call at the head of the chain is queued, and nothing else runs.     *)
LEMMA AtHead ==
  ASSUME IInv, RInv, NEW c \in Calls, StartTask(c)
  PROVE  /\ st[c].pc = "queued" /\ Active(c) /\ ~ st[c].outer /\ ~ open /\ db = committed
         /\ c \notin task
<1>1. /\ task = {} /\ chain # <<>> /\ Head(chain) = c
      /\ CallsOK /\ Placed
  BY DEF IInv, StartTask
<1>2. st[c].pc = "queued"
  <2>1. c \in Range(chain)
    BY <1>1, TailIs DEF Placed
  <2> QED
    BY <1>1, <2>1 DEF Placed
<1>3. ~ st[c].outer
  BY <1>2, WhereIs
<1>4. ~ open
  BY <1>1 DEF Placed
<1> QED
  BY <1>1, <1>2, <1>3, <1>4 DEF Active, Done, RInv

(* A commit starts on the path of its writes.                              *)
LEMMA ReplayStarts ==
  ASSUME NEW c, NEW s \in States, NEW d, NEW k, NEW g, Local(c, s, d, d, k, g),
         scope \in Scope, s.job = "replay", s.pc = "queued", ~ s.outer, Replay(c),
         NEW u, u.todo = s.todo, u.job = "tx", u.outer, ~ u.restoring,
         u.pc = IF s.todo # <<>> THEN "enter" ELSE "commit"
  PROVE  Local(c, u, d, d, k, g) /\ u.pc \in {"enter", "commit"}
<1> DEFINE n == Len(scope.ops)
           m == Len(s.todo)
<1>1. ~ s.restoring
  BY DEF Local, Fits
<1>2. u.pc \in {"enter", "commit"}
  OBVIOUS
<1>3. PICK f : IsPath(f, c, g) /\ OnPath(f, c, s, d, k)
  BY <1>1 DEF Local, Way
<1>4. n \in Nat /\ m = n /\ Shown(d, k) = f[0]
  <2>1. Len(scope.ops) \in Nat
    <3>1. scope.ops \in Seq([table: Tables, over: BOOLEAN])
      BY DEF Scope
    <3> QED
      BY <3>1
  <2>2. ~ Flipped(s)
    BY DEF Flipped
  <2> QED
    BY <1>3, <2>1, <2>2 DEF Local, OnPath, IsPath
<1>5. s.todo \in Seq(WriteSet)
  BY DEF States
<1>6. OnPath(f, c, u, d, k)
  <2>1. CASE s.todo = <<>>
    <3>1. m = 0 /\ n = 0 /\ \A i \in 1..m : FALSE
      BY <1>4, <2>1
    <3> QED
      BY <1>3, <1>4, <2>1, <3>1 DEF OnPath
  <2>2. CASE s.todo # <<>>
    <3>1. m > 0 /\ Head(s.todo) = s.todo[1]
      BY <1>5, <2>2
    <3>2. s.todo[1] = OpWrite(c, 1)
      <4>1. \A i \in 1..m : s.todo[i] = OpWrite(c, (n - m) + i)
        BY <1>3 DEF OnPath
      <4>2. 1 \in 1..m /\ (n - m) + 1 = 1
        BY <1>4, <3>1
      <4> QED
        BY <4>1, <4>2
    <3>3. f[1] = Written(f[0], OpWrite(c, 1))
      <4>1. 1 \in 1..n /\ 1 - 1 = 0
        BY <1>4, <3>1
      <4> QED
        BY <1>3, <4>1 DEF IsPath
    <3>4. Toward(u, f[1], d, k)
      BY <1>4, <2>2, <3>1, <3>2, <3>3 DEF Toward
    <3>5. (n - m) + 1 = 1
      BY <1>4
    <3> QED
      BY <1>3, <1>4, <2>2, <3>4, <3>5 DEF OnPath
  <2> QED
    BY <2>1, <2>2
<1>7. ~ Flipped(u) /\ ~ Flipped(s)
  BY DEF Flipped
<1>8. Fits(c, u, k, g)
  BY <1>2 DEF Local, Fits
<1> QED
  BY <1>1, <1>2, <1>3, <1>6, <1>7, <1>8 DEF Local, Way

LEMMA StartTaskGoes ==
  ASSUME IInv, RInv, ~ scope.beginFails, NEW c \in Calls, StartTask(c)
  PROVE  RInv' /\ Goes
<1> DEFINE s == st[c]
<1>1. /\ s.pc = "queued" /\ Active(c) /\ ~ s.outer /\ ~ open /\ db = committed /\ c \notin task
      /\ NoExec /\ UNCHANGED <<count, scope, ghost>>
  BY AtHead DEF StartTask
<1>2. /\ c = ghost.call /\ scope \in Scope /\ s \in States /\ Core(c, s) /\ Shape(s)
      /\ Local(c, s, db, committed, count, ghost)
      /\ db \in Snapshots
  BY <1>1, Now
<1>3. (~ open' => db' = committed') /\ Kept' /\ View' = View
  <2>1. View' = View
    BY <1>1 DEF View, NoExec
  <2>2. Kept'
    BY <1>1 DEF RInv, Kept
  <2> QED
    BY <1>1, <2>1, <2>2 DEF NoExec
<1>4. ASSUME NEW u, Goto(c, u), Local(c, u, db, committed, count, ghost), task' = {c},
             u.pc \notin {"idle", "ok", "done", "failed"}, Opened(u) => open'
      PROVE  RInv' /\ Goes
  <2>1. Holds(c, u, task', open')
    BY <1>4 DEF Holds
  <2> QED
    BY <1>1, <1>2, <1>3, <1>4, <2>1, Advances DEF NoExec
<1>5. CASE /\ s.job \notin {"tx", "replay"} /\ Goto(c, Entered(s)) /\ task' = {c}
  <2>1. PICK u : u = Entered(s)
    OBVIOUS
  <2>2. s.job \in {"read", "count", "purge"}
    BY <1>2, <1>5 DEF States
  <2>3. /\ u.todo = s.todo /\ u.restoring = s.restoring /\ u.outer = s.outer /\ u.job = s.job
        /\ u.pc = s.job
    BY <1>2, <1>5, <2>1 DEF Entered, States
  <2>4. Local(c, u, db, committed, count, ghost)
    BY <1>1, <1>2, <2>2, <2>3, Continues DEF Flipped, Toward
  <2>5. ~ Opened(u)
    BY <1>1, <2>2, <2>3 DEF Opened
  <2> QED
    BY <1>4, <1>5, <2>1, <2>2, <2>3, <2>4, <2>5
<1>6. CASE /\ s.job = "tx" /\ open' = TRUE /\ task' = {c}
           /\ Goto(c, Entered([s EXCEPT !.outer = (s.job = "replay")]))
  <2>1. PICK u : u = Entered([s EXCEPT !.outer = (s.job = "replay")])
    OBVIOUS
  <2>2. s.outer = (s.job = "replay")
    BY <1>1, <1>2, <1>6 DEF States
  <2>3. [s EXCEPT !.outer = (s.job = "replay")] = s
    BY <1>2, <2>2 DEF States
  <2>4. s.todo # <<>>
    BY <1>1, <1>2, <1>6 DEF Shape, HasWrite
  <2>5. /\ u.todo = s.todo /\ u.restoring = s.restoring /\ u.outer = s.outer /\ u.job = s.job
        /\ u.pc = First(Head(s.todo))
    BY <1>2, <1>6, <2>1, <2>3 DEF Entered, States
  <2>6. Head(s.todo) \in WriteSet
    BY <1>2, <2>4, RestIs
  <2>7. ASSUME NEW v, Toward(s, v, db, count) PROVE Toward(u, v, db, count)
    <3>1. Shown(db, count) \in Values
      BY <1>2, ShownIs
    <3>2. ~ Head(s.todo).over =>
            Added(Shown(db, count), Head(s.todo).table, Head(s.todo).items) = Written(Shown(db, count), Head(s.todo))
      BY <2>6, <3>1, WrittenAfter
    <3> QED
      BY <1>1, <1>6, <2>5, <2>7, <3>2 DEF Toward, First
  <2>8. u.pc \in {"delete", "select"}
    BY <2>5 DEF First
  <2>9. Local(c, u, db, committed, count, ghost)
    BY <1>1, <1>2, <1>6, <2>5, <2>7, <2>8, Continues DEF Flipped
  <2> QED
    BY <1>4, <1>6, <2>1, <2>8, <2>9
<1>7. CASE /\ s.job = "replay" /\ open' = TRUE /\ task' = {c}
           /\ Goto(c, Entered([s EXCEPT !.outer = (s.job = "replay")]))
  <2>1. PICK r : r = [s EXCEPT !.outer = TRUE]
    OBVIOUS
  <2>2. PICK u : u = NextWrite(r, s.todo)
    OBVIOUS
  <2>3. r.job = "replay" /\ r.todo = s.todo
    BY <1>2, <1>7, <2>1 DEF States
  <2>4. (s.job = "replay") = TRUE
    BY <1>7
  <2>5. Goto(c, u)
    BY <1>7, <2>1, <2>2, <2>3, <2>4 DEF Entered
  <2>6. Replay(c)
    BY <1>2, <1>7 DEF Core
  <2>7. ~ s.restoring
    BY <1>2, <1>7 DEF Local, Fits
  <2>8. r \in States /\ r.outer /\ ~ r.restoring
    BY <1>2, <2>1, <2>7 DEF States
  <2>9. /\ u.todo = s.todo /\ u.job = "tx" /\ u.outer /\ ~ u.restoring
        /\ u.pc = IF s.todo # <<>> THEN "enter" ELSE "commit"
    BY <2>2, <2>8, NextWriteFields
  <2>10. Local(c, u, db, db, count, ghost) /\ u.pc \in {"enter", "commit"}
    BY <1>1, <1>2, <1>7, <2>6, <2>9, ReplayStarts
  <2> QED
    BY <1>1, <1>4, <1>7, <2>5, <2>10
<1> QED
  BY <1>5, <1>6, <1>7 DEF StartTask

(* The steps of a call that throws.                                        *)
LEMMA ThrowGoes ==
  ASSUME IInv, RInv, NEW c \in Calls, Active(c), st[c].todo # <<>>, st[c].pc # "ok",
         st[c].job \notin {"replay", "purge"}, Goto(c, Throw(c, st[c])),
         UNCHANGED <<scope, ghost>>, ~ open' => db' = committed', Kept', View' = View,
         \A t \in Tables : count[t] # NoTable => count'[t] # NoTable,
         st[c].outer => /\ st[c].pc \in {"delete", "select", "insert", "count", "publish"}
                        /\ UNCHANGED <<task, open>>
  PROVE  RInv' /\ Goes
<1> DEFINE s == st[c]
<1>1. /\ c = ghost.call /\ scope \in Scope /\ Core(c, s)
      /\ Local(c, s, db, committed, count, ghost) /\ Holds(c, s, task, open)
      /\ View = Shown(committed, count)
  BY Now
<1>2. PICK u, d, m, k : u = Throw(c, s) /\ d = db' /\ m = committed' /\ k = count'
  OBVIOUS
<1>3. CASE ~ Replay(c)
  <2>1. u.pc = "failed"
    BY <1>1, <1>2, <1>3 DEF Throw, Core, States
  <2> QED
    BY <1>2, <2>1, Advances DEF Over
<1>4. CASE Replay(c)
  <2>1. s.outer
    BY <1>1, <1>4 DEF Local, Fits
  <2>2. ~ Flipped(s)
    BY <2>1 DEF Flipped
  <2>3. View = ghost.from
    BY <1>1, <2>2 DEF Local
  <2>4. Shown(m, k) = ghost.from
    <3>1. View' = Shown(committed', count')
      BY DEF View, Shown
    <3> QED
      BY <1>2, <2>3, <3>1
  <2>5. \A t \in Tables : count[t] # NoTable => k[t] # NoTable
    BY <1>2
  <2>6. /\ u.pc \in {"enter", "rollback"} /\ u.outer /\ u.job = "tx"
        /\ Local(c, u, d, m, k, ghost)
    BY <1>1, <1>2, <1>4, <2>4, <2>5, Throws
  <2>7. Holds(c, u, task', open')
    BY <1>1, <2>1, <2>6 DEF Holds, Opened
  <2> QED
    BY <1>2, <2>6, <2>7, Advances
<1> QED
  BY <1>3, <1>4

(* The steps of a call whose statement fails.                              *)
LEMMA RaiseGoes ==
  ASSUME IInv, RInv, NEW c \in Calls, st[c].pc \in {"delete", "select", "insert"},
         Goto(c, Raise(c, st[c])), NoExec, UNCHANGED <<scope, ghost, task, open, count>>
  PROVE  RInv' /\ Goes
<1> DEFINE s == st[c]
<1>1. Active(c)
  BY DEF Active, Done
<1>2. /\ c = ghost.call /\ s \in States /\ Core(c, s) /\ Shape(s)
      /\ Local(c, s, db, committed, count, ghost) /\ Holds(c, s, task, open)
  BY <1>1, Now
<1>3. (~ open' => db' = committed') /\ Kept' /\ View' = View
  BY Still
<1>4. s.todo # <<>> /\ s.job = "tx"
  BY <1>2 DEF Shape, HasWrite
<1>5. CASE OwnTransaction(c, s)
  <2>1. PICK u : u = [s EXCEPT !.pc = "rollback"]
    OBVIOUS
  <2>2. Goto(c, u)
    BY <1>5, <2>1 DEF Raise
  <2>3. /\ u.todo = s.todo /\ u.restoring = s.restoring /\ u.outer = s.outer /\ u.job = s.job
        /\ u.pc = "rollback"
    BY <1>2, <2>1 DEF States
  <2>4. ~ s.outer
    BY <1>5 DEF OwnTransaction
  <2>5. Local(c, u, db, committed, count, ghost)
    BY <1>2, <1>4, <2>3, <2>4, Continues DEF Flipped, Toward
  <2>6. Holds(c, u, task', open')
    BY <1>2, <1>4, <2>3 DEF Holds, Opened
  <2> QED
    BY <1>1, <1>2, <1>3, <2>2, <2>3, <2>5, <2>6, Advances DEF NoExec
<1>6. CASE ~ OwnTransaction(c, s)
  <2>1. Goto(c, Throw(c, s))
    BY <1>6 DEF Raise
  <2> QED
    BY <1>1, <1>3, <1>4, <2>1, ThrowGoes
<1> QED
  BY <1>5, <1>6

LEMMA DeleteRowsGoes ==
  ASSUME IInv, RInv, NEW c \in Calls, DeleteRows(c)
  PROVE  RInv' /\ Goes
<1> DEFINE s == st[c]
           t == Current(c).table
<1>1. /\ s.pc = "delete" /\ Active(c)
      /\ UNCHANGED <<open, depth, task, chain, count, scope, ghost>>
  BY DEF DeleteRows, Active, Done
<1>2. CASE NoExec /\ Goto(c, Raise(c, s))
  BY <1>1, <1>2, RaiseGoes
<1>3. CASE Exec([db EXCEPT ![t] = <<>>]) /\ Goto(c, [s EXCEPT !.pc = "select"])
  <2>1. /\ c = ghost.call /\ s \in States /\ Core(c, s) /\ Shape(s)
        /\ Local(c, s, db, committed, count, ghost) /\ Holds(c, s, task, open)
        /\ db \in Snapshots
    BY <1>1, Now
  <2>2. s.todo # <<>> /\ s.job = "tx"
    BY <1>1, <2>1 DEF Shape, HasWrite
  <2>3. c \in task /\ open
    BY <1>1, <2>1, <2>2 DEF Holds, Opened
  <2>4. t \in Tables /\ count[t] # NoTable /\ Head(s.todo) \in WriteSet /\ t = Head(s.todo).table
    <3>1. Head(s.todo) = s.todo[1] /\ 1 \in 1..Len(s.todo)
      <4>1. s.todo \in Seq(WriteSet)
        BY <2>1 DEF States
      <4> QED
        BY <2>2, <4>1
    <3>2. Head(s.todo).table \in Tables /\ Head(s.todo) \in WriteSet
      BY <2>1, <2>2, StatesAreTyped
    <3> QED
      BY <2>1, <3>1, <3>2 DEF Local, Fits, Current
  <2>5. PICK u, d : u = [s EXCEPT !.pc = "select"] /\ d = [db EXCEPT ![t] = <<>>]
    OBVIOUS
  <2>6. db' = d /\ committed' = committed
    BY <1>3, <2>3, <2>5 DEF Exec
  <2>7. /\ u.todo = s.todo /\ u.restoring = s.restoring /\ u.outer = s.outer /\ u.job = s.job
        /\ u.pc = "select"
    BY <2>1, <2>5 DEF States
  <2>8. ASSUME NEW v, Toward(s, v, db, count) PROVE Toward(u, v, d, count)
    <3>1. Shown(db, count) \in Values
      BY <2>1, ShownIs
    <3>2. Shown(d, count) = [Shown(db, count) EXCEPT ![t] = <<>>]
      BY <2>1, <2>4, <2>5, ShownEmptied
    <3>3. Written(Shown(db, count), Head(s.todo)) = v /\ Head(s.todo).over
      BY <1>1, <2>8 DEF Toward
    <3>4. Added(Shown(d, count), t, Head(s.todo).items) = v
      BY <2>4, <3>1, <3>2, <3>3, WrittenOver
    <3> QED
      BY <2>2, <2>4, <2>7, <3>4 DEF Toward
  <2>9. Local(c, u, d, committed, count, ghost)
    BY <1>1, <2>1, <2>2, <2>7, <2>8, Continues DEF Flipped
  <2>10. Holds(c, u, task, open)
    BY <2>3 DEF Holds
  <2>11. View' = View /\ Kept'
    BY <1>1, <2>6 DEF View, RInv, Kept
  <2> QED
    BY <1>1, <1>3, <2>1, <2>3, <2>5, <2>6, <2>7, <2>9, <2>10, <2>11, Advances
<1> QED
  BY <1>2, <1>3 DEF DeleteRows

(* The rows of a write are complete.                                       *)
LEMMA RowsComplete ==
  ASSUME NEW c \in task, NEW s, s.job = "tx", s.pc \in {"select", "insert"},
         NEW d, NEW m, NEW k, NEW g, Local(c, s, d, m, k, g),
         NEW r \in States, r.todo = s.todo, r.restoring = s.restoring, r.outer = s.outer, r.job = "tx",
         NEW u, u = AfterRows(c, r),
         NEW e, NEW n, Shown(n, k) = Shown(m, k),
         \A v : ~ s.restoring /\ Toward(s, v, d, k) => Shown(e, k) = v
  PROVE  Local(c, u, e, n, k, g) /\ u.pc \in {"commit", "enter", "publish"} /\ u.outer = s.outer
<1>1. CASE ~ r.outer
  <2>1. u = [r EXCEPT !.pc = "commit", !.id = 0]
    BY <1>1 DEF AfterRows, OwnTransaction, Own
  <2>2. /\ u.todo = s.todo /\ u.restoring = s.restoring /\ u.outer = s.outer /\ u.job = "tx"
        /\ u.pc = "commit"
    BY <2>1 DEF States
  <2>3. ~ Replay(c)
    BY <1>1 DEF Local, Fits
  <2>4. ASSUME NEW v, ~ s.restoring, Toward(s, v, d, k) PROVE Toward(u, v, e, k)
    <3>1. Shown(e, k) = v
      BY <2>4
    <3> QED
      BY <2>2, <3>1 DEF Toward
  <2>5. Local(c, u, e, n, k, g)
    BY <1>1, <2>2, <2>3, <2>4, Continues DEF Flipped
  <2> QED
    BY <2>2, <2>5
<1>2. CASE r.outer
  <2>1. u = AfterTransaction([r EXCEPT !.id = 0])
    BY <1>2 DEF AfterRows, OwnTransaction
  <2>2. PICK q : q = [r EXCEPT !.id = 0]
    OBVIOUS
  <2>3. q \in States /\ q.todo = s.todo /\ q.restoring = s.restoring /\ q.outer /\ q.job = "tx"
    BY <1>2, <2>2 DEF States
  <2>4. u = AfterTransaction(q)
    BY <2>1, <2>2
  <2>5. /\ u.todo = s.todo /\ u.restoring = s.restoring /\ u.outer
        /\ (u.job = "count" /\ u.pc = "enter") \/ (u.job = "tx" /\ u.pc = "publish")
    BY <2>3, <2>4 DEF AfterTransaction, States
  <2>6. ASSUME NEW v, ~ s.restoring, Toward(s, v, d, k) PROVE Toward(u, v, e, k)
    <3>1. Shown(e, k) = v
      BY <2>6
    <3> QED
      BY <2>5, <3>1 DEF Toward
  <2>7. Local(c, u, e, n, k, g)
    BY <1>2, <2>5, <2>6, Continues DEF Flipped
  <2> QED
    BY <1>2, <2>5, <2>7
<1> QED
  BY <1>1, <1>2

LEMMA SelectNextIdGoes ==
  ASSUME IInv, RInv, NEW c \in Calls, SelectNextId(c)
  PROVE  RInv' /\ Goes
<1> DEFINE s == st[c]
           w == Current(c)
           id == Max({0} \cup DOMAIN db[w.table]) + 1
<1>1. /\ s.pc = "select" /\ Active(c) /\ NoExec
      /\ UNCHANGED <<open, depth, task, chain, count, scope, ghost>>
  BY DEF SelectNextId, Active, Done
<1>2. CASE Goto(c, Raise(c, s))
  BY <1>1, <1>2, RaiseGoes
<1>3. CASE Goto(c, IF w.items = <<>> THEN AfterRows(c, [s EXCEPT !.id = id, !.left = w.items])
                   ELSE [[s EXCEPT !.id = id, !.left = w.items] EXCEPT !.pc = "insert"])
  <2>1. /\ c = ghost.call /\ s \in States /\ Core(c, s) /\ Shape(s)
        /\ Local(c, s, db, committed, count, ghost) /\ Holds(c, s, task, open)
        /\ db \in Snapshots
    BY <1>1, Now
  <2>2. s.todo # <<>> /\ s.job = "tx"
    BY <1>1, <2>1 DEF Shape, HasWrite
  <2>3. c \in task /\ open
    BY <1>1, <2>1, <2>2 DEF Holds, Opened
  <2>4. /\ w.table \in Tables /\ count[w.table] # NoTable /\ w = Head(s.todo)
        /\ w.items \in Seq(Calls)
    <3>1. Head(s.todo) = s.todo[1] /\ 1 \in 1..Len(s.todo)
      <4>1. s.todo \in Seq(WriteSet)
        BY <2>1 DEF States
      <4> QED
        BY <2>2, <4>1
    <3>2. Head(s.todo).table \in Tables /\ Head(s.todo).items \in Seq(Calls)
      BY <2>1, <2>2, StatesAreTyped
    <3> QED
      BY <2>1, <3>1, <3>2 DEF Local, Fits, Current
  <2>5. id \in Nat /\ \A i \in DOMAIN db[w.table] : i < id
    <3>1. DOMAIN db[w.table] \in IdSets
      BY <2>1, <2>4, RowSetIs DEF Snapshots
    <3>2. \A D \in IdSets : /\ Max({0} \cup D) \in Nat
                            /\ \A y \in D : y < Max({0} \cup D) + 1
      BY MaxIsIn
    <3> QED
      BY <3>1, <3>2
  <2>6. PICK r : r = [s EXCEPT !.id = id, !.left = w.items]
    OBVIOUS
  <2> HIDE DEF id
  <2>7. /\ r \in States /\ r.todo = s.todo /\ r.restoring = s.restoring /\ r.outer = s.outer
        /\ r.job = "tx" /\ r.id = id /\ r.left = w.items
    BY <2>1, <2>2, <2>4, <2>5, <2>6 DEF States
  <2>8. (~ open' => db' = committed') /\ Kept' /\ View' = View
    BY <1>1, Still
  <2>9. CASE w.items = <<>>
    <3>1. PICK u : u = AfterRows(c, r)
      OBVIOUS
    <3>2. ASSUME NEW v, Toward(s, v, db, count) PROVE Shown(db, count) = v
      <4>1. Shown(db, count) \in Values /\ Shown(db, count)[w.table] \in Seq(Calls)
        BY <2>1, <2>4, ShownIs
      <4>2. Added(Shown(db, count), w.table, <<>>) = Shown(db, count)
        BY <2>4, <4>1, AddedNothing
      <4> QED
        BY <1>1, <2>4, <2>9, <3>2, <4>2 DEF Toward
    <3>3. /\ Local(c, u, db, committed, count, ghost)
          /\ u.pc \in {"commit", "enter", "publish"}
      <4>1. \A v : ~ s.restoring /\ Toward(s, v, db, count) => Shown(db, count) = v
        BY <3>2
      <4>2. s.pc \in {"select", "insert"} /\ s.job = "tx"
        BY <1>1, <2>2
      <4> QED
        BY <2>1, <2>3, <2>7, <3>1, <4>1, <4>2, RowsComplete
    <3>4. Holds(c, u, task, open)
      BY <2>3 DEF Holds
    <3>5. Goto(c, u)
      BY <1>3, <2>6, <2>9, <3>1
    <3> QED
      BY <1>1, <2>1, <2>8, <3>3, <3>4, <3>5, Advances DEF NoExec
  <2>10. CASE w.items # <<>>
    <3>1. PICK u : u = [r EXCEPT !.pc = "insert"]
      OBVIOUS
    <3>2. /\ u.todo = s.todo /\ u.restoring = s.restoring /\ u.outer = s.outer
          /\ u.job = "tx" /\ u.id = id /\ u.left = w.items /\ u.pc = "insert"
      BY <2>7, <3>1 DEF States
    <3>3. ASSUME NEW v, Toward(s, v, db, count) PROVE Toward(u, v, db, count)
      BY <1>1, <2>2, <2>4, <2>5, <3>2, <3>3 DEF Toward
    <3>4. Local(c, u, db, committed, count, ghost)
      BY <1>1, <2>1, <2>2, <3>2, <3>3, Continues DEF Flipped
    <3>5. Holds(c, u, task, open)
      BY <2>3 DEF Holds
    <3>6. Goto(c, u)
      BY <1>3, <2>6, <2>10, <3>1
    <3> QED
      BY <1>1, <2>1, <2>8, <3>2, <3>4, <3>5, <3>6, Advances DEF NoExec
  <2> QED
    BY <2>9, <2>10
<1> QED
  BY <1>2, <1>3 DEF SelectNextId

LEMMA InsertRowGoes ==
  ASSUME IInv, RInv, NEW c \in Calls, InsertRow(c)
  PROVE  RInv' /\ Goes
<1> DEFINE s == st[c]
           t == Current(c).table
           x == Head(s.left)
           g == Inserted(db[t], s.id, x)
           r == [s EXCEPT !.id = @ + 1, !.left = Tail(@)]
<1>1. /\ s.pc = "insert" /\ Active(c)
      /\ UNCHANGED <<open, depth, task, chain, count, scope, ghost>>
  BY DEF InsertRow, Active, Done
<1>2. CASE NoExec /\ Goto(c, Raise(c, s))
  BY <1>1, <1>2, RaiseGoes
<1>3. CASE /\ Exec([db EXCEPT ![t] = g])
           /\ Goto(c, IF r.left = <<>> THEN AfterRows(c, r) ELSE r)
  <2>1. /\ c = ghost.call /\ s \in States /\ Core(c, s) /\ Shape(s)
        /\ Local(c, s, db, committed, count, ghost) /\ Holds(c, s, task, open)
        /\ db \in Snapshots
    BY <1>1, Now
  <2>2. s.todo # <<>> /\ s.job = "tx" /\ s.left # <<>>
    BY <1>1, <2>1 DEF Shape, HasWrite
  <2>3. c \in task /\ open
    BY <1>1, <2>1, <2>2 DEF Holds, Opened
  <2>4. t \in Tables /\ count[t] # NoTable /\ t = Head(s.todo).table
    <3>1. Head(s.todo) = s.todo[1] /\ 1 \in 1..Len(s.todo)
      <4>1. s.todo \in Seq(WriteSet)
        BY <2>1 DEF States
      <4> QED
        BY <2>2, <4>1
    <3>2. Head(s.todo).table \in Tables
      BY <2>1, <2>2, StatesAreTyped
    <3> QED
      BY <2>1, <3>1, <3>2 DEF Local, Fits, Current
  <2>5. /\ s.id \in Nat /\ s.left \in Seq(Calls) /\ x \in Calls /\ Tail(s.left) \in Seq(Calls)
    BY <2>1, <2>2 DEF States
  <2>6. PICK q, d : q = r /\ d = [db EXCEPT ![t] = g]
    OBVIOUS
  <2>7. /\ q \in States /\ q.todo = s.todo /\ q.restoring = s.restoring /\ q.outer = s.outer
        /\ q.job = "tx" /\ q.id = s.id + 1 /\ q.left = Tail(s.left) /\ q.pc = "insert"
    <3>1. q = [s EXCEPT !.id = s.id + 1, !.left = Tail(s.left)] /\ s.id + 1 \in Nat
      BY <2>5, <2>6
    <3> HIDE DEF r
    <3> QED
      BY <1>1, <2>1, <2>2, <2>5, <3>1 DEF States
  <2>8. db' = d /\ committed' = committed
    BY <1>3, <2>3, <2>6 DEF Exec
  <2>9. ASSUME NEW v, Toward(s, v, db, count)
        PROVE  /\ Added(Shown(d, count), t, Tail(s.left)) = v
               /\ Shown(d, count)[t] \in Seq(Calls) /\ Shown(d, count) \in Values
               /\ \A i \in DOMAIN d[t] : i < s.id + 1
    <3>1. Shown(db, count) \in Values /\ Shown(db, count)[t] \in Seq(Calls)
      BY <2>1, <2>4, ShownIs
    <3>2. Added(Shown(db, count), t, s.left) = v /\ \A i \in DOMAIN db[t] : i < s.id
      BY <1>1, <2>4, <2>9 DEF Toward
    <3>3. d[t] = g
      BY <2>1, <2>4, <2>6 DEF Snapshots
    <3> HIDE DEF x, t
    <3>4. Shown(d, count) = Grown(Shown(db, count), t, x)
      BY <2>1, <2>4, <2>5, <2>6, <3>2, ShownInserted
    <3>5. Added(Shown(d, count), t, Tail(s.left)) = v
      BY <2>2, <2>4, <2>5, <3>1, <3>2, <3>4, AddedOne DEF x
    <3>6. Shown(d, count)[t] \in Seq(Calls) /\ Shown(d, count) \in Values
      <4>1. Append(Shown(db, count)[t], x) \in Seq(Calls)
        BY <2>5, <3>1
      <4> QED
        BY <2>4, <3>1, <3>4, <4>1 DEF Values, Grown
    <3>7. \A i \in DOMAIN d[t] : i < s.id + 1
      <4>1. DOMAIN d[t] = DOMAIN db[t] \cup {s.id}
        BY <3>3 DEF Inserted
      <4>2. \A i \in DOMAIN db[t] : i \in Nat
        <5>1. DOMAIN db[t] \in IdSets
          BY <2>1, <2>4, RowSetIs DEF Snapshots
        <5> QED
          BY <5>1 DEF IdSets
      <4> QED
        BY <2>5, <3>2, <4>1, <4>2
    <3> QED
      BY <3>5, <3>6, <3>7
  <2>10. View' = View /\ Kept'
    BY <1>1, <2>8 DEF View, RInv, Kept
  <2>11. CASE q.left = <<>>
    <3>1. PICK u : u = AfterRows(c, q)
      OBVIOUS
    <3>2. ASSUME NEW v, Toward(s, v, db, count) PROVE Shown(d, count) = v
      <4>1. /\ Added(Shown(d, count), t, <<>>) = v
            /\ Shown(d, count)[t] \in Seq(Calls) /\ Shown(d, count) \in Values
        BY <2>7, <2>9, <2>11, <3>2
      <4> QED
        BY <2>4, <4>1, AddedNothing
    <3>3. /\ Local(c, u, d, committed, count, ghost)
          /\ u.pc \in {"commit", "enter", "publish"}
      <4>1. \A v : ~ s.restoring /\ Toward(s, v, db, count) => Shown(d, count) = v
        BY <3>2
      <4>2. s.pc \in {"select", "insert"} /\ s.job = "tx"
        BY <1>1, <2>2
      <4> QED
        BY <2>1, <2>3, <2>7, <3>1, <4>1, <4>2, RowsComplete
    <3>4. Holds(c, u, task, open)
      BY <2>3 DEF Holds
    <3>5. Goto(c, u)
      BY <1>3, <2>6, <2>11, <3>1
    <3> QED
      BY <1>1, <2>1, <2>3, <2>8, <2>10, <3>3, <3>4, <3>5, Advances
  <2>12. CASE q.left # <<>>
    <3>1. ASSUME NEW v, Toward(s, v, db, count) PROVE Toward(q, v, d, count)
      <4>1. /\ Added(Shown(d, count), t, Tail(s.left)) = v
            /\ \A i \in DOMAIN d[t] : i < s.id + 1
        BY <2>9, <3>1
      <4> QED
        BY <2>4, <2>7, <4>1 DEF Toward
    <3>2. Local(c, q, d, committed, count, ghost)
      BY <1>1, <2>1, <2>2, <2>7, <3>1, Continues DEF Flipped
    <3>3. Holds(c, q, task, open)
      BY <2>3 DEF Holds
    <3>4. Goto(c, q)
      BY <1>3, <2>6, <2>12
    <3> QED
      BY <1>1, <2>1, <2>3, <2>7, <2>8, <2>10, <3>2, <3>3, <3>4, Advances
  <2> QED
    BY <2>11, <2>12
<1> QED
  BY <1>2, <1>3 DEF InsertRow, Inserted

LEMMA CommitGoes ==
  ASSUME IInv, RInv, NEW c \in Calls, Commit(c)
  PROVE  RInv' /\ Goes
<1> DEFINE s == st[c]
<1>1. /\ s.pc = "commit" /\ Active(c)
      /\ UNCHANGED <<db, depth, task, chain, count, scope, ghost>>
  BY DEF Commit, Active, Done
<1>2. /\ c = ghost.call /\ s \in States /\ Core(c, s) /\ Shape(s)
      /\ Local(c, s, db, committed, count, ghost) /\ Holds(c, s, task, open)
  BY <1>1, Now
<1>3. c \in task /\ (InOwn(s) \/ InReplay(s))
  BY <1>1, WhereIs
<1>4. /\ ~ s.restoring /\ s.job \in {"tx", "count"} /\ (~ s.outer => s.job = "tx")
      /\ (~ s.outer <=> ~ Replay(c))
  BY <1>1, <1>2, <1>3 DEF Local, Fits, InOwn, InReplay, Core
<1>5. CASE /\ committed' = db /\ open' = FALSE
           /\ Goto(c, [s EXCEPT !.pc = "ended"])
  <2>1. PICK u : u = [s EXCEPT !.pc = "ended"]
    OBVIOUS
  <2>2. /\ u.todo = s.todo /\ u.restoring = s.restoring /\ u.outer = s.outer /\ u.job = s.job
        /\ u.pc = "ended"
    BY <1>2, <2>1 DEF States
  <2>3. Fits(c, u, count, ghost)
    BY <1>1, <1>2, <1>4, <2>2 DEF Local, Fits
  <2>4. Way(c, u, db, count, ghost) /\ Shown(db, count) = ghost.to
    <3>1. CASE Replay(c)
      <4>1. PICK f : IsPath(f, c, ghost) /\ OnPath(f, c, s, db, count)
        BY <1>2, <1>4, <3>1 DEF Local, Way
      <4>2. OnPath(f, c, u, db, count)
        BY <2>2, <4>1 DEF OnPath, Toward
      <4>3. Shown(db, count) = ghost.to
        BY <1>1, <4>1 DEF OnPath, IsPath
      <4> QED
        BY <3>1, <4>1, <4>2, <4>3 DEF Way
    <3>2. CASE ~ Replay(c)
      BY <1>1, <1>2, <1>4, <2>2, <3>2 DEF Local, Way, Toward
    <3> QED
      BY <3>1, <3>2
  <2>5. Local(c, u, db, db, count, ghost)
    BY <1>2, <2>2, <2>3, <2>4 DEF Local, Flipped
  <2>6. Holds(c, u, task', open')
    BY <2>2 DEF Holds, Opened
  <2>7. Kept'
    BY <1>1 DEF RInv, Kept
  <2> QED
    BY <1>1, <1>2, <1>5, <2>1, <2>2, <2>5, <2>6, <2>7, Advances
<1>6. CASE /\ UNCHANGED <<committed, open>>
           /\ Goto(c, [s EXCEPT !.pc = "rollback"])
  <2>1. PICK u : u = [s EXCEPT !.pc = "rollback"]
    OBVIOUS
  <2>2. /\ u.todo = s.todo /\ u.restoring = s.restoring /\ u.outer = s.outer /\ u.job = s.job
        /\ u.pc = "rollback"
    BY <1>2, <2>1 DEF States
  <2>3. Local(c, u, db, committed, count, ghost)
    BY <1>1, <1>2, <1>4, <2>2, Continues DEF Flipped, Toward
  <2>4. Holds(c, u, task, open)
    BY <1>1, <1>2, <2>2 DEF Holds, Opened
  <2>5. NoExec /\ UNCHANGED <<scope, open, count>>
    BY <1>1, <1>6 DEF NoExec
  <2>6. (~ open' => db' = committed') /\ Kept' /\ View' = View
    BY <2>5, Still
  <2> QED
    BY <1>1, <1>2, <1>6, <2>1, <2>2, <2>3, <2>4, <2>6, Advances
<1> QED
  BY <1>5, <1>6 DEF Commit

LEMMA RollbackGoes ==
  ASSUME IInv, RInv, NEW c \in Calls, Rollback(c)
  PROVE  RInv' /\ Goes
<1> DEFINE s == st[c]
<1>1. /\ s.pc = "rollback" /\ Active(c) /\ db' = committed /\ open' = FALSE
      /\ Goto(c, [s EXCEPT !.pc = "aborted"])
      /\ UNCHANGED <<committed, depth, task, chain, count, scope, ghost>>
  BY DEF Rollback, Active, Done
<1>2. /\ c = ghost.call /\ s \in States /\ Core(c, s) /\ Shape(s)
      /\ Local(c, s, db, committed, count, ghost) /\ Holds(c, s, task, open)
  BY <1>1, Now
<1>3. c \in task /\ (InOwn(s) \/ InReplay(s))
  BY <1>1, WhereIs
<1>4. s.job \in {"tx", "count"} /\ (~ s.outer => s.job = "tx")
  BY <1>3 DEF InOwn, InReplay
<1>5. PICK u : u = [s EXCEPT !.pc = "aborted"]
  OBVIOUS
<1>6. /\ u.todo = s.todo /\ u.restoring = s.restoring /\ u.outer = s.outer /\ u.job = s.job
      /\ u.pc = "aborted"
  BY <1>2, <1>5 DEF States
<1>7. Local(c, u, committed, committed, count, ghost)
  <2>1. \A v : Toward(u, v, committed, count)
    BY <1>6 DEF Toward
  <2> QED
    BY <1>1, <1>2, <1>4, <1>6, <2>1, Continues DEF Flipped
<1>8. Holds(c, u, task', open')
  BY <1>6 DEF Holds, Opened
<1>9. Kept' /\ View' = View
  BY <1>1 DEF RInv, Kept, View
<1> QED
  BY <1>1, <1>2, <1>5, <1>6, <1>7, <1>8, <1>9, Advances

LEMMA EndTaskGoes ==
  ASSUME IInv, RInv, NEW c \in Calls, EndTask(c)
  PROVE  RInv' /\ Goes
<1> DEFINE s == st[c]
           v == IF s.outer THEN [s EXCEPT !.pc = IF s.pc = "ended" THEN "ok" ELSE "failed",
                                          !.outer = FALSE]
                ELSE IF s.pc = "ended" THEN AfterTransaction(s)
                ELSE Throw(c, s)
<1>1. /\ s.pc \in {"ended", "aborted"} /\ Active(c) /\ NoExec /\ task' = {} /\ Goto(c, v)
      /\ UNCHANGED <<open, count, scope, ghost>>
  BY DEF EndTask, Active, Done
<1>2. /\ c = ghost.call /\ s \in States /\ Core(c, s) /\ Shape(s)
      /\ Local(c, s, db, committed, count, ghost) /\ View = Shown(committed, count)
  BY <1>1, Now
<1>3. InOwn(s) \/ InReplay(s)
  BY <1>1, WhereIs
<1>4. (~ open' => db' = committed') /\ Kept' /\ View' = View
  BY <1>1, Still
<1>5. CASE s.outer
  <2> DEFINE p == IF s.pc = "ended" THEN "ok" ELSE "failed"
  <2>1. PICK u : u = [s EXCEPT !.pc = p, !.outer = FALSE]
    OBVIOUS
  <2>2. p \in {"ok", "failed"} /\ (p = "ok" <=> s.pc = "ended")
    BY DEF Pcs
  <2> HIDE DEF p
  <2>3. /\ u.todo = s.todo /\ u.restoring = s.restoring /\ ~ u.outer /\ u.job = s.job
        /\ u.pc = p
    BY <1>2, <2>1 DEF States
  <2>4. Goto(c, u)
    BY <1>1, <1>5, <2>1 DEF p
  <2>5. CASE p = "failed"
    BY <1>1, <1>2, <1>4, <2>3, <2>4, <2>5, Advances DEF Over
  <2>6. CASE p = "ok"
    <3>1. s.pc = "ended" /\ s.job \in {"tx", "count"}
      BY <1>3, <2>2, <2>6 DEF InOwn, InReplay
    <3>2. View = ghost.to
      BY <1>2, <3>1 DEF Local, Flipped
    <3>3. Fits(c, u, count, ghost)
      BY <1>2, <2>3, <2>6, <3>1 DEF Local, Fits
    <3>4. Way(c, u, db, count, ghost)
      <4>1. \A w : Toward(u, w, db, count)
        BY <2>3, <2>6 DEF Toward
      <4>2. ASSUME NEW f, OnPath(f, c, s, db, count) PROVE OnPath(f, c, u, db, count)
        BY <2>3, <2>6, <3>1, <4>1, <4>2 DEF OnPath
      <4> QED
        BY <1>2, <2>3, <4>1, <4>2 DEF Local, Way
    <3>5. Local(c, u, db, committed, count, ghost)
      BY <1>2, <2>3, <2>6, <3>2, <3>3, <3>4 DEF Local, Flipped
    <3>6. Holds(c, u, task', open')
      BY <1>1, <2>3, <2>6 DEF Holds
    <3> QED
      BY <1>1, <1>2, <1>4, <2>3, <2>4, <2>6, <3>1, <3>2, <3>5, <3>6, Advances DEF NoExec
  <2> QED
    BY <2>2, <2>5, <2>6
<1>6. CASE ~ s.outer
  <2>1. ~ Replay(c) /\ s.job = "tx"
    BY <1>1, <1>2, <1>3, <1>6 DEF Local, Fits, InOwn, InReplay
  <2>2. CASE s.pc = "ended"
    <3>1. PICK u : u = AfterTransaction(s)
      OBVIOUS
    <3>2. Goto(c, u)
      BY <1>1, <1>6, <2>2, <3>1
    <3>3. /\ u.todo = s.todo /\ u.restoring = s.restoring /\ u.outer = s.outer
          /\ (u.job = "count" /\ u.pc = "enter") \/ (u.job = "tx" /\ u.pc = "publish")
      BY <1>2, <2>1, <3>1 DEF AfterTransaction, States
    <3>4. \A w : Toward(u, w, db, count)
      BY <1>6, <3>3 DEF Toward
    <3>5. Local(c, u, db, committed, count, ghost)
      BY <1>2, <1>6, <2>1, <2>2, <3>3, <3>4, Continues DEF Flipped
    <3>6. Holds(c, u, task', open')
      BY <1>1, <3>3 DEF Holds
    <3> QED
      BY <1>1, <1>2, <1>4, <2>2, <3>2, <3>3, <3>5, <3>6, Advances DEF NoExec
  <2>3. CASE s.pc = "aborted"
    <3>1. PICK u : u = Throw(c, s)
      OBVIOUS
    <3>2. Goto(c, u)
      BY <1>1, <1>6, <2>3, <3>1
    <3>3. u.pc = "failed"
      BY <1>2, <2>1, <3>1 DEF Throw, States
    <3> QED
      BY <1>1, <1>2, <1>4, <2>3, <3>2, <3>3, Advances DEF Over
  <2> QED
    BY <1>1, <2>2, <2>3
<1> QED
  BY <1>5, <1>6

(* A single statement of a call that no transaction is around.             *)
LEMMA Single ==
  ASSUME IInv, RInv, NEW c \in Calls, st[c].pc \in {"read", "count", "purge"}, LeaveChain(c)
  PROVE  /\ Active(c) /\ st[c].job = st[c].pc
         /\ ~ st[c].outer => ~ open /\ db = committed /\ c \notin task' /\ ~ Replay(c)
         /\ st[c].outer => task' = task
<1> DEFINE s == st[c]
<1>1. Active(c)
  BY DEF Active, Done
<1>2. Shape(s) /\ task \subseteq {c} /\ Local(c, s, db, committed, count, ghost)
  BY <1>1, Now
<1>3. s.job = s.pc
  BY <1>2 DEF Shape
<1>4. ASSUME ~ s.outer PROVE ~ open /\ db = committed /\ c \notin task' /\ ~ Replay(c)
  <2>1. ~ Opened(s)
    BY <1>3, <1>4 DEF Opened
  <2>2. ~ open
    BY <1>2, <2>1 DEF IInv, Placed
  <2>3. ~ Replay(c)
    BY <1>2, <1>3, <1>4 DEF Local, Fits
  <2> QED
    BY <1>4, <2>2, <2>3 DEF RInv, LeaveChain
<1> QED
  BY <1>1, <1>3, <1>4 DEF LeaveChain

LEMMA ReadRowsGoes ==
  ASSUME IInv, RInv, NEW c \in Calls, ReadRows(c)
  PROVE  RInv' /\ Goes
<1> DEFINE s == st[c]
           t == scope.target[c]
           w == Write(t, Append(Rows(db[t]), c), TRUE, FALSE, FALSE)
<1>1. /\ s.pc = "read" /\ LeaveChain(c) /\ NoExec
      /\ UNCHANGED <<open, chain, depth, count, scope, ghost>>
  BY DEF ReadRows
<1>2. Active(c) /\ s.job = "read"
  BY <1>1, Single
<1>3. /\ c = ghost.call /\ scope \in Scope /\ s \in States /\ Core(c, s) /\ Shape(s)
      /\ Local(c, s, db, committed, count, ghost)
      /\ db \in Snapshots
  BY <1>2, Now
<1>4. ~ s.outer
  <2>1. c \in task => Inside(s)
    BY DEF IInv, Placed
  <2>2. c \notin task => Outside(s)
    BY DEF IInv, Placed
  <2> QED
    BY <1>1, <2>1, <2>2 DEF Inside, InOwn, InReplay, InSingle, Outside, Over
<1>5. ~ open /\ db = committed /\ c \notin task' /\ ~ Replay(c)
  BY <1>1, <1>4, Single
<1>6. (~ open' => db' = committed') /\ Kept' /\ View' = View
  BY <1>1, Still
<1>7. CASE Goto(c, [s EXCEPT !.pc = "failed"])
  <2>1. PICK u : u = [s EXCEPT !.pc = "failed"]
    OBVIOUS
  <2>2. u.pc = "failed"
    BY <1>3, <2>1 DEF States
  <2> QED
    BY <1>1, <1>2, <1>3, <1>6, <1>7, <2>1, <2>2, Advances DEF Over
<1>8. CASE Goto(c, [s EXCEPT !.pc = "enter", !.job = "tx", !.todo = <<w>>])
  <2>1. PICK u : u = [s EXCEPT !.pc = "enter", !.job = "tx", !.todo = <<w>>]
    OBVIOUS
  <2>2. /\ u.todo = <<w>> /\ u.restoring = s.restoring /\ u.outer = s.outer /\ u.job = "tx"
        /\ u.pc = "enter"
    BY <1>3, <2>1 DEF States
  <2>3. t \in Tables /\ count[t] # NoTable
    BY <1>2, <1>3 DEF Scope, Local, Fits
  <2>4. w.table = t /\ w.over /\ w.items = Append(Rows(db[t]), c) /\ ~ w.ddl
    BY DEF Write
  <2> HIDE DEF w
  <2>5. /\ Len(u.todo) = 1 /\ u.todo[1] = w /\ Head(u.todo) = w /\ Tail(u.todo) = <<>>
    BY <2>2
  <2>6. Fits(c, u, count, ghost)
    <3>1. \A i \in 1..Len(u.todo) : ~ u.todo[i].ddl /\ count[u.todo[i].table] # NoTable
      BY <2>3, <2>4, <2>5
    <3> QED
      BY <1>3, <1>5, <2>2, <2>5, <3>1 DEF Local, Fits
  <2>7. Shown(db, count) = ghost.from
    BY <1>2, <1>3, <1>4, <1>5, <1>1 DEF Local, Flipped
  <2>8. Written(Shown(db, count), w) = ghost.to
    <3>1. ghost.to = [ghost.from EXCEPT ![t] = Append(@, c)] /\ ghost.from \in Values
      BY <1>2, <1>3 DEF Local, Fits
    <3>2. ghost.from[t] = Rows(db[t]) /\ Rows(db[t]) \in Seq(Calls)
      BY <1>3, <2>3, <2>7, ShownIs
    <3>3. \A r \in Seq(Calls) : <<>> \o Append(r, c) = Append(r, c)
      OBVIOUS
    <3>4. <<>> \o w.items = Append(ghost.from[t], c)
      BY <2>4, <3>2, <3>3
    <3>5. Written(ghost.from, w) = [ghost.from EXCEPT ![t] = <<>> \o w.items]
      BY <2>4 DEF Written
    <3> QED
      BY <2>7, <3>1, <3>4, <3>5 DEF Values
  <2>9. Way(c, u, db, count, ghost)
    BY <1>4, <1>5, <2>2, <2>5, <2>8 DEF Way, Toward
  <2>10. Local(c, u, db, committed, count, ghost)
    BY <1>3, <1>4, <1>5, <2>2, <2>6, <2>7, <2>9 DEF Local, Flipped
  <2>11. Holds(c, u, task', open')
    BY <1>5, <2>2 DEF Holds
  <2> QED
    BY <1>1, <1>2, <1>3, <1>6, <1>8, <2>1, <2>2, <2>10, <2>11, Advances DEF NoExec
<1> QED
  BY <1>7, <1>8 DEF ReadRows

LEMMA CountRowsGoes ==
  ASSUME IInv, RInv, NEW c \in Calls, CountRows(c)
  PROVE  RInv' /\ Goes
<1> DEFINE s == st[c]
           n == Cardinality(DOMAIN db[Current(c).table])
<1>1. /\ s.pc = "count" /\ LeaveChain(c) /\ NoExec
      /\ UNCHANGED <<open, chain, depth, count, scope, ghost>>
  BY DEF CountRows
<1>2. Active(c) /\ s.job = "count" /\ (s.outer => task' = task)
  BY <1>1, Single
<1>3. /\ c = ghost.call /\ s \in States /\ Core(c, s) /\ Shape(s)
      /\ Local(c, s, db, committed, count, ghost) /\ Holds(c, s, task, open)
  BY <1>2, Now
<1>4. s.todo # <<>>
  BY <1>1, <1>3 DEF Shape, HasWrite
<1>5. (~ open' => db' = committed') /\ Kept' /\ View' = View
  BY <1>1, Still
<1>6. CASE Goto(c, Throw(c, s))
  BY <1>1, <1>2, <1>4, <1>5, <1>6, ThrowGoes
<1>7. CASE Goto(c, [s EXCEPT !.pc = "publish", !.got = n])
  <2>1. PICK u : u = [s EXCEPT !.pc = "publish", !.got = n]
    OBVIOUS
  <2>2. /\ u.todo = s.todo /\ u.restoring = s.restoring /\ u.outer = s.outer /\ u.job = "count"
        /\ u.pc = "publish"
    BY <1>2, <1>3, <2>1 DEF States
  <2>3. ASSUME NEW v, Toward(s, v, db, count) PROVE Toward(u, v, db, count)
    BY <1>1, <1>2, <2>2, <2>3 DEF Toward
  <2>4. Local(c, u, db, committed, count, ghost)
    BY <1>1, <1>2, <1>3, <2>2, <2>3, Continues DEF Flipped
  <2>5. Holds(c, u, task', open')
    BY <1>1, <1>2, <1>3, <2>2, Single DEF Holds, Opened
  <2> QED
    BY <1>1, <1>2, <1>3, <1>5, <1>7, <2>1, <2>2, <2>4, <2>5, Advances DEF NoExec
<1> QED
  BY <1>6, <1>7 DEF CountRows

(* The next write of a commit, or its COMMIT.                              *)
LEMMA PathGoesOn ==
  ASSUME scope \in Scope, NEW f, NEW c, NEW s \in States, NEW d, NEW k, NEW g,
         IsPath(f, c, g), OnPath(f, c, s, d, k), s.todo # <<>>, s.outer, s.pc = "publish",
         NEW j, Shown(d, j) = Shown(d, k),
         NEW u, u.todo = Tail(s.todo), u.job = "tx", u.outer,
         u.pc = IF u.todo # <<>> THEN "enter" ELSE "commit"
  PROVE  OnPath(f, c, u, d, j)
<1> DEFINE n == Len(scope.ops)
           m == Len(s.todo)
<1>1. n \in Nat
  BY OpTables
<1>2. /\ m \in Nat /\ m > 0 /\ m <= n /\ Len(u.todo) = m - 1
      /\ \A i \in 1..(m - 1) : u.todo[i] = s.todo[i + 1]
      /\ (u.todo # <<>> <=> m - 1 > 0) /\ (u.todo # <<>> => Head(u.todo) = u.todo[1])
  <2>1. s.todo \in Seq(WriteSet)
    BY DEF States
  <2>2. m <= n
    BY DEF OnPath
  <2>3. /\ m \in Nat /\ m > 0 /\ Len(Tail(s.todo)) = m - 1
        /\ \A i \in 1..(m - 1) : Tail(s.todo)[i] = s.todo[i + 1]
        /\ Tail(s.todo) \in Seq(WriteSet)
    BY <2>1
  <2>4. \A q \in Seq(WriteSet) : (q # <<>> <=> Len(q) > 0) /\ (q # <<>> => Head(q) = q[1])
    OBVIOUS
  <2> HIDE DEF m
  <2> QED
    BY <2>2, <2>3, <2>4
<1>3. \A i \in 1..m : s.todo[i] = OpWrite(c, (n - m) + i)
  BY DEF OnPath
<1>4. Shown(d, j) = f[(n - m) + 1]
  BY <1>2 DEF OnPath, Toward
<1> HIDE DEF n, m
<1>5. \A i \in 1..(m - 1) : u.todo[i] = OpWrite(c, (n - (m - 1)) + i)
  <2>1. \A i \in 1..(m - 1) : i + 1 \in 1..m /\ (n - m) + (i + 1) = (n - (m - 1)) + i
    BY <1>1, <1>2
  <2> QED
    BY <1>2, <1>3, <2>1
<1>6. ASSUME m - 1 > 0 PROVE Toward(u, f[(n - (m - 1)) + 1], d, j)
  <2> DEFINE i == (n - (m - 1)) + 1
  <2>1. i \in 1..n /\ i - 1 = (n - m) + 1 /\ 1 \in 1..(m - 1)
    BY <1>1, <1>2, <1>6
  <2>2. f[i] = Written(f[i - 1], OpWrite(c, i))
    BY <2>1 DEF IsPath, n
  <2>3. Head(u.todo) = OpWrite(c, i)
    BY <1>2, <1>5, <1>6, <2>1
  <2>4. Written(Shown(d, j), Head(u.todo)) = f[i]
    BY <1>4, <2>1, <2>2, <2>3
  <2> QED
    BY <1>2, <1>6, <2>4 DEF Toward
<1>7. u.pc = "commit" => Shown(d, j) = f[n]
  <2>1. ~ (m - 1 > 0) => (n - m) + 1 = n
    BY <1>1, <1>2
  <2> QED
    BY <1>2, <1>4, <2>1
<1>8. m - 1 <= n
  BY <1>1, <1>2
<1> QED
  BY <1>2, <1>5, <1>6, <1>7, <1>8 DEF OnPath, n

LEMMA PublishGoes ==
  ASSUME IInv, RInv, NEW c \in Calls, Publish(c)
  PROVE  RInv' /\ Goes
<1> DEFINE s == st[c]
           w == Current(c)
           x == IF w.counted THEN s.got ELSE Len(w.items)
<1>1. /\ s.pc = "publish" /\ Active(c) /\ NoExec /\ count' = [count EXCEPT ![w.table] = x]
      /\ UNCHANGED <<open, depth, task, chain, scope, ghost>>
  BY DEF Publish, Active, Done
<1>2. /\ c = ghost.call /\ scope \in Scope /\ s \in States /\ Core(c, s) /\ Shape(s)
      /\ Local(c, s, db, committed, count, ghost) /\ Holds(c, s, task, open)
      /\ count \in [Tables -> Nat \cup {NoTable}] /\ NoTable \notin Nat
      /\ View = Shown(committed, count)
  BY <1>1, Now
<1>3. s.todo # <<>> /\ s.todo \in Seq(WriteSet)
  BY <1>1, <1>2 DEF Shape, HasWrite, States
<1>4. w.table \in Tables /\ ~ w.ddl /\ count[w.table] # NoTable /\ x \in Nat
  <2>1. w = s.todo[1] /\ 1 \in 1..Len(s.todo)
    BY <1>3 DEF Current
  <2>2. w.table \in Tables /\ w.items \in Seq(Calls)
    BY <1>2, <1>3, StatesAreTyped DEF Current
  <2> QED
    BY <1>2, <2>1, <2>2 DEF Local, Fits, States
<1>5. PICK k : k = count'
  OBVIOUS
<1> HIDE DEF x
<1>6. \A t \in Tables : k[t] = NoTable <=> count[t] = NoTable
  BY <1>1, <1>2, <1>4, <1>5
<1>7. \A e : Shown(e, k) = Shown(e, count)
  BY <1>6, ShownCounted
<1>8. View' = View
  <2>1. View' = Shown(committed', count')
    BY DEF View, Shown
  <2> QED
    BY <1>1, <1>2, <1>5, <1>7, <2>1 DEF NoExec
<1>9. Kept'
  <2>1. scope.existing \subseteq Tables
    BY <1>2 DEF Scope
  <2> QED
    BY <1>1, <1>5, <1>6, <2>1 DEF RInv, Kept
<1>10. ~ open' => db' = committed'
  BY <1>1 DEF RInv, NoExec
<1>11. s.job \notin {"replay", "purge"}
  BY <1>1, <1>2, <1>3 DEF Shape, Local, Fits
<1>12. CASE Goto(c, Throw(c, s))
  <2>1. \A t \in Tables : count[t] # NoTable => count'[t] # NoTable
    BY <1>5, <1>6
  <2> QED
    BY <1>1, <1>3, <1>8, <1>9, <1>10, <1>11, <1>12, <2>1, ThrowGoes
<1>13. CASE Goto(c, NextWrite(s, Tail(s.todo)))
  <2>1. PICK u : u = NextWrite(s, Tail(s.todo))
    OBVIOUS
  <2>2. /\ u.todo = Tail(s.todo) /\ u.job = "tx" /\ u.outer = s.outer
        /\ u.restoring = s.restoring
        /\ u.pc = IF u.todo # <<>> THEN "enter"
                  ELSE IF s.outer THEN IF s.restoring THEN "rollback" ELSE "commit"
                  ELSE IF s.restoring THEN "failed" ELSE "ok"
    BY <1>2, <2>1, NextWriteFields
  <2>3. /\ \A i \in 1..Len(u.todo) : ~ u.todo[i].ddl /\ k[u.todo[i].table] # NoTable
        /\ \A i \in DOMAIN scope.ops : Replay(c) => k[scope.ops[i].table] # NoTable
    <3>1. \A i \in 1..Len(u.todo) : /\ i + 1 \in 1..Len(s.todo) /\ u.todo[i] = s.todo[i + 1]
                                    /\ s.todo[i + 1] \in WriteSet
      BY <1>3, <2>2
    <3>2. \A a \in WriteSet : a.table \in Tables
      BY DEF WriteSet
    <3>3. \A i \in 1..Len(u.todo) :
            /\ ~ u.todo[i].ddl /\ u.todo[i].table \in Tables
            /\ count[u.todo[i].table] # NoTable
      BY <1>2, <3>1, <3>2 DEF Local, Fits
    <3>4. \A i \in DOMAIN scope.ops : /\ scope.ops[i].table \in Tables
                                      /\ Replay(c) => count[scope.ops[i].table] # NoTable
      BY <1>2, OpTables DEF Local, Fits
    <3> QED
      BY <1>6, <3>3, <3>4
  <2>4. CASE ~ s.outer
    <3>1. ~ Replay(c) /\ c \notin task /\ ~ s.restoring
      BY <1>1, <1>2, <1>11, <2>4, WhereIs DEF Local, Fits, InReplay
    <3>2. u.todo = <<>> /\ u.pc = "ok" /\ \A i \in 1..Len(u.todo) : FALSE
      <4>1. Tail(s.todo) = <<>>
        BY <1>2, <1>3, <3>1 DEF Local, Fits
      <4>2. u.todo = <<>> /\ u.pc = "ok"
        BY <2>2, <2>4, <3>1, <4>1
      <4> QED
        BY <4>2
    <3>3. View = ghost.to
      BY <1>1, <1>2, <2>4 DEF Local, Flipped
    <3>4. Fits(c, u, k, ghost)
      BY <1>2, <2>2, <3>1, <3>2 DEF Local, Fits
    <3>5. Way(c, u, db, k, ghost)
      BY <2>2, <2>4, <3>1, <3>2 DEF Way, Toward
    <3>6. Local(c, u, db, committed, k, ghost)
      BY <1>2, <1>7, <3>2, <3>3, <3>4, <3>5 DEF Local, Flipped
    <3>7. Holds(c, u, task', open')
      BY <1>1, <3>1, <3>2 DEF Holds
    <3> QED
      BY <1>1, <1>2, <1>5, <1>8, <1>9, <1>10, <1>13, <2>1, <3>2, <3>3, <3>6, <3>7, Advances
         DEF NoExec
  <2>5. CASE s.outer
    <3>1. Replay(c) /\ u.pc \in {"enter", "rollback", "commit"}
      BY <1>2, <2>2, <2>5 DEF Core
    <3>2. (u.pc = "commit" => ~ u.restoring) /\ ~ Flipped(s) /\ ~ Flipped(u)
      BY <1>1, <1>11, <2>2, <2>5, <3>1 DEF Flipped
    <3>3. Fits(c, u, k, ghost)
      BY <1>2, <2>2, <2>3, <2>5, <3>1, <3>2 DEF Local, Fits
    <3>4. Way(c, u, db, k, ghost)
      <4>1. ASSUME ~ u.restoring, NEW f, IsPath(f, c, ghost), OnPath(f, c, s, db, count)
            PROVE  OnPath(f, c, u, db, k)
        <5>1. u.pc = IF u.todo # <<>> THEN "enter" ELSE "commit"
          BY <2>2, <2>5, <4>1
        <5>2. Shown(db, k) = Shown(db, count)
          BY <1>7
        <5> QED
          BY <1>1, <1>2, <1>3, <2>2, <2>5, <4>1, <5>1, <5>2, PathGoesOn
      <4> QED
        BY <1>2, <2>2, <3>1, <4>1 DEF Local, Way
    <3>5. Local(c, u, db, committed, k, ghost)
      BY <1>2, <1>7, <3>2, <3>3, <3>4 DEF Local
    <3>6. Holds(c, u, task', open')
      BY <1>1, <1>2, <2>5, <3>1 DEF Holds, Opened
    <3> QED
      BY <1>1, <1>2, <1>5, <1>8, <1>9, <1>10, <1>13, <2>1, <3>1, <3>5, <3>6, Advances
         DEF NoExec
  <2> QED
    BY <2>4, <2>5
<1> QED
  BY <1>4, <1>12, <1>13 DEF Publish

LEMMA UndoCreateGoes ==
  ASSUME IInv, RInv, NEW c \in Calls, UndoCreate(c)
  PROVE  RInv' /\ Goes
<1>1. st[c].pc = "undo" /\ Active(c)
  BY DEF UndoCreate, Active, Done
<1>2. Local(c, st[c], db, committed, count, ghost)
  BY <1>1, Now
<1> QED
  BY <1>1, <1>2 DEF Local, Fits

LEMMA DropMetaGoes ==
  ASSUME IInv, RInv, NEW c \in Calls, DropMeta(c)
  PROVE  RInv' /\ Goes
<1> DEFINE s == st[c]
           t == scope.target[c]
<1>1. /\ s.pc = "dropMeta" /\ Active(c) /\ NoExec
      /\ UNCHANGED <<open, depth, task, chain, scope, ghost>>
  BY DEF DropMeta, Active, Done
<1>2. /\ c = ghost.call /\ scope \in Scope /\ s \in States /\ Core(c, s) /\ Shape(s)
      /\ Local(c, s, db, committed, count, ghost)
      /\ count \in [Tables -> Nat \cup {NoTable}]
      /\ View = Shown(committed, count)
  BY <1>1, Now
<1>3. ~ s.outer /\ c \notin task
  BY <1>1, WhereIs
<1>4. CASE count' = count /\ Goto(c, [s EXCEPT !.pc = "failed"])
  <2>1. PICK u : u = [s EXCEPT !.pc = "failed"]
    OBVIOUS
  <2>2. u.pc = "failed"
    BY <1>2, <2>1 DEF States
  <2>3. (~ open' => db' = committed') /\ Kept' /\ View' = View
    BY <1>1, <1>4, Still
  <2> QED
    BY <1>1, <1>2, <1>4, <2>1, <2>2, <2>3, Advances DEF Over
<1>5. CASE /\ count' = [count EXCEPT ![t] = NoTable]
           /\ Goto(c, [s EXCEPT !.pc = "enter", !.job = "purge"])
  <2>1. PICK u, k : u = [s EXCEPT !.pc = "enter", !.job = "purge"] /\ k = count'
    OBVIOUS
  <2>2. /\ u.todo = s.todo /\ u.restoring = s.restoring /\ u.outer = s.outer /\ u.job = "purge"
        /\ u.pc = "enter"
    BY <1>2, <2>1 DEF States
  <2>3. t \in Tables /\ k[t] = NoTable /\ \A a \in Tables : a # t => k[a] = count[a]
    BY <1>2, <1>5, <2>1 DEF Scope
  <2>4. /\ scope.kind[c] = "drop" /\ c \in scope.calls /\ s.todo = <<>>
        /\ ghost.to = [ghost.from EXCEPT ![t] = NoTable]
        /\ ghost.from \in Values /\ ghost.to \in Values
    BY <1>1, <1>2 DEF Local, Fits
  <2>5. ~ Replay(c)
    BY <2>4 DEF Replay
  <2>6. Fits(c, u, k, ghost)
    <3>1. \A i \in 1..Len(u.todo) : FALSE
      BY <2>2, <2>4
    <3> QED
      BY <1>2, <2>2, <2>3, <2>4, <2>5, <3>1 DEF Local, Fits
  <2>7. Shown(committed, k) = ghost.to
    <3>1. Shown(committed, k) = [Shown(committed, count) EXCEPT ![t] = NoTable]
      BY <2>3 DEF Shown
    <3>2. Shown(committed, count) \in {ghost.from, ghost.to}
      BY <1>2 DEF Local
    <3> QED
      BY <2>3, <2>4, <3>1, <3>2 DEF Values
  <2>8. Local(c, u, db, committed, k, ghost)
    BY <1>3, <2>2, <2>4, <2>5, <2>6, <2>7 DEF Local, Way, Toward, Flipped
  <2>9. Holds(c, u, task', open')
    BY <1>1, <1>3, <2>2 DEF Holds
  <2>10. Kept'
    <3>1. scope.existing \subseteq Tables
      BY <1>2 DEF Scope
    <3> QED
      BY <1>1, <2>1, <2>3, <2>4, <3>1 DEF RInv, Kept
  <2>11. ~ open' => db' = committed'
    BY <1>1 DEF RInv, NoExec
  <2> QED
    BY <1>1, <1>2, <1>5, <2>1, <2>2, <2>8, <2>9, <2>10, <2>11, Advances DEF NoExec
<1> QED
  BY <1>4, <1>5 DEF DropMeta

LEMMA PurgeRowsGoes ==
  ASSUME IInv, RInv, NEW c \in Calls, PurgeRows(c)
  PROVE  RInv' /\ Goes
<1> DEFINE s == st[c]
           t == scope.target[c]
<1>1. /\ s.pc = "purge" /\ LeaveChain(c)
      /\ UNCHANGED <<open, chain, depth, count, scope, ghost>>
  BY DEF PurgeRows
<1>2. Active(c) /\ s.job = "purge"
  BY <1>1, Single
<1>3. /\ c = ghost.call /\ scope \in Scope /\ s \in States /\ Core(c, s) /\ Shape(s)
      /\ Local(c, s, db, committed, count, ghost)
      /\ db \in Snapshots /\ View = Shown(committed, count)
  BY <1>2, Now
<1>4. scope.kind[c] = "drop" /\ count[t] = NoTable /\ s.todo = <<>> /\ t \in Tables
  BY <1>2, <1>3 DEF Local, Fits, Scope
<1>5. ~ s.outer /\ ~ open /\ db = committed /\ c \notin task' /\ ~ Replay(c)
  <2>1. ~ s.outer
    BY <1>3, <1>4 DEF Core, Replay
  <2> QED
    BY <1>1, <2>1, Single
<1>6. View = ghost.to
  BY <1>2, <1>3 DEF Local, Flipped
<1>7. CASE NoExec /\ Goto(c, [s EXCEPT !.pc = "failed"])
  <2>1. PICK u : u = [s EXCEPT !.pc = "failed"]
    OBVIOUS
  <2>2. u.pc = "failed"
    BY <1>3, <2>1 DEF States
  <2>3. (~ open' => db' = committed') /\ Kept' /\ View' = View
    BY <1>1, <1>7, Still
  <2> QED
    BY <1>1, <1>2, <1>3, <1>7, <2>1, <2>2, <2>3, Advances DEF Over
<1>8. CASE Exec([db EXCEPT ![t] = <<>>]) /\ Goto(c, [s EXCEPT !.pc = "ok"])
  <2>1. PICK u, d : u = [s EXCEPT !.pc = "ok"] /\ d = [db EXCEPT ![t] = <<>>]
    OBVIOUS
  <2>2. /\ u.todo = s.todo /\ u.restoring = s.restoring /\ u.outer = s.outer /\ u.job = "purge"
        /\ u.pc = "ok"
    BY <1>2, <1>3, <2>1 DEF States
  <2>3. db' = d /\ committed' = d
    BY <1>5, <1>8, <2>1 DEF Exec
  <2>4. Shown(d, count) = ghost.to
    <3>1. Shown(d, count) = Shown(db, count)
      BY <1>3, <1>4, <2>1, ShownHidden
    <3> QED
      BY <1>3, <1>5, <1>6, <3>1
  <2>5. View' = View
    <3>1. View' = Shown(committed', count')
      BY DEF View, Shown
    <3> QED
      BY <1>1, <1>6, <2>3, <2>4, <3>1
  <2>6. Fits(c, u, count, ghost)
    BY <1>2, <1>3, <2>2 DEF Local, Fits
  <2>7. Local(c, u, d, d, count, ghost)
    BY <1>3, <1>5, <2>2, <2>4, <2>6 DEF Local, Way, Toward, Flipped
  <2>8. Holds(c, u, task', open')
    BY <1>5, <2>2 DEF Holds
  <2>9. Kept'
    BY <1>1 DEF RInv, Kept
  <2> QED
    BY <1>1, <1>2, <1>3, <1>6, <1>8, <2>1, <2>2, <2>3, <2>5, <2>7, <2>8, <2>9, Advances
<1> QED
  BY <1>7, <1>8 DEF PurgeRows

LEMMA ReturnGoes ==
  ASSUME IInv, RInv, NEW c \in Calls, Return(c)
  PROVE  RInv' /\ Goes
<1>1. /\ st[c].pc = "ok" /\ Active(c) /\ NoExec /\ Goto(c, [st[c] EXCEPT !.pc = "done"])
      /\ UNCHANGED <<open, depth, task, chain, count, faults, scope, ghost>>
  BY DEF Return, Active, Done
<1>2. c = ghost.call /\ st[c] \in States
  BY <1>1, Now
<1>3. PICK u : u = [st[c] EXCEPT !.pc = "done"]
  OBVIOUS
<1>4. u.pc = "done"
  BY <1>2, <1>3 DEF States
<1>5. (~ open' => db' = committed') /\ Kept' /\ View' = View
  BY <1>1, Still
<1> QED
  BY <1>1, <1>2, <1>3, <1>4, <1>5, Advances DEF Over

LEMMA StepGoes ==
  ASSUME IInv, RInv, ~ scope.beginFails, NEW c \in Calls, Step(c)
  PROVE  RInv' /\ Goes
BY EnterGoes, StartTaskGoes, DeleteRowsGoes, SelectNextIdGoes, InsertRowGoes, CommitGoes,
   RollbackGoes, EndTaskGoes, ReadRowsGoes, CountRowsGoes, PublishGoes, UndoCreateGoes,
   DropMetaGoes, PurgeRowsGoes, ReturnGoes DEF Step

-----------------------------------------------------------------------------
(* A call is made                                                          *)

(* The tables after one operation of a call, and after each of a commit.   *)
Applied(c, v, t, over) == [v EXCEPT ![t] = (IF over \/ @ = NoTable THEN <<>> ELSE @) \o <<c, c>>]

Replayed(c) ==
  CHOOSE h : h = [n \in 0..Len(scope.ops) |->
    IF n = 0 THEN View ELSE Applied(c, h[n - 1], scope.ops[n].table, scope.ops[n].over)]

LEMMA OutcomeIs ==
  ASSUME NEW c
  PROVE  /\ Replay(c) => Outcome(c) = Replayed(c)[Len(scope.ops)]
         /\ scope.kind[c] = "append" => Outcome(c) = Applied(c, View, scope.target[c], FALSE)
         /\ scope.kind[c] = "overwrite" => Outcome(c) = Applied(c, View, scope.target[c], TRUE)
         /\ scope.kind[c] = "modify" /\ View[scope.target[c]] # NoTable =>
              Outcome(c) = [View EXCEPT ![scope.target[c]] = Append(@, c)]
         /\ scope.kind[c] = "drop" => Outcome(c) = [View EXCEPT ![scope.target[c]] = NoTable]
<1>1. Replay(c) => Outcome(c) = Replayed(c)[Len(scope.ops)]
  BY DEF Outcome, Replayed, Applied, Replay
<1>2. scope.kind[c] = "append" => Outcome(c) = Applied(c, View, scope.target[c], FALSE)
  BY DEF Outcome, Applied, Replay
<1>3. scope.kind[c] = "overwrite" => Outcome(c) = Applied(c, View, scope.target[c], TRUE)
  BY DEF Outcome, Applied, Replay
<1>4. scope.kind[c] = "modify" /\ View[scope.target[c]] # NoTable =>
              Outcome(c) = [View EXCEPT ![scope.target[c]] = Append(@, c)]
  BY DEF Outcome, Replay
<1>5. scope.kind[c] = "drop" => Outcome(c) = [View EXCEPT ![scope.target[c]] = NoTable]
  BY DEF Outcome, Replay
<1> QED
  BY <1>1, <1>2, <1>3, <1>4, <1>5

(* A commit has a path: its operations apply to the tables that it finds.  *)
LEMMA ReplayedIsPath ==
  ASSUME scope \in Scope, NEW c \in Calls, View \in Values,
         \A i \in DOMAIN scope.ops : View[scope.ops[i].table] \in Seq(Calls),
         NEW g, g.from = View, g.to = Replayed(c)[Len(scope.ops)]
  PROVE  g.to \in Values /\ \E f : IsPath(f, c, g)
<1> DEFINE n == Len(scope.ops)
           Op(v, i) == Applied(c, v, scope.ops[i].table, scope.ops[i].over)
           Good(v) == v \in Values /\ \A i \in 1..n : v[scope.ops[i].table] \in Seq(Calls)
           Path(h, m) == h = [k \in 0..m |-> IF k = 0 THEN View ELSE Op(h[k - 1], k)]
<1>1. /\ n \in Nat /\ DOMAIN scope.ops = 1..n
      /\ \A i \in 1..n : scope.ops[i].table \in Tables
  BY OpTables
<1>2. ASSUME NEW v, Good(v), NEW i \in 1..n
      PROVE  Good(Op(v, i)) /\ Op(v, i) = Written(v, OpWrite(c, i))
  <2> DEFINE t == scope.ops[i].table
             q == v[t] \o <<c, c>>
             r == IF scope.ops[i].over THEN <<>> \o <<c, c>> ELSE q
  <2>1. t \in Tables /\ v[t] \in Seq(Calls) /\ v \in Values /\ NoTable \notin Seq(Calls)
    BY <1>1, <1>2, SqliteAssumption
  <2>2. r \in Seq(Calls)
    <3>1. <<c, c>> \in Seq(Calls) /\ <<>> \in Seq(Calls)
      OBVIOUS
    <3>2. \A x, y \in Seq(Calls) : x \o y \in Seq(Calls)
      OBVIOUS
    <3> QED
      BY <2>1, <3>1, <3>2
  <2>3. Op(v, i) = [v EXCEPT ![t] = r]
    BY <2>1 DEF Applied, Values
  <2>4. Written(v, OpWrite(c, i)) = [v EXCEPT ![t] = r]
    BY <2>1 DEF Written, OpWrite, Write, Values
  <2> HIDE DEF r
  <2>5. [v EXCEPT ![t] = r] \in Values
    BY <2>1, <2>2 DEF Values
  <2>6. \A a \in Tables : [v EXCEPT ![t] = r][a] = IF a = t THEN r ELSE v[a]
    BY <2>1 DEF Values
  <2>7. \A j \in 1..n : [v EXCEPT ![t] = r][scope.ops[j].table] \in Seq(Calls)
    BY <1>1, <1>2, <2>2, <2>6
  <2> QED
    BY <2>3, <2>4, <2>5, <2>7
<1>3. Good(View)
  BY <1>1
<1> HIDE DEF n, Op, Good
<1>4. \E h : Path(h, n)
  <2> DEFINE G == {m \in 0..n : \E h : Path(h, m)}
  <2>1. 0 \in G
    <3>1. PICK h : h = [k \in 0..0 |-> View]
      OBVIOUS
    <3>2. h = [k \in 0..0 |-> IF k = 0 THEN View ELSE Op(h[k - 1], k)]
      BY <3>1
    <3> QED
      BY <1>1, <3>2
  <2>2. ASSUME NEW m \in 1..n, m - 1 \in G PROVE m \in G
    <3>1. PICK h : Path(h, m - 1)
      BY <2>2
    <3>2. PICK e : e = [k \in 0..m |-> IF k = m THEN Op(h[m - 1], m) ELSE h[k]]
      OBVIOUS
    <3>3. \A k \in 0..m : e[k] = IF k = 0 THEN View ELSE Op(e[k - 1], k)
      <4>1. ASSUME NEW k \in 0..m PROVE e[k] = IF k = 0 THEN View ELSE Op(e[k - 1], k)
        <5>1. CASE k = m
          <6>1. k # 0 /\ m - 1 \in 0..m /\ m - 1 # m
            BY <1>1, <5>1
          <6> QED
            BY <3>2, <5>1, <6>1
        <5>2. CASE k # m
          <6>1. /\ k \in 0..(m - 1) /\ (k # 0 => k - 1 \in 0..m /\ k - 1 # m)
            BY <1>1, <5>2
          <6>2. h[k] = IF k = 0 THEN View ELSE Op(h[k - 1], k)
            BY <3>1, <6>1
          <6>3. e[k] = h[k] /\ (k # 0 => e[k - 1] = h[k - 1])
            BY <3>2, <5>2, <6>1
          <6> QED
            BY <6>2, <6>3
        <5> QED
          BY <5>1, <5>2
      <4> QED
        BY <4>1
    <3>4. Path(e, m)
      <4>1. e = [k \in 0..m |-> e[k]]
        BY <3>2
      <4> QED
        BY <3>3, <4>1
    <3> HIDE DEF Path
    <3> QED
      BY <1>1, <3>4
  <2>3. 0..n \subseteq G
    <3> HIDE DEF G
    <3> QED
      BY <1>1, <2>1, <2>2, UpTo
  <2>4. n \in 0..n
    BY <1>1
  <2> HIDE DEF Path
  <2> QED
    BY <2>3, <2>4
<1>5. PICK f : f = Replayed(c) /\ Path(f, n)
  <2>1. Replayed(c) = CHOOSE h : Path(h, n)
    BY DEF Replayed, n, Op
  <2> HIDE DEF Path
  <2> QED
    BY <1>4, <2>1
<1>6. \A k \in 0..n : f[k] = IF k = 0 THEN View ELSE Op(f[k - 1], k)
  BY <1>5
<1>7. \A k \in 0..n : Good(f[k])
  <2> DEFINE G == {m \in 0..n : Good(f[m])}
  <2>1. 0 \in G
    BY <1>1, <1>3, <1>6
  <2>2. ASSUME NEW m \in 1..n, m - 1 \in G PROVE m \in G
    <3>1. m \in 0..n /\ m # 0
      BY <1>1
    <3> QED
      BY <1>2, <1>6, <2>2, <3>1
  <2>3. 0..n \subseteq G
    <3> HIDE DEF G
    <3> QED
      BY <1>1, <2>1, <2>2, UpTo
  <2> QED
    BY <2>3
<1>8. f \in [0..n -> Values]
  <2>1. \A k \in 0..n : f[k] \in Values
    BY <1>7 DEF Good
  <2>2. f = [k \in 0..n |-> f[k]]
    BY <1>5
  <2> QED
    BY <2>1, <2>2
<1>9. \A i \in 1..n : f[i] = Written(f[i - 1], OpWrite(c, i))
  <2>1. \A i \in 1..n : i \in 0..n /\ i # 0 /\ i - 1 \in 0..n
    BY <1>1
  <2> QED
    BY <1>2, <1>6, <1>7, <2>1
<1>10. f[0] = g.from /\ f[n] = g.to /\ g.to \in Values
  <2>1. 0 \in 0..n /\ n \in 0..n
    BY <1>1
  <2> QED
    BY <1>5, <1>6, <1>8, <2>1 DEF n
<1> QED
  BY <1>8, <1>9, <1>10 DEF IsPath, n

(* A call is made, as a client sees it.                                    *)
Comes ==
  /\ ~ Active(ghost.call) /\ View' = View
  /\ ghost'.from = View /\ st'[ghost'.call].pc \notin {"idle", "ok"}

LEMMA Alone ==
  ASSUME IInv, RInv, ~ scope.overlap, NEW c \in Calls, Arrive(c)
  PROVE  /\ \A e \in Calls : ~ Active(e)
         /\ task = {} /\ ~ open /\ db = committed
<1>1. \A e \in Calls : ~ Active(e)
  BY DEF Arrive
<1>2. \A e \in task : FALSE
  <2>1. \A e \in task : e \in Calls /\ Inside(st[e])
    BY DEF IInv, Placed
  <2>2. \A e \in task : Active(e)
    BY <2>1 DEF Active, Done, Inside, InOwn, InReplay, InSingle
  <2> QED
    BY <1>1, <2>1, <2>2
<1>3. ~ open
  BY <1>2 DEF IInv, Placed
<1> QED
  BY <1>1, <1>2, <1>3 DEF RInv

LEMMA Arrived ==
  ASSUME IInv, RInv, ~ scope.overlap, NEW c \in Calls, Arrive(c), NEW u, Goto(c, u),
         u.pc \notin {"idle", "ok", "delete", "select", "insert"},
         NEW d, NEW m, NEW k, NEW g, d = db', m = committed', k = count', g = ghost',
         Over(u) \/ Local(c, u, d, m, k, g)
  PROVE  RInv' /\ Comes
<1>1. /\ \A e \in Calls : ~ Active(e)
      /\ task = {} /\ ~ open /\ db = committed
  BY Alone
<1>2. /\ NoExec /\ UNCHANGED <<scope, open, task, count>>
      /\ ghost' = [call |-> c, from |-> View, to |-> Outcome(c)]
  BY DEF Arrive
<1>3. (~ open' => db' = committed') /\ Kept' /\ View' = View
  BY <1>2, Still
<1>4. st \in [Calls -> States]
  BY DEF IInv, CallsOK
<1>5. /\ st'[c].pc = u.pc /\ (~ Over(u) => st'[c] = u)
      /\ \A e \in Calls : e # c => st'[e] = st[e]
  BY <1>4 DEF Goto, Over, Idle
<1>6. ghost'.call = c /\ ghost'.from = View
  BY <1>2
<1>7. Comes
  BY <1>1, <1>3, <1>5, <1>6 DEF Comes, RInv
<1>8. \A e \in Calls : e # c => ~ Active(e)'
  BY <1>1, <1>5 DEF Active, Done
<1>9. CASE Over(u)
  <2>1. ~ Active(c)'
    BY <1>5, <1>9 DEF Active, Done, Over
  <2>2. ~ Active(ghost.call)'
    BY <1>6, <2>1 DEF Active, Done
  <2> QED
    BY <1>3, <1>6, <1>7, <1>8, <2>1, <2>2 DEF RInv
<1>10. CASE ~ Over(u)
  <2>1. Local(c, u, db, committed, count, ghost)'
    BY <1>2, <1>10, LocalNext
  <2>2. st'[c] = u
    BY <1>5, <1>10
  <2>3. Holds(c, st[c], task, open)'
    BY <1>1, <1>2, <2>2 DEF Holds
  <2> QED
    BY <1>3, <1>6, <1>7, <1>8, <2>1, <2>2, <2>3 DEF RInv
<1> QED
  BY <1>9, <1>10

(* The tables that the first call of a kind is to leave.                   *)
LEMMA WriteApplies ==
  ASSUME NEW c \in Calls, NEW v \in Values, NEW t \in Tables, v[t] \in Seq(Calls),
         NEW over \in BOOLEAN, NEW w, w = Write(t, <<c, c>>, over, TRUE, FALSE)
  PROVE  Written(v, w) = Applied(c, v, t, over) /\ Applied(c, v, t, over) \in Values
<1> DEFINE r == (IF over THEN <<>> ELSE v[t]) \o <<c, c>>
<1>1. v[t] # NoTable
  BY SqliteAssumption
<1>2. w.table = t /\ w.items = <<c, c>> /\ w.over = over
  BY DEF Write
<1>3. r \in Seq(Calls)
  <2>1. <<c, c>> \in Seq(Calls) /\ <<>> \in Seq(Calls)
    OBVIOUS
  <2>2. \A x, y \in Seq(Calls) : x \o y \in Seq(Calls)
    OBVIOUS
  <2>3. (IF over THEN <<>> ELSE v[t]) \in Seq(Calls)
    BY <2>1
  <2> QED
    BY <2>1, <2>2, <2>3
<1>4. Written(v, w) = [v EXCEPT ![t] = r]
  BY <1>2 DEF Written, Values
<1>5. Applied(c, v, t, over) = [v EXCEPT ![t] = r]
  BY <1>1 DEF Applied, Values
<1> HIDE DEF r
<1> QED
  BY <1>3, <1>4, <1>5 DEF Values

LEMMA ArriveGoes ==
  ASSUME IInv, RInv, Mapped, NEW c \in Calls, Arrive(c)
  PROVE  RInv' /\ Comes
<1> DEFINE t == scope.target[c]
           missing == count[t] = NoTable
           w == Write(t, <<c, c>>, scope.kind[c] = "overwrite", TRUE, FALSE)
           todo == (IF missing THEN CreateWrites(t, <<>>) ELSE <<>>) \o <<w>>
           ops == [i \in DOMAIN scope.ops |->
                     Write(scope.ops[i].table, <<c, c>>, scope.ops[i].over, TRUE, FALSE)]
<1>1. /\ st[c].pc = "idle" /\ c \in scope.calls /\ NoExec /\ ~ scope.overlap
      /\ UNCHANGED <<scope, open, depth, task, chain, count, faults>>
      /\ scope.kind[c] # "create"
  BY DEF Arrive, Mapped, NoneCreated
<1>2. ghost' = [call |-> c, from |-> View, to |-> Outcome(c)]
  BY <1>1 DEF Arrive
<1>3. PICK g, d, k : g = ghost' /\ d = db' /\ k = count'
  OBVIOUS
<1>4. /\ d = db /\ d = committed /\ d = committed' /\ k = count
      /\ g.from = View /\ g.to = Outcome(c)
  BY <1>1, <1>2, <1>3, Alone DEF NoExec
<1>5. scope \in Scope /\ t \in Tables /\ db \in Snapshots
  BY DEF IInv, DataOK, Scope
<1>6. View = Shown(d, k) /\ View \in Values /\ \A a \in Tables :
        /\ k[a] # NoTable => View[a] \in Seq(Calls)
        /\ k[a] = NoTable => View[a] = NoTable
  <2>1. View = Shown(d, k)
    BY <1>4 DEF View, Shown
  <2> QED
    BY <1>4, <1>5, <2>1, ShownIs
<1> HIDE DEF todo, ops
<1>7. CASE /\ scope.kind[c] \in {"append", "overwrite"}
           /\ Goto(c, [Idle EXCEPT !.pc = "enter", !.todo = todo])
  <2>1. PICK u : u = [Idle EXCEPT !.pc = "enter", !.todo = todo]
    OBVIOUS
  <2>2. ~ Replay(c) /\ k[t] # NoTable
    BY <1>1, <1>4, <1>7 DEF Replay, Mapped, NoneCreated, RInv, Kept
  <2>3. todo = <<w>>
    <3>1. \A x : <<>> \o <<x>> = <<x>>
      OBVIOUS
    <3>2. todo = <<>> \o <<w>>
      BY <1>4, <2>2 DEF todo
    <3> HIDE DEF w
    <3> QED
      BY <3>1, <3>2
  <2>4. /\ u.pc = "enter" /\ u.todo = <<w>> /\ u.job = "tx" /\ ~ u.outer /\ ~ u.restoring
    BY <2>1, <2>3 DEF Idle
  <2>5. g.to = Written(View, w) /\ g.to \in Values /\ w.table = t /\ ~ w.ddl
    <3>1. PICK over \in BOOLEAN : over = (scope.kind[c] = "overwrite")
      OBVIOUS
    <3>2. w = Write(t, <<c, c>>, over, TRUE, FALSE)
      BY <3>1
    <3>3. w.table = t /\ ~ w.ddl
      BY DEF Write
    <3> HIDE DEF w
    <3>4. View[t] \in Seq(Calls)
      BY <1>5, <1>6, <2>2
    <3> HIDE DEF t
    <3>5. Written(View, w) = Applied(c, View, t, over) /\ Applied(c, View, t, over) \in Values
      <4>1. PICK v \in Values : v = View
        BY <1>6
      <4>2. Written(v, w) = Applied(c, v, t, over) /\ Applied(c, v, t, over) \in Values
        BY <1>5, <3>2, <3>4, <4>1, WriteApplies
      <4> QED
        BY <4>1, <4>2
    <3>6. Outcome(c) = Applied(c, View, t, over)
      <4>1. CASE scope.kind[c] = "append"
        <5>1. over = FALSE
          BY <3>1, <4>1
        <5>2. Outcome(c) = Applied(c, View, t, FALSE)
          BY <4>1, OutcomeIs DEF t
        <5> QED
          BY <5>1, <5>2
      <4>2. CASE scope.kind[c] = "overwrite"
        <5>1. over = TRUE
          BY <3>1, <4>2
        <5>2. Outcome(c) = Applied(c, View, t, TRUE)
          BY <4>2, OutcomeIs DEF t
        <5> QED
          BY <5>1, <5>2
      <4> QED
        BY <1>7, <4>1, <4>2
    <3> QED
      BY <1>4, <3>3, <3>5, <3>6
  <2> HIDE DEF w
  <2>6. Len(u.todo) = 1 /\ u.todo[1] = w /\ Head(u.todo) = w /\ Tail(u.todo) = <<>>
    BY <2>4
  <2>7. \A i \in 1..Len(u.todo) : ~ u.todo[i].ddl /\ k[u.todo[i].table] # NoTable
    BY <2>2, <2>5, <2>6
  <2>8. Fits(c, u, k, g)
    BY <1>1, <2>2, <2>4, <2>6, <2>7 DEF Fits
  <2>9. Toward(u, g.to, d, k)
    BY <1>6, <2>4, <2>5, <2>6 DEF Toward
  <2>10. Local(c, u, d, d, k, g)
    BY <1>4, <1>6, <2>2, <2>4, <2>5, <2>8, <2>9 DEF Local, Way, Flipped
  <2> QED
    BY <1>1, <1>3, <1>4, <1>7, <2>1, <2>4, <2>10, Arrived
<1>8. CASE scope.kind[c] = "modify" /\ missing /\ Goto(c, [Idle EXCEPT !.pc = "failed"])
  <2>1. PICK u : u = [Idle EXCEPT !.pc = "failed"]
    OBVIOUS
  <2>2. u.pc = "failed"
    BY <2>1 DEF Idle
  <2> QED
    BY <1>1, <1>3, <1>4, <1>8, <2>1, <2>2, Arrived DEF Over
<1>9. CASE /\ scope.kind[c] = "modify" /\ ~ missing
           /\ Goto(c, [Idle EXCEPT !.pc = "enter", !.job = "read"])
  <2>1. PICK u : u = [Idle EXCEPT !.pc = "enter", !.job = "read"]
    OBVIOUS
  <2>2. /\ u.pc = "enter" /\ u.todo = <<>> /\ u.job = "read" /\ ~ u.outer /\ ~ u.restoring
    BY <2>1 DEF Idle
  <2>3. ~ Replay(c) /\ k[t] # NoTable /\ View[t] # NoTable
    BY <1>4, <1>5, <1>6, <1>9, SqliteAssumption DEF Replay
  <2>4. g.to = [View EXCEPT ![t] = Append(@, c)] /\ g.to \in Values
    <3>1. g.to = [View EXCEPT ![t] = Append(@, c)]
      BY <1>4, <1>9, <2>3, OutcomeIs
    <3>2. \A r \in Seq(Calls) : Append(r, c) \in Seq(Calls)
      OBVIOUS
    <3> QED
      BY <1>5, <1>6, <2>3, <3>1, <3>2 DEF Values
  <2>5. \A i \in 1..Len(u.todo) : FALSE
    BY <2>2
  <2>6. Fits(c, u, k, g)
    BY <1>1, <1>4, <2>2, <2>3, <2>4, <2>5 DEF Fits
  <2>7. Local(c, u, d, d, k, g)
    BY <1>4, <1>6, <2>2, <2>3, <2>4, <2>6 DEF Local, Way, Toward, Flipped
  <2> QED
    BY <1>1, <1>3, <1>4, <1>9, <2>1, <2>2, <2>7, Arrived
<1>10. CASE scope.kind[c] = "drop" /\ Goto(c, [Idle EXCEPT !.pc = "dropMeta"])
  <2>1. PICK u : u = [Idle EXCEPT !.pc = "dropMeta"]
    OBVIOUS
  <2>2. /\ u.pc = "dropMeta" /\ u.todo = <<>> /\ u.job = "tx" /\ ~ u.outer /\ ~ u.restoring
    BY <2>1 DEF Idle
  <2>3. ~ Replay(c)
    BY <1>10 DEF Replay
  <2>4. g.to = [View EXCEPT ![t] = NoTable] /\ g.to \in Values
    <3>1. g.to = [View EXCEPT ![t] = NoTable]
      BY <1>4, <1>10, OutcomeIs
    <3> QED
      BY <1>6, <3>1 DEF Values
  <2>5. \A i \in 1..Len(u.todo) : FALSE
    BY <2>2
  <2>6. Fits(c, u, k, g)
    BY <1>1, <1>4, <1>10, <2>2, <2>3, <2>4, <2>5 DEF Fits
  <2>7. Local(c, u, d, d, k, g)
    BY <1>4, <1>6, <2>2, <2>3, <2>4, <2>6 DEF Local, Way, Toward, Flipped
  <2> QED
    BY <1>1, <1>3, <1>4, <1>10, <2>1, <2>2, <2>7, Arrived
<1>11. CASE /\ scope.kind[c] = "commit"
            /\ \A i \in DOMAIN scope.ops : count[scope.ops[i].table] # NoTable
            /\ Goto(c, [Idle EXCEPT !.pc = "enter", !.job = "replay", !.snapshot = db, !.todo = ops])
  <2>1. PICK u : u = [Idle EXCEPT !.pc = "enter", !.job = "replay", !.snapshot = db, !.todo = ops]
    OBVIOUS
  <2>2. /\ u.pc = "enter" /\ u.todo = ops /\ u.job = "replay" /\ ~ u.outer /\ ~ u.restoring
    BY <2>1 DEF Idle
  <2>3. Replay(c)
    BY <1>11 DEF Replay
  <2>4. /\ Len(scope.ops) \in Nat /\ DOMAIN scope.ops = 1..Len(scope.ops)
        /\ \A i \in DOMAIN scope.ops : scope.ops[i].table \in Tables
    BY <1>5, OpTables
  <2>5. Len(ops) = Len(scope.ops) /\ \A i \in 1..Len(ops) : ops[i] = OpWrite(c, i)
    <3>1. DOMAIN ops = 1..Len(scope.ops) /\ \A i \in 1..Len(scope.ops) : ops[i] = OpWrite(c, i)
      BY <2>4 DEF ops, OpWrite
    <3>2. ops \in Seq({OpWrite(c, i) : i \in 1..Len(scope.ops)})
      <4>1. ops = [i \in 1..Len(scope.ops) |-> ops[i]]
        BY <2>4 DEF ops
      <4>2. ops \in [1..Len(scope.ops) -> {OpWrite(c, i) : i \in 1..Len(scope.ops)}]
        BY <3>1, <4>1
      <4> QED
        BY <2>4, <4>2
    <3> QED
      BY <2>4, <3>1, <3>2
  <2>6. \A i \in DOMAIN scope.ops : View[scope.ops[i].table] \in Seq(Calls)
    BY <1>4, <1>6, <1>11, <2>4
  <2>7. PICK f : g.to \in Values /\ IsPath(f, c, g)
    <3>1. g.to = Replayed(c)[Len(scope.ops)]
      BY <1>4, <2>3, OutcomeIs
    <3> QED
      BY <1>4, <1>5, <1>6, <2>6, <3>1, ReplayedIsPath
  <2>8. OnPath(f, c, u, d, k)
    <3>1. Len(scope.ops) <= Len(scope.ops)
          /\ \A i \in 1..Len(scope.ops) : (Len(scope.ops) - Len(scope.ops)) + i = i
      BY <2>4
    <3>2. \A v : Toward(u, v, d, k)
      BY <2>2 DEF Toward
    <3> QED
      BY <2>2, <2>5, <3>1, <3>2 DEF OnPath
  <2>9. Fits(c, u, k, g)
    <3>1. \A i \in 1..Len(u.todo) : ~ u.todo[i].ddl /\ k[u.todo[i].table] # NoTable
      <4>1. \A i : ~ OpWrite(c, i).ddl /\ OpWrite(c, i).table = scope.ops[i].table
        BY DEF OpWrite, Write
      <4>2. \A i \in 1..Len(ops) : i \in DOMAIN scope.ops /\ ops[i] = OpWrite(c, i)
        BY <2>4, <2>5
      <4> QED
        BY <1>4, <1>11, <2>2, <4>1, <4>2
    <3> QED
      BY <1>1, <1>4, <1>11, <2>2, <2>3, <3>1 DEF Fits
  <2>10. Local(c, u, d, d, k, g)
    BY <1>4, <1>6, <2>2, <2>3, <2>7, <2>8, <2>9 DEF Local, Way, Flipped
  <2> QED
    BY <1>1, <1>3, <1>4, <1>11, <2>1, <2>2, <2>10, Arrived
<1>12. \/ /\ scope.kind[c] \in {"append", "overwrite"}
          /\ Goto(c, [Idle EXCEPT !.pc = "enter", !.todo = todo])
       \/ /\ scope.kind[c] = "modify"
          /\ \/ missing /\ Goto(c, [Idle EXCEPT !.pc = "failed"])
             \/ ~ missing /\ Goto(c, [Idle EXCEPT !.pc = "enter", !.job = "read"])
       \/ scope.kind[c] = "drop" /\ Goto(c, [Idle EXCEPT !.pc = "dropMeta"])
       \/ /\ scope.kind[c] = "commit"
          /\ \A i \in DOMAIN scope.ops : count[scope.ops[i].table] # NoTable
          /\ Goto(c, [Idle EXCEPT !.pc = "enter", !.job = "replay", !.snapshot = db, !.todo = ops])
  BY <1>1 DEF Arrive, todo, ops
<1> QED
  BY <1>7, <1>8, <1>9, <1>10, <1>11, <1>12

-----------------------------------------------------------------------------
(* The tables as one atomic value                                          *)

LEMMA ScopeStays ==
  ASSUME [Next]_vars
  PROVE  scope' = scope /\ (Mapped' <=> Mapped)
<1>1. scope' = scope
  <2>1. \A c \in Calls : Arrive(c) => scope' = scope
    BY DEF Arrive
  <2>2. \A c \in Calls : Step(c) => scope' = scope
    BY DEF Step, Enter, StartTask, DeleteRows, SelectNextId, InsertRow, Commit, Rollback,
           EndTask, ReadRows, CountRows, Publish, UndoCreate, DropMeta, PurgeRows, Return
  <2> QED
    BY <2>1, <2>2 DEF Next, vars
<1> QED
  BY <1>1 DEF Mapped, NoneCreated

LEMMA InitRInv ==
  ASSUME Init
  PROVE  RInv /\ ~ Active(ghost.call)
<1>1. ghost.call \in Calls /\ \A c \in Calls : ~ Active(c)
  <2>1. (CHOOSE c \in Calls : TRUE) \in Calls
    BY SqliteAssumption
  <2>2. ghost.call = CHOOSE c \in Calls : TRUE
    BY DEF Init
  <2>3. \A c \in Calls : st[c].pc = "idle"
    BY DEF Init, Idle
  <2> QED
    BY <2>1, <2>2, <2>3 DEF Active
<1>2. db = committed
  BY DEF Init
<1>3. Kept
  <2>1. scope.existing \subseteq Tables /\ 0 # NoTable
    BY SqliteAssumption DEF Init, Scope
  <2> QED
    BY <2>1 DEF Init, Kept
<1> QED
  BY <1>1, <1>2, <1>3 DEF RInv

(* What a step is to a client.                                             *)
LEMMA Moves ==
  ASSUME IInv, RInv, Mapped, [Next]_vars
  PROVE  RInv' /\ (Goes \/ Comes \/ UNCHANGED vars)
<1>1. CASE UNCHANGED vars
  <2>1. PICK d, m, k, g, s : d = db' /\ m = committed' /\ k = count' /\ g = ghost' /\ s = st'
    OBVIOUS
  <2>2. ghost.call \in Calls /\ (\A c \in Calls : Active(c)' => c = ghost.call) /\ Kept'
    BY <1>1 DEF RInv, Active, Done, Kept, vars
  <2>3. ASSUME Active(ghost.call)
        PROVE  /\ Local(ghost.call, st[ghost.call], db, committed, count, ghost)'
               /\ Holds(ghost.call, st[ghost.call], task, open)'
    <3>1. PICK c, u : c = ghost.call /\ u = st[c]
      OBVIOUS
    <3>2. Local(c, u, d, m, k, g) /\ Holds(c, u, task, open)
      BY <1>1, <2>1, <2>3, <3>1 DEF RInv, vars
    <3>3. scope' = scope
      BY <1>1 DEF vars
    <3>4. Local(c, u, db, committed, count, ghost)'
      BY <2>1, <3>2, <3>3, LocalNext
    <3>5. ghost'.call = c /\ st'[c] = u /\ task' = task /\ open' = open
      BY <1>1, <3>1 DEF vars
    <3> QED
      BY <3>2, <3>4, <3>5 DEF Holds
  <2>4. (Active(ghost.call)' <=> Active(ghost.call)) /\ (~ open' => db' = committed') /\ ghost' = ghost
    BY <1>1 DEF Active, Done, RInv, vars
  <2> QED
    BY <1>1, <2>2, <2>3, <2>4 DEF RInv
<1>2. CASE Next
  <2>1. PICK c \in Calls : Arrive(c) \/ Step(c)
    BY <1>2 DEF Next
  <2>2. ~ scope.beginFails
    BY DEF Mapped
  <2> QED
    BY <2>1, <2>2, ArriveGoes, StepGoes
<1> QED
  BY <1>1, <1>2

LEMMA RInvariance == Spec => [](IInv /\ (Mapped => RInv))
<1>1. Init => IInv /\ (Mapped => RInv)
  BY InitOK, InitRInv
<1>2. IInv /\ (Mapped => RInv) /\ [Next]_vars => (IInv /\ (Mapped => RInv))'
  <2> SUFFICES ASSUME IInv, Mapped => RInv, [Next]_vars PROVE IInv' /\ (Mapped => RInv)'
    OBVIOUS
  <2>1. IInv'
    BY NextOK
  <2>2. Mapped' => RInv'
    BY ScopeStays, Moves
  <2> QED
    BY <2>1, <2>2
<1> QED
  BY <1>1, <1>2, PTL DEF Spec

(* The state of AtomicTable that ImplementsAtomicTable maps this one to.   *)
Table == IF Mapped THEN View ELSE NoTables
CallOf ==
  LET running == Mapped /\ Active(ghost.call)
      now == IF running THEN ghost
             ELSE IF Mapped THEN [from |-> View, to |-> View]
             ELSE [from |-> NoTables, to |-> NoTables]
  IN  [status |-> IF running THEN IF st[ghost.call].pc = "ok" THEN "ok" ELSE "running"
                  ELSE "idle",
       from |-> now.from, to |-> now.to]

LEMMA MappedTo ==
  /\ Mapped => Table = View
  /\ Mapped /\ ~ Active(ghost.call) => CallOf = [status |-> "idle", from |-> View, to |-> View]
  /\ Mapped /\ Active(ghost.call) =>
       CallOf = [status |-> IF st[ghost.call].pc = "ok" THEN "ok" ELSE "running",
                 from |-> ghost.from, to |-> ghost.to]
  /\ ~ Mapped => Table = NoTables /\ CallOf = [status |-> "idle", from |-> NoTables, to |-> NoTables]
BY DEF Table, CallOf

LEMMA ViewIs ==
  ASSUME IInv
  PROVE  View \in Values /\ NoTables \in Values /\ View = Shown(committed, count)
<1>1. View = Shown(committed, count)
  BY DEF View, Shown
<1>2. committed \in Snapshots
  BY DEF IInv, DataOK
<1> QED
  BY <1>1, <1>2, ShownIs DEF Values, NoTables

LEMMA AtomicInit ==
  ASSUME Init
  PROVE  Atomic!Init
<1>1. View \in Values /\ NoTables \in Values
  BY InitOK, ViewIs
<1>2. Table \in Values /\ CallOf = [status |-> "idle", from |-> Table, to |-> Table]
  BY <1>1, InitRInv, MappedTo
<1> QED
  BY <1>2 DEF Atomic!Init, Atomic!Idle, Table, CallOf, Values

(* Each kind of step is a step of AtomicTable.                             *)
LEMMA AtomicStep ==
  ASSUME IInv, Mapped => RInv, [Next]_vars
  PROVE  [Atomic!Next]_<<Table, CallOf>>
<1> DEFINE Reports == [status: {"idle", "running", "ok"}, from: Values, to: Values]
           p == st[ghost.call].pc
           q == st'[ghost'.call].pc
<1>1. IInv' /\ (Mapped' <=> Mapped)
  BY NextOK, ScopeStays
<1>2. /\ View \in Values /\ NoTables \in Values /\ View = Shown(committed, count)
      /\ View' \in Values /\ View' = Shown(committed', count')
  <2>1. (IInv => View \in Values /\ View = Shown(committed, count))'
    BY ViewIs, PTL
  <2> QED
    BY <1>1, <2>1, ViewIs DEF Shown
<1>3. /\ Mapped => Table = View
      /\ Mapped /\ ~ Active(ghost.call) => CallOf = [status |-> "idle", from |-> View, to |-> View]
      /\ Mapped /\ Active(ghost.call) =>
           CallOf = [status |-> IF p = "ok" THEN "ok" ELSE "running",
                     from |-> ghost.from, to |-> ghost.to]
      /\ ~ Mapped =>
           Table = NoTables /\ CallOf = [status |-> "idle", from |-> NoTables, to |-> NoTables]
  BY MappedTo
<1>4. /\ Mapped' => Table' = View'
      /\ Mapped' /\ ~ Active(ghost.call)' =>
           CallOf' = [status |-> "idle", from |-> View', to |-> View']
      /\ Mapped' /\ Active(ghost.call)' =>
           CallOf' = [status |-> IF q = "ok" THEN "ok" ELSE "running",
                      from |-> ghost'.from, to |-> ghost'.to]
      /\ ~ Mapped' =>
           Table' = NoTables /\ CallOf' = [status |-> "idle", from |-> NoTables, to |-> NoTables]
  <2>1. (/\ (Mapped => Table = View)
         /\ (Mapped /\ ~ Active(ghost.call) =>
               CallOf = [status |-> "idle", from |-> View, to |-> View])
         /\ (Mapped /\ Active(ghost.call) =>
               CallOf = [status |-> IF st[ghost.call].pc = "ok" THEN "ok" ELSE "running",
                         from |-> ghost.from, to |-> ghost.to])
         /\ (~ Mapped => /\ Table = NoTables
                         /\ CallOf = [status |-> "idle", from |-> NoTables, to |-> NoTables]))'
    BY MappedTo, PTL
  <2>2. NoTables' = NoTables
    BY DEF NoTables
  <2> QED
    BY <2>1, <2>2
<1>5. /\ Atomic!Begin <=> /\ CallOf.status = "idle"
                          /\ CallOf' \in Reports /\ CallOf'.status = "running"
                          /\ CallOf'.from = Table /\ Table' = Table
      /\ Atomic!Flip <=> /\ CallOf.status = "running" /\ Table' \in {CallOf.from, CallOf.to}
                         /\ CallOf' = CallOf
      /\ Atomic!Succeed <=> /\ CallOf.status = "running" /\ Table = CallOf.to
                            /\ CallOf' = [CallOf EXCEPT !.status = "ok"] /\ Table' = Table
      /\ Atomic!End <=> /\ CallOf.status # "idle"
                        /\ CallOf' = [status |-> "idle", from |-> Table, to |-> Table]
                        /\ Table' = Table
  BY DEF Atomic!Begin, Atomic!Flip, Atomic!Succeed, Atomic!End, Atomic!Idle,
         Atomic!CallStates, Table, CallOf, Values
<1> HIDE DEF Table, CallOf
<1>6. (Active(ghost.call)' <=> q \notin {"idle", "done", "failed"})
      /\ (Active(ghost.call) <=> p \notin {"idle", "done", "failed"})
  BY DEF Active, Done
<1> HIDE DEF p, q
<1>7. CASE ~ Mapped
  BY <1>1, <1>3, <1>4, <1>7
<1>8. CASE Mapped
  <2>1. RInv' /\ (Goes \/ Comes \/ UNCHANGED vars)
    BY <1>8, Moves
  <2>2. ASSUME Active(ghost.call)'
        PROVE  /\ ghost'.from \in Values /\ ghost'.to \in Values
               /\ View' \in {ghost'.from, ghost'.to}
    <3>1. Local(ghost.call, st[ghost.call], db, committed, count, ghost)'
      BY <2>1, <2>2 DEF RInv
    <3> QED
      BY <1>2, <3>1 DEF Local
  <2>3. CASE UNCHANGED vars
    <3>1. View' = View /\ ghost' = ghost /\ q = p
      BY <2>3 DEF View, vars, p, q
    <3> QED
      BY <1>1, <1>3, <1>4, <1>6, <1>8, <3>1
  <2>4. CASE Comes
    <3>1. /\ ~ Active(ghost.call) /\ View' = View /\ ghost'.from = View
          /\ q \notin {"idle", "ok"}
      BY <2>4 DEF Comes, q
    <3>2. CASE ~ Active(ghost.call)'
      BY <1>1, <1>3, <1>4, <1>8, <3>1, <3>2
    <3>3. CASE Active(ghost.call)'
      <4>1. CallOf' \in Reports /\ CallOf'.status = "running" /\ CallOf'.from = Table
        BY <1>1, <1>3, <1>4, <1>8, <2>2, <3>1, <3>3
      <4>2. Atomic!Begin
        BY <1>1, <1>3, <1>4, <1>5, <1>8, <3>1, <4>1
      <4> QED
        BY <4>2 DEF Atomic!Next
    <3> QED
      BY <3>2, <3>3
  <2>5. CASE Goes
    <3>1. /\ ghost' = ghost /\ Active(ghost.call)
          /\ p = "ok" => q = "done"
          /\ View' = View \/ q \notin {"idle", "ok", "done", "failed"}
          /\ q = "ok" => View = ghost.to
          /\ q # "idle"
      <4>1. ghost' = ghost
        BY <2>5 DEF Goes
      <4>2. q = st'[ghost.call].pc
        BY <4>1 DEF q
      <4> QED
        BY <2>5, <4>1, <4>2 DEF Goes, p
    <3>2. CASE q \in {"done", "failed"}
      <4>1. Atomic!End
        BY <1>1, <1>3, <1>4, <1>5, <1>6, <1>8, <3>1, <3>2
      <4> QED
        BY <4>1 DEF Atomic!Next
    <3>3. CASE q = "ok"
      <4>1. Active(ghost.call)' /\ p # "ok"
        BY <1>6, <3>1, <3>3
      <4>2. Atomic!Succeed
        BY <1>1, <1>3, <1>4, <1>5, <1>8, <3>1, <3>3, <4>1
      <4> QED
        BY <4>2 DEF Atomic!Next
    <3>4. CASE q \notin {"ok", "done", "failed"}
      <4>1. Active(ghost.call)' /\ p # "ok"
        BY <1>6, <3>1, <3>4
      <4>2. Atomic!Flip
        BY <1>1, <1>3, <1>4, <1>5, <1>8, <2>2, <3>1, <3>4, <4>1
      <4> QED
        BY <4>2 DEF Atomic!Next
    <3> QED
      BY <3>2, <3>3, <3>4
  <2> QED
    BY <2>1, <2>3, <2>4, <2>5
<1> QED
  BY <1>7, <1>8

(* Where calls are made one after the other, no BEGIN fails and no call    *)
(* creates a table, the tables are one atomic value, whatever statements   *)
(* and metadata saves fail: the initial states are initial states of       *)
(* AtomicTable, and every step is a step of AtomicTable or changes nothing *)
(* that a client can see.                                                  *)
THEOREM ImplementsAtomic ==
  Spec => Atomic!Init /\ [][Atomic!Next]_<<Table, CallOf>>
<1>1. Init => Atomic!Init
  BY AtomicInit
<1>2. IInv /\ (Mapped => RInv) /\ [Next]_vars => [Atomic!Next]_<<Table, CallOf>>
  BY AtomicStep
<1> QED
  BY <1>1, <1>2, RInvariance, PTL DEF Spec

LEMMA OutcomeInPlace == RInv => SuccessIsOutcome \/ ~ Mapped
<1> SUFFICES ASSUME RInv, Mapped, st[ghost.call].pc = "ok" PROVE View = ghost.to
  BY DEF SuccessIsOutcome
<1>1. Active(ghost.call)
  BY DEF Active, Done
<1>2. Local(ghost.call, st[ghost.call], db, committed, count, ghost)
  BY <1>1 DEF RInv
<1> QED
  BY <1>2 DEF Local, Flipped, View, Shown

(* In the same behaviours, a call that reports success has had its effect, *)
(* and only that.                                                          *)
THEOREM SuccessHolds == Spec => [](Mapped => SuccessIsOutcome)
BY RInvariance, OutcomeInPlace, PTL
=============================================================================
