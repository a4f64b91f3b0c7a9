---------------------------- MODULE EncryptedStore ----------------------------
(***************************************************************************)
(* The public facade (expo-lite-data-store.ts), EncryptedStorageAdapter    *)
(* and the master keys (utils/crypto.ts) over the file engine.  A table    *)
(* has an encryption policy in its metadata; the facade serializes the     *)
(* calls on a table and checks the policy, an adapter checks it again,     *)
(* obtains the master key, and reads, changes and rewrites a table it      *)
(* encrypts as a whole under a write lock of its own.                      *)
(*                                                                         *)
(* A read or a write of the engine is one step, and so is the end of a     *)
(* transaction: SingleFileStore and Transactions are about those.  A row   *)
(* is a value; an item is what is stored: a row with none, some or all of  *)
(* its fields encrypted, or an envelope of all rows.                       *)
(***************************************************************************)
EXTENDS Naturals, Sequences, SequencesExt, FiniteSets

CONSTANTS
  Tables, Vals, Clients,
  Adapters,   \* EncryptedStorageAdapters: "normal" and "strict" are the facade's
  Scopes,     \* what a behaviour starts from and its clients ask for
  NoTable, NoEntry,
  Cipher      \* what a reader sees of an item nobody decrypted

Surfaces == {"plain"} \cup Adapters
Strict(a) == a = "strict"
Kinds == {"plain", "some", "all", "full", "bare"}
Policy == [kind: Kinds, strict: BOOLEAN]
Plain == [kind |-> "plain", strict |-> FALSE]

(* The security options of a call: those that are given, with their value. *)
(* fields: whether createTable gets a list of fields that is not empty.    *)
Options == UNION {[given -> BOOLEAN] : given \in SUBSET {"encrypted", "full", "auth", "fields"}}
Request == [via: {"facade"} \cup Adapters, table: Tables, opts: Options, rows: Seq(Vals),
            old: Vals, new: Vals,
            do: {"create", "drop", "clear", "migrate", "over", "append", "update", "remove",
                 "bulk", "read", "verify", "begin", "commit", "rollback"}]
Keys == Nat
Item == [prot: {"none", "some", "all", "envelope"}, key: Keys, rows: Seq(Vals)]
Table == [policy: Policy, items: Seq(Item), count: Nat]
Scope == [work: [Clients -> Seq(Request)], tables: [Tables -> Table \cup {NoTable}],
          alias: [{"normal", "strict"} -> Keys], configured: BOOLEAN, resets: Nat, faults: Nat]

ASSUME EncryptedStoreAssumption ==
  /\ {"normal", "strict"} \subseteq Adapters /\ "plain" \notin Adapters
  /\ Scopes \subseteq Scope
  /\ NoTable \notin Table /\ Cipher \notin Vals

VARIABLES
  scope,     \* the scope of this behaviour
  stored,    \* the tables of the engine with their metadata
  tx,        \* the transaction of the engine
  security,  \* activeTransactionSecurity
  alias,     \* the persisted master keys
  generation, resetting,
  getters,   \* getMasterKey calls of adapters that keep their promise
  keyGen,    \* keyGeneration of each adapter
  cacheGen, cache,     \* cacheKeyGeneration and fullTableCache of each adapter
  policyQ, writeQ,     \* tablePolicyLocks and tableWriteLocks: the first holds it
  call,
  hist       \* history: what the tables should hold, discarded keys, counters

keys == <<alias, generation, resetting, getters, keyGen>>
caches == <<cacheGen, cache>>
vars == <<scope, stored, tx, security, keys, caches, policyQ, writeQ, call, hist>>

NoTx == [active |-> FALSE, owner |-> "plain", ops |-> <<>>]
NoCall == [pc |-> "idle", at |-> 0, by |-> "plain", key |-> 0, waits |-> 0, next |-> "",
           meta |-> NoTable, raw |-> <<>>, rows |-> <<>>, made |-> FALSE, dead |-> {},
           used |-> {}, seen |-> NoTable, result |-> "ok"]

-----------------------------------------------------------------------------
(* Security options and policies                                           *)

On(o, name) == name \in DOMAIN o /\ o[name]
Given(o, name) == name \in DOMAIN o

(* normalizeSecurity                                                       *)
Security(o) == IF On(o, "auth") THEN "strict"
               ELSE IF \E name \in {"encrypted", "full", "fields"} : On(o, name) THEN "normal"
               ELSE "plain"

(* The field list a dynamic policy has, by the configured one.             *)
FieldKind == IF scope.configured THEN "some" ELSE "all"

(* getImplicitTablePolicy                                                  *)
ImplicitPolicy(o, a) ==
  [kind |-> IF ~(Strict(a) \/ On(o, "encrypted") \/ On(o, "full")) THEN "plain"
            ELSE IF On(o, "full") THEN "full" ELSE FieldKind,
   strict |-> Strict(a)]

(* getExplicitCreateTablePolicy: a list of fields also asks for encryption.*)
ExplicitPolicy(o, a) ==
  LET p == ImplicitPolicy(IF On(o, "fields") THEN [encrypted |-> TRUE, full |-> On(o, "full")]
                          ELSE o, a)
  IN IF Given(o, "fields") /\ p.kind \in {"some", "all"}
     THEN [p EXCEPT !.kind = IF o["fields"] THEN "some" ELSE "all"] ELSE p

\* Mutant: whole-table encryption is not compared.
WriteFits_NotFull(p, o, a) ==
  /\ Given(o, "encrypted") => (On(o, "full") \/ o["encrypted"]) = (p.kind # "plain")
  /\ On(o, "auth") => Strict(a)
  /\ Given(o, "auth") => o["auth"] = p.strict

(* assertWriteEncryptionPolicy                                             *)
WriteFits(p, o, a) ==
  /\ Given(o, "full") => o["full"] = (p.kind = "full")
  /\ Given(o, "encrypted") => (On(o, "full") \/ o["encrypted"]) = (p.kind # "plain")
  /\ On(o, "auth") => Strict(a)
  /\ Given(o, "auth") => o["auth"] = p.strict

(* assertExistingCreateTablePolicy                                         *)
CreateFits(p, o, a) ==
  /\ WriteFits(p, o, a)
  /\ Given(o, "fields") => p.kind \in IF o["fields"] THEN {"some"} ELSE {"plain", "full", "all"}

(* assertTableAccessPolicy of the adapter                                  *)
Accessible(table, a) == table # NoTable => table.policy.strict = Strict(a)

(* assertTableAccessPolicy of the facade                                   *)
Allowed(table, surface) ==
  table # NoTable => /\ table.policy.kind # "plain" => surface # "plain"
                     /\ table.policy.strict => surface = "strict"

(* How the rows of a table are encrypted: resolveFieldsForWrite and        *)
(* resolveFieldsForRead.  Without a list of its own the table has the      *)
(* configured one, whether it is encrypted or even exists or not.          *)
Protection(meta) ==
  LET kind == IF meta = NoTable THEN "plain" ELSE meta.policy.kind
  IN CASE kind \in {"some", "all"} -> kind
       [] kind = "full" -> "envelope"
       [] kind = "bare" -> FieldKind
       [] kind = "plain" -> IF scope.configured THEN "some" ELSE "none"

NewProtection(o, a) ==
  LET kind == ImplicitPolicy(o, a).kind
  IN IF kind = "plain" THEN "none" ELSE IF kind = "full" THEN "envelope" ELSE kind

Protect(rows, prot, key) ==
  IF prot = "envelope" THEN <<[prot |-> prot, key |-> key, rows |-> rows]>>
  ELSE [i \in DOMAIN rows |->
          [prot |-> prot, key |-> IF prot = "none" THEN 0 ELSE key, rows |-> <<rows[i]>>]]

(* The rows of items, and what a reader gets who does not decrypt.         *)
RowsOf(items) == FlattenSeq([i \in DOMAIN items |-> items[i].rows])
Shown(items) == FlattenSeq([i \in DOMAIN items |->
                              IF items[i].prot = "none" THEN items[i].rows ELSE <<Cipher>>])

Change(rows, q) == [i \in DOMAIN rows |-> IF rows[i] = q.old THEN q.new ELSE rows[i]]
Apply(rows, q) ==
  CASE q.do = "append" -> rows \o q.rows
    [] q.do \in {"over", "create"} -> q.rows
    [] q.do = "clear" -> <<>>
    [] q.do = "update" -> Change(rows, q)
    [] q.do = "remove" -> SelectSeq(rows, LAMBDA v : v # q.old)
    [] q.do = "bulk" -> Change(rows \o q.rows, q)

-----------------------------------------------------------------------------
(* The engine: a transaction queues the writes of its owner                *)

Admitted(a) == tx.active => tx.owner = a

Op(q, mode, items, policy, count) ==
  [q |-> q, mode |-> mode, items |-> items, policy |-> policy, count |-> count]
NoCount == <<>>   \* the engine counts the items itself

Put(table, op) ==
  LET items == IF op.mode = "append" THEN table.items \o op.items ELSE op.items
  IN [table EXCEPT !.items = items,
                   !.count = IF op.count # NoCount THEN op.count[1]
                             ELSE IF op.mode = "append" THEN @ + Len(op.items) ELSE Len(op.items)]

NewTable(policy) == [policy |-> policy, items |-> <<>>, count |-> 0]

(* ensureTableExists: a write creates the table, without a list of fields. *)
Undeclared(policy) == IF policy = NoTable \/ policy = Plain THEN Plain
                      ELSE IF policy.kind = "full" THEN policy ELSE [policy EXCEPT !.kind = "bare"]
Written(tables, op) ==
  [tables EXCEPT ![op.q.table] = Put(IF @ = NoTable THEN NewTable(Undeclared(op.policy)) ELSE @, op)]

(* ensureTransactionTablePolicy: a queued write that carries a policy      *)
(* creates the table, encrypted whatever the policy says.                  *)
Queued(policy) == IF policy.kind = "plain" THEN [policy EXCEPT !.kind = "bare"] ELSE policy
PolicyHolds(tables, op) ==
  op.policy = NoTable \/ tables[op.q.table] = NoTable
    \/ tables[op.q.table].policy = Queued(op.policy)
EnsurePolicy(tables, op) ==
  IF op.policy = NoTable \/ tables[op.q.table] # NoTable THEN tables
  ELSE [tables EXCEPT ![op.q.table] = NewTable(Queued(op.policy))]

(* The commit writes the operations in order; Failed when one cannot be.   *)
Failed == NoTable
Commit(tables) ==
  FoldLeft(LAMBDA acc, op : IF acc = Failed THEN Failed
                            ELSE IF PolicyHolds(acc, op) THEN Written(EnsurePolicy(acc, op), op)
                            ELSE Failed,
           tables, tx.ops)

OpsOn(t) == SelectSeq(tx.ops, LAMBDA op : op.q.table = t)
View(t) ==
  LET base == IF stored[t] = NoTable THEN NewTable(Plain) ELSE stored[t]
  IN FoldLeft(LAMBDA acc, op : Put(acc, op), base, OpsOn(t)).items

(* History: the rows the acknowledged calls left in a table.               *)
Base(rows) == IF rows = NoTable THEN <<>> ELSE rows
Meant(t) == FoldLeft(LAMBDA acc, op : Apply(acc, op.q), Base(hist.rows[t]), OpsOn(t))
Note(t, rows) == hist' = [hist EXCEPT !.rows[t] = rows]

EngineWrite(op) ==
  IF tx.active
  THEN tx' = [tx EXCEPT !.ops = Append(@, op)] /\ UNCHANGED <<stored, hist>>
  ELSE /\ stored' = Written(stored, op)
       /\ Note(op.q.table, Apply(Base(hist.rows[op.q.table]), op.q))
       /\ UNCHANGED tx

(* createTable of the engine: a table that exists is left as it is.        *)
EngineCreate(t, policy) ==
  IF stored[t] # NoTable THEN UNCHANGED <<stored, hist>>
  ELSE stored' = [stored EXCEPT ![t] = NewTable(policy)] /\ Note(t, <<>>)

EngineDrop(t) == stored' = [stored EXCEPT ![t] = NoTable] /\ Note(t, NoTable)
-----------------------------------------------------------------------------
(* Calls                                                                   *)

q(c) == scope.work[c][call[c].at]
By(c) == call[c].by
Tab(c) == q(c).table
Schema(op) == op.do \in {"create", "drop", "migrate"}
Ends(op) == op.do \in {"begin", "commit", "rollback"}
Reads(op) == op.do \in {"read", "verify"}
Rewrites(op) == op.do \in {"update", "remove", "bulk"}

(* What q may add to the table as rows, and whether it is in the facade.   *)
Public(op) == op.via = "facade"
\* Mutant: nobody waits for the call before.
Waits_Never(Q, c, t) == c \in Range(Q[t])

Waits(Q, c, t) == Q[t] # <<>> /\ Q[t][1] = c
Without(Q, c) == [t \in Tables |-> SelectSeq(Q[t], LAMBDA d : d # c)]

Go(c, pc) == call' = [call EXCEPT ![c].pc = pc]

\* Mutant: a call that fails keeps the write lock.
End_KeepingLock(c, result) ==
  /\ writeQ' = IF result = "error" THEN writeQ ELSE Without(writeQ, c)
  /\ call' = [call EXCEPT ![c].result = result,
                          ![c].pc = IF call[c].made /\ result = "error" THEN "cleanup" ELSE "ending"]

(* The call is over; what it holds of the adapter is released.  A failed   *)
(* createTable that has made the table drops it first.                     *)
End(c, result) ==
  /\ writeQ' = Without(writeQ, c)
  /\ call' = [call EXCEPT ![c].result = result,
                          ![c].pc = IF call[c].made /\ result = "error" THEN "cleanup" ELSE "ending"]

-----------------------------------------------------------------------------
(* The facade                                                              *)

(* A call begins; a public one on a table gets in line for it.             *)
Enter(c) ==
  /\ call[c].pc = "idle" /\ call[c].at < Len(scope.work[c])
  /\ LET op == scope.work[c][call[c].at + 1]
     IN /\ call' = [call EXCEPT ![c] = [NoCall EXCEPT !.pc = IF Public(op) THEN "line" ELSE "call",
                                                      !.at = call[c].at + 1, !.dead = hist.dead,
                                                      !.by = IF Public(op) THEN "plain" ELSE op.via]]
        /\ policyQ' = IF Public(op) /\ ~Ends(op)
                      THEN [policyQ EXCEPT ![op.table] = Append(@, c)] ELSE policyQ
  /\ UNCHANGED <<scope, stored, tx, security, keys, caches, writeQ, hist>>

Refuse(c) ==
  /\ End(c, "refused")
  /\ UNCHANGED <<scope, stored, tx, security, keys, caches, policyQ, hist>>

(* resolveStorageAdapter: the surface of the open transaction, or the one  *)
(* the options ask for; beginTransaction always takes the latter.          *)
Surface(op) == IF security = "none" \/ op.do = "begin" THEN Security(op.opts) ELSE security
Conflicts(op) ==
  /\ security # "none" /\ op.do # "begin"
  /\ DOMAIN op.opts # {} /\ Security(op.opts) # security

(* The call has its turn: the adapter is chosen and the policy checked.    *)
Resolve(c) ==
  /\ call[c].pc = "line"
  /\ Ends(q(c)) \/ Waits(policyQ, c, Tab(c))
  /\ LET surface == Surface(q(c))
     IN IF Conflicts(q(c)) \/ (~Ends(q(c)) /\ ~Allowed(stored[Tab(c)], surface))
           \/ (surface = "plain" /\ ~Admitted("plain"))
        THEN Refuse(c)
        ELSE /\ call' = [call EXCEPT ![c].by = surface,
                                     ![c].pc = IF surface # "plain" THEN "call"
                                               ELSE IF Ends(q(c)) THEN "tx" ELSE "plain"]
             /\ UNCHANGED <<scope, stored, tx, security, keys, caches, policyQ, writeQ, hist>>

(* The file engine does an admitted call of the plain surface.             *)
PlainRead(c) ==
  /\ call[c].pc = "plain" /\ Reads(q(c))
  /\ call' = [call EXCEPT ![c].pc = "ending", ![c].rows = Shown(View(Tab(c))),
                          ![c].seen = Meant(Tab(c))]
  /\ UNCHANGED <<scope, stored, tx, security, keys, caches, policyQ, writeQ, hist>>

PlainWrite(c) ==
  /\ call[c].pc = "plain" /\ ~Reads(q(c)) /\ ~Schema(q(c))
  /\ IF ~Admitted("plain") THEN UNCHANGED <<stored, tx, hist>> /\ End(c, "error")
     ELSE LET items == Protect(Apply(RowsOf(View(Tab(c))), q(c)), "none", 0)
          IN /\ EngineWrite(Op(q(c), "overwrite", items, NoTable, NoCount))
             /\ End(c, "ok")
  /\ UNCHANGED <<scope, security, keys, caches, policyQ>>

PlainSchema(c) ==
  /\ call[c].pc = "plain" /\ Schema(q(c))
  /\ IF tx.active THEN UNCHANGED <<stored, hist>> /\ End(c, "error")
     ELSE /\ CASE q(c).do = "create" -> IF stored[Tab(c)] # NoTable THEN UNCHANGED <<stored, hist>>
                    ELSE /\ stored' = [stored EXCEPT ![Tab(c)] =
                                         Put(NewTable(Plain), Op(q(c), "overwrite",
                                             Protect(q(c).rows, "none", 0), NoTable, NoCount))]
                         /\ Note(Tab(c), q(c).rows)
               [] q(c).do = "drop" -> EngineDrop(Tab(c))
               [] q(c).do = "migrate" -> UNCHANGED <<stored, hist>>
          /\ End(c, "ok")
  /\ UNCHANGED <<scope, tx, security, keys, caches, policyQ>>

(* The promise of a public call settles: the next in line has its turn.    *)
(* After a commit or a rollback the surface of the transaction is          *)
(* forgotten, unless it failed and the transaction is still open.          *)
Finish(c) ==
  /\ call[c].pc = "ending"
  /\ policyQ' = Without(policyQ, c)
  /\ security' =
       IF ~Public(q(c)) THEN security
       ELSE IF q(c).do = "begin" /\ call[c].result = "ok" THEN By(c)
       ELSE IF q(c).do \in {"commit", "rollback"} /\ call[c].result # "refused"
                 /\ (call[c].result = "ok" \/ ~tx.active) THEN "none"
       ELSE security
  /\ call' = [call EXCEPT ![c] = [NoCall EXCEPT !.at = call[c].at]]
  /\ UNCHANGED <<scope, stored, tx, keys, caches, writeQ, hist>>

-----------------------------------------------------------------------------
(* The master keys                                                         *)

Empty == [t \in Tables |-> NoEntry]

\* Mutant: the cached tables survive a reset of the keys.
Invalidate_Never(a) == UNCHANGED caches

(* invalidateCachesIfMasterKeyChanged                                      *)
Invalidate(a) ==
  IF cacheGen[a] = generation THEN UNCHANGED caches
  ELSE cacheGen' = [cacheGen EXCEPT ![a] = generation] /\ cache' = [cache EXCEPT ![a] = Empty]

(* The call goes on; for a write lock it gets in line.                     *)
Arrive(c, pc, changed) ==
  /\ call' = [changed EXCEPT ![c].pc = pc]
  /\ writeQ' = IF pc = "turn" THEN [writeQ EXCEPT ![Tab(c)] = Append(@, c)] ELSE writeQ

(* getOrInitKey: callers of one generation share one getMasterKey call of  *)
(* a normal adapter; a strict one authenticates for each.                  *)
Getter(a) == [by |-> a, gen |-> generation, pc |-> "get", key |-> 0]
Waiting(c, g) == call[c].pc = "key" /\ By(c) = g.by /\ call[c].waits = g.gen
Share(a) ==
  IF Strict(a) \/ keyGen[a] = generation THEN UNCHANGED <<keyGen, getters>>
  ELSE keyGen' = [keyGen EXCEPT ![a] = generation] /\ getters' = getters \cup {Getter(a)}

AskKey(c, next) ==
  /\ call' = [call EXCEPT ![c].pc = "key", ![c].waits = generation, ![c].next = next]
  /\ Share(By(c)) /\ Invalidate(By(c))
  /\ UNCHANGED <<alias, generation, resetting>>

(* A key that was read while the keys were reset is not used.              *)
TakeKey(c) ==
  /\ call[c].pc = "key"
  /\ \E g \in getters :
       /\ Waiting(c, g) /\ g.pc = "have"
       /\ IF g.gen = generation
          THEN /\ Arrive(c, call[c].next, [call EXCEPT ![c].key = g.key])
               /\ Invalidate(By(c))
               /\ UNCHANGED <<keyGen, getters>>
          ELSE /\ call' = [call EXCEPT ![c].waits = generation]
               /\ Share(By(c))
               /\ UNCHANGED <<caches, writeQ>>
  /\ UNCHANGED <<scope, stored, tx, security, alias, generation, resetting, policyQ, hist>>

\* Mutant: a new strict key is used and not kept.
TakeStrictKey_Unsaved(c) ==
  /\ call[c].pc = "key" /\ Strict(By(c))
  /\ IF alias["strict"] = 0 /\ alias["normal"] # 0
     THEN End(c, "error") /\ UNCHANGED <<hist, caches>>
     ELSE LET key == IF alias["strict"] # 0 THEN alias["strict"] ELSE hist.made + 1
          IN /\ hist' = [hist EXCEPT !.made = IF alias["strict"] = 0 THEN key ELSE @]
             /\ Arrive(c, call[c].next, [call EXCEPT ![c].key = key])
             /\ Invalidate(By(c))
  /\ UNCHANGED <<scope, stored, tx, security, alias, generation, resetting, getters, keyGen, policyQ>>

(* getMasterKey(true): the strict key is made once, and never beside a     *)
(* normal one; provisionAuthMasterKey lets one caller do so at a time.     *)
TakeStrictKey(c) ==
  /\ call[c].pc = "key" /\ Strict(By(c))
  /\ IF alias["strict"] = 0 /\ alias["normal"] # 0
     THEN End(c, "error") /\ UNCHANGED <<alias, hist, caches>>
     ELSE LET key == IF alias["strict"] # 0 THEN alias["strict"] ELSE hist.made + 1
          IN /\ alias' = [alias EXCEPT !["strict"] = key]
             /\ hist' = [hist EXCEPT !.made = IF alias["strict"] = 0 THEN key ELSE @]
             /\ Arrive(c, call[c].next, [call EXCEPT ![c].key = key])
             /\ Invalidate(By(c))
  /\ UNCHANGED <<scope, stored, tx, security, generation, resetting, getters, keyGen, policyQ>>

(* getMasterKey(false): the alias is read and, if there is none, set.      *)
ReadAlias(g) ==
  /\ g.pc = "get"
  /\ LET new == alias["normal"] = 0
     IN /\ getters' = (getters \ {g}) \cup
             {[g EXCEPT !.pc = IF new THEN "set" ELSE "have",
                        !.key = IF new THEN hist.made + 1 ELSE alias["normal"]]}
        /\ hist' = IF new THEN [hist EXCEPT !.made = @ + 1] ELSE hist
  /\ UNCHANGED <<scope, stored, tx, security, alias, generation, resetting, keyGen, caches,
                 policyQ, writeQ, call>>

SetAlias(g) ==
  /\ g.pc = "set"
  /\ alias' = [alias EXCEPT !["normal"] = g.key]
  /\ getters' = (getters \ {g}) \cup {[g EXCEPT !.pc = "have"]}
  /\ UNCHANGED <<scope, stored, tx, security, generation, resetting, keyGen, caches, policyQ,
                 writeQ, call, hist>>

(* The key store fails: the promise is dropped, all who wait for it fail.  *)
KeyFails(g) ==
  /\ g.pc \in {"get", "set"} /\ hist.faults < scope.faults
  /\ hist' = [hist EXCEPT !.faults = @ + 1]
  /\ getters' = getters \ {g}
  /\ keyGen' = IF keyGen[g.by] = g.gen THEN [keyGen EXCEPT ![g.by] = -1] ELSE keyGen
  /\ call' = [c \in Clients |->
                IF Waiting(c, g)
                THEN [call[c] EXCEPT !.result = "error",
                                     !.pc = IF call[c].made THEN "cleanup" ELSE "ending"]
                ELSE call[c]]
  /\ UNCHANGED <<scope, stored, tx, security, alias, generation, resetting, caches, policyQ,
                 writeQ>>

(* resetMasterKey: the aliases are deleted, one deletion may fail, and the *)
(* generation moves on.                                                    *)
DeleteAliases ==
  /\ ~resetting /\ hist.resets < scope.resets
  /\ \E kept \in SUBSET {"normal", "strict"} :
       /\ kept # {} => Cardinality(kept) = 1 /\ hist.faults < scope.faults
       /\ alias' = [s \in DOMAIN alias |-> IF s \in kept THEN alias[s] ELSE 0]
       /\ hist' = [hist EXCEPT !.resets = @ + 1, !.faults = @ + Cardinality(kept),
                     !.gone = {alias[s] : s \in DOMAIN alias \ kept} \ {0}]
  /\ resetting' = TRUE
  /\ UNCHANGED <<scope, stored, tx, security, generation, getters, keyGen, caches, policyQ,
                 writeQ, call>>

NextGeneration ==
  /\ resetting
  /\ resetting' = FALSE /\ generation' = generation + 1
  /\ hist' = [hist EXCEPT !.dead = @ \cup hist.gone, !.gone = {}]
  /\ UNCHANGED <<scope, stored, tx, security, alias, getters, keyGen, caches, policyQ, writeQ,
                 call>>

-----------------------------------------------------------------------------
(* The encrypted adapter                                                   *)

After(op) == IF op.do = "create" THEN "make" ELSE IF Ends(op) THEN "tx"
             ELSE IF Reads(op) THEN "fetch" ELSE "turn"

(* Calls that need no key authenticate only on a strict adapter.           *)
Authorize(c) ==
  /\ call[c].pc = "call"
  /\ IF ~Admitted(By(c)) THEN End(c, "error") /\ UNCHANGED <<keys, caches>>
     ELSE IF Strict(By(c)) \/ Reads(q(c)) \/ Rewrites(q(c)) \/ q(c).do \in {"over", "append"}
     THEN AskKey(c, After(q(c))) /\ UNCHANGED writeQ
     ELSE Arrive(c, After(q(c)), call) /\ UNCHANGED <<keys, caches>>
  /\ UNCHANGED <<scope, stored, tx, security, policyQ, hist>>

ClearCache(c) == [cache EXCEPT ![By(c)][Tab(c)] = NoEntry]
Readable(c) == Admitted(By(c)) /\ Accessible(stored[Tab(c)], By(c))

(* The write lock is ours.  A table that is cleared, dropped or migrated   *)
(* is so at once; the others go on to read or to write it.                 *)
Turn(c) ==
  /\ call[c].pc = "turn" /\ Waits(writeQ, c, Tab(c))
  /\ q(c).do \notin {"clear", "drop", "migrate"}
  /\ cache' = ClearCache(c)
  /\ Go(c, IF Rewrites(q(c)) THEN "fetch" ELSE "meta")
  /\ UNCHANGED <<scope, stored, tx, security, keys, cacheGen, policyQ, writeQ, hist>>

(* bulkWrite of inserts only is an append: those requests are appends.     *)
TurnAtOnce(c) ==
  /\ call[c].pc = "turn" /\ Waits(writeQ, c, Tab(c))
  /\ q(c).do \in {"clear", "drop", "migrate"}
  /\ IF ~Readable(c) \/ (Schema(q(c)) /\ tx.active)
     THEN /\ UNCHANGED <<stored, tx, hist>> /\ End(c, "error")
          /\ cache' = IF q(c).do = "drop" /\ Readable(c) THEN ClearCache(c) ELSE cache
     ELSE /\ CASE q(c).do = "clear" -> EngineWrite(Op(q(c), "overwrite", <<>>, NoTable, NoCount))
               [] q(c).do = "drop" -> EngineDrop(Tab(c)) /\ UNCHANGED tx
               [] q(c).do = "migrate" -> UNCHANGED <<stored, tx, hist>>
          /\ End(c, "ok")
          /\ cache' = ClearCache(c)
  /\ UNCHANGED <<scope, security, keys, cacheGen, policyQ>>

\* Mutant: the cached rows are used whatever the ciphertext.
Cached_AnySource(c, item) ==
  LET entry == cache[By(c)][Tab(c)] IN IF entry # NoEntry THEN {entry.data} ELSE {}

(* getCachedFullTableData: the entry of exactly this ciphertext, if it has *)
(* not expired or been evicted.                                            *)
Cached(c, item) ==
  LET entry == cache[By(c)][Tab(c)]
  IN IF entry # NoEntry /\ entry.source = item THEN {entry.data} ELSE {}

\* Mutant: the rows of the request are cached, not those of the table.
CacheRows_OfRequest(c, rows, item) ==
  [cache EXCEPT ![By(c)][Tab(c)] =
     [source |-> item, data |-> IF Reads(q(c)) THEN rows ELSE q(c).rows]]

CacheRows(c, rows, item) ==
  [cache EXCEPT ![By(c)][Tab(c)] = [source |-> item, data |-> rows]]

Enveloped(raw) == raw # <<>> /\ raw[1].prot = "envelope"

(* A read has its rows; what is computed from them comes next.             *)
Got(c, rows, changed) ==
  LET next == CASE Rewrites(q(c)) -> "meta" [] q(c).do = "read" -> "ending"
                [] q(c).do = "verify" -> "count"
  IN call' = [changed EXCEPT ![c].pc = next,
                ![c].rows = IF Rewrites(q(c)) THEN Apply(rows, q(c)) ELSE rows]

(* readWithKey up to the decryption.                                       *)
Fetch(c) ==
  /\ call[c].pc = "fetch"
  /\ LET raw == View(Tab(c))
         seen == [call EXCEPT ![c].raw = raw, ![c].meta = stored[Tab(c)],
                              ![c].seen = Meant(Tab(c)),
                              ![c].used = {item.key : item \in Range(raw)}]
     IN IF ~Readable(c) \/ (q(c).do = "verify" /\ stored[Tab(c)] # NoTable
                                               /\ stored[Tab(c)].policy.kind # "full")
        THEN End(c, IF Readable(c) THEN "counted" ELSE "error") /\ UNCHANGED cache
        ELSE /\ \/ raw # <<>> /\ call' = [seen EXCEPT ![c].pc = "open"] /\ UNCHANGED cache
                \/ raw = <<>> /\ Got(c, <<>>, seen) /\ cache' = ClearCache(c)
                \/ /\ Enveloped(raw)
                   /\ \E rows \in Cached(c, raw[1]) : Got(c, rows, seen)
                   /\ UNCHANGED cache
             /\ UNCHANGED writeQ
  /\ UNCHANGED <<scope, stored, tx, security, keys, cacheGen, policyQ, hist>>

(* Decryption fails with another key, and on what is not encrypted.        *)
Decrypts(c, raw) ==
  LET prot == IF Enveloped(raw) THEN "envelope" ELSE Protection(call[c].meta)
  IN prot = "none" \/ \A i \in DOMAIN raw : raw[i].prot = prot /\ raw[i].key = call[c].key
\* Rows of a table without encrypted fields are returned as they are.
Decrypted(c, raw) ==
  IF Enveloped(raw) THEN raw[1].rows
  ELSE IF Protection(call[c].meta) = "none" THEN Shown(raw) ELSE RowsOf(raw)

Open(c) ==
  /\ call[c].pc = "open"
  /\ LET raw == call[c].raw
     IN IF ~Decrypts(c, raw) THEN End(c, "error") /\ UNCHANGED cache
        ELSE /\ Got(c, Decrypted(c, raw), call)
             /\ cache' = IF Enveloped(raw) THEN CacheRows(c, Decrypted(c, raw), raw[1]) ELSE cache
             /\ UNCHANGED writeQ
  /\ UNCHANGED <<scope, stored, tx, security, keys, cacheGen, policyQ, hist>>

(* verifyCount of an encrypted table as a whole repairs the count.         *)
Recount(c) ==
  /\ call[c].pc = "count"
  /\ IF stored[Tab(c)] # NoTable /\ ~tx.active
     THEN stored' = [stored EXCEPT ![Tab(c)].count =
                       IF call[c].meta.count = Len(call[c].rows) THEN @ ELSE Len(call[c].rows)]
     ELSE UNCHANGED stored
  /\ End(c, "ok")
  /\ UNCHANGED <<scope, tx, security, keys, caches, policyQ, hist>>

(* The facade's createTable adds to the options the surface it resolved.   *)
Asked(c) ==
  IF q(c).do = "create" /\ Public(q(c))
  THEN [encrypted |-> TRUE, auth |-> Strict(By(c))] @@ q(c).opts ELSE q(c).opts

(* Initial data are written with the options that bear on encryption.      *)
WriteOptions(c) ==
  LET o == Asked(c)
  IN IF q(c).do = "create" THEN [name \in DOMAIN o \ {"fields"} |-> o[name]] ELSE o

(* The table is there with meta, or is to be created by the queued write.  *)
CheckWrite(c, meta) ==
  IF meta # NoTable /\ ~(Accessible(meta, By(c)) /\ WriteFits(meta.policy, WriteOptions(c), By(c)))
  THEN End(c, "error")
  ELSE /\ call' = [call EXCEPT ![c].meta = meta,
              ![c].pc = IF q(c).do = "append" /\ (On(q(c).opts, "full")
                             \/ (meta # NoTable /\ meta.policy.kind = "full"))
                        THEN "extend" ELSE "seal",
              ![c].rows = IF Rewrites(q(c)) THEN @ ELSE q(c).rows]
       /\ UNCHANGED writeQ

(* getTableMetaForWrite                                                    *)
Meta(c) ==
  /\ call[c].pc = "meta"
  /\ cache' = ClearCache(c)
  /\ IF ~Admitted(By(c)) \/ (On(WriteOptions(c), "auth") /\ ~Strict(By(c)))
     THEN End(c, "error")
     ELSE IF stored[Tab(c)] = NoTable /\ ~tx.active
               /\ ImplicitPolicy(WriteOptions(c), By(c)) # Plain
     THEN Go(c, "implicit") /\ UNCHANGED writeQ
     ELSE CheckWrite(c, stored[Tab(c)])
  /\ UNCHANGED <<scope, stored, tx, security, keys, cacheGen, policyQ, hist>>

CreateImplicitly(c) ==
  /\ call[c].pc = "implicit"
  /\ IF tx.active THEN End(c, "error") /\ UNCHANGED <<stored, hist>>
     ELSE /\ EngineCreate(Tab(c), ImplicitPolicy(WriteOptions(c), By(c)))
          /\ CheckWrite(c, stored'[Tab(c)])
  /\ UNCHANGED <<scope, tx, security, keys, caches, policyQ>>

(* An append to an envelope seals the old rows again with the new ones.    *)
Extend(c) ==
  /\ call[c].pc = "extend"
  /\ LET raw == View(Tab(c))
     IN IF ~Admitted(By(c)) \/ (raw # <<>> /\ ~Enveloped(raw)) THEN End(c, "error")
        ELSE /\ \/ raw = <<>> /\ Go(c, "seal")
                \/ /\ raw # <<>>
                   /\ \E rows \in Cached(c, raw[1])
                            \cup IF raw[1].key = call[c].key THEN {raw[1].rows} ELSE {} :
                        call' = [call EXCEPT ![c].rows = rows \o @, ![c].pc = "seal"]
             /\ UNCHANGED writeQ
  /\ UNCHANGED <<scope, stored, tx, security, keys, caches, policyQ, hist>>

CannotExtend(c) ==
  /\ call[c].pc = "extend"
  /\ LET raw == View(Tab(c)) IN Enveloped(raw) /\ raw[1].key # call[c].key
  /\ End(c, "error")
  /\ UNCHANGED <<scope, stored, tx, security, keys, caches, policyQ, hist>>

(* The rows are encrypted and written, with the policy if the table is     *)
(* still to be created and with their number if they become one envelope.  *)
Sealed(c) ==
  LET o == WriteOptions(c)
      meta == call[c].meta
      prot == IF meta = NoTable THEN NewProtection(o, By(c)) ELSE Protection(meta)
      policy == IF meta = NoTable THEN ImplicitPolicy(o, By(c)) ELSE NoTable
      mode == IF q(c).do = "append" /\ prot # "envelope" THEN "append" ELSE "overwrite"
  IN Op(q(c), mode, Protect(call[c].rows, prot, call[c].key), policy,
        IF prot = "envelope" THEN <<Len(call[c].rows)>> ELSE NoCount)

Seal(c) ==
  /\ call[c].pc = "seal" /\ Admitted(By(c))
  /\ EngineWrite(Sealed(c))
  /\ End(c, "ok")
  /\ cache' = LET items == Sealed(c).items
              IN IF Enveloped(items) THEN CacheRows(c, call[c].rows, items[1]) ELSE cache
  /\ UNCHANGED <<scope, security, keys, cacheGen, policyQ>>

SealFails(c) ==
  /\ call[c].pc = "seal"
  /\ \/ ~Admitted(By(c)) /\ UNCHANGED hist
     \/ hist.faults < scope.faults /\ hist' = [hist EXCEPT !.faults = @ + 1]
  /\ End(c, "error")
  /\ UNCHANGED <<scope, stored, tx, security, keys, caches, policyQ>>

(* createTable: a table that exists must have the policy that is asked for.*)
Make(c) ==
  /\ call[c].pc = "make"
  /\ LET table == stored[Tab(c)]
     IN IF ~Admitted(By(c)) \/ (On(Asked(c), "auth") /\ ~Strict(By(c)))
           \/ (table # NoTable /\ ~(Accessible(table, By(c))
                                    /\ CreateFits(table.policy, Asked(c), By(c))))
        THEN End(c, "error")
        ELSE IF table # NoTable THEN End(c, "ok")
        ELSE Go(c, "makes") /\ UNCHANGED writeQ
  /\ UNCHANGED <<scope, stored, tx, security, keys, caches, policyQ, hist>>

Makes(c) ==
  /\ call[c].pc = "makes"
  /\ IF tx.active THEN End(c, "error") /\ UNCHANGED <<stored, hist>>
     ELSE /\ EngineCreate(Tab(c), ExplicitPolicy(Asked(c), By(c)))
          /\ IF q(c).rows = <<>> THEN End(c, "ok")
             ELSE Arrive(c, IF Strict(By(c)) THEN "turn" ELSE "initial",
                         [call EXCEPT ![c].made = TRUE])
  /\ UNCHANGED <<scope, tx, security, keys, caches, policyQ>>

(* The initial data of a table take the key only now.                      *)
Initial(c) ==
  /\ call[c].pc = "initial"
  /\ IF Admitted(By(c)) THEN AskKey(c, "turn") /\ UNCHANGED writeQ
     ELSE End(c, "error") /\ UNCHANGED <<keys, caches>>
  /\ UNCHANGED <<scope, stored, tx, security, policyQ, hist>>

Cleanup(c) ==
  /\ call[c].pc = "cleanup"
  /\ IF tx.active THEN UNCHANGED <<stored, hist>> ELSE EngineDrop(Tab(c))
  /\ Go(c, "ending")
  /\ UNCHANGED <<scope, tx, security, keys, caches, policyQ, writeQ>>

-----------------------------------------------------------------------------
(* Transactions                                                            *)

EmptyCaches(a) == IF a = "plain" THEN cache ELSE [cache EXCEPT ![a] = Empty]

Begin(c) ==
  /\ call[c].pc = "tx" /\ q(c).do = "begin"
  /\ IF tx.active THEN UNCHANGED tx /\ End(c, "error")
     ELSE tx' = [NoTx EXCEPT !.active = TRUE, !.owner = By(c)] /\ End(c, "ok")
  /\ UNCHANGED <<scope, stored, security, keys, caches, policyQ, hist>>

CommitTransaction(c) ==
  /\ call[c].pc = "tx" /\ q(c).do = "commit"
  /\ LET mine == tx.active /\ tx.owner = By(c)
         after == Commit(stored)
         works == mine /\ after # Failed
     IN /\ stored' = IF works THEN after ELSE stored
        /\ hist' = IF works THEN [hist EXCEPT !.rows = [t \in Tables |->
                                    IF OpsOn(t) = <<>> THEN @[t] ELSE Meant(t)]]
                   ELSE hist
        /\ tx' = IF mine THEN NoTx ELSE tx
        /\ cache' = IF tx'.active THEN cache ELSE EmptyCaches(By(c))
        /\ End(c, IF works THEN "ok" ELSE "error")
  /\ UNCHANGED <<scope, security, keys, cacheGen, policyQ>>

Rollback(c) ==
  /\ call[c].pc = "tx" /\ q(c).do = "rollback"
  /\ LET mine == tx.active /\ tx.owner = By(c)
     IN /\ tx' = IF mine THEN NoTx ELSE tx
        /\ cache' = IF tx'.active THEN cache ELSE EmptyCaches(By(c))
        /\ End(c, IF mine THEN "ok" ELSE "error")
  /\ UNCHANGED <<scope, stored, security, keys, cacheGen, policyQ, hist>>

-----------------------------------------------------------------------------
Init ==
  /\ scope \in Scopes
  /\ stored = scope.tables
  /\ tx = NoTx /\ security = "none"
  /\ alias = scope.alias /\ generation = 0 /\ resetting = FALSE
  /\ getters = {} /\ keyGen = [a \in Adapters |-> -1]
  /\ cacheGen = [a \in Adapters |-> 0] /\ cache = [a \in Adapters |-> Empty]
  /\ policyQ = [t \in Tables |-> <<>>] /\ writeQ = [t \in Tables |-> <<>>]
  /\ call = [c \in Clients |-> NoCall]
  /\ hist = [rows |-> [t \in Tables |-> IF stored[t] = NoTable THEN NoTable
                                        ELSE RowsOf(stored[t].items)],
             made |-> alias["normal"] + alias["strict"], faults |-> 0, resets |-> 0,
             gone |-> {}, dead |-> {}]

Step(c) ==
  \/ Resolve(c) \/ PlainRead(c) \/ PlainWrite(c) \/ PlainSchema(c) \/ Finish(c)
  \/ TakeKey(c) \/ TakeStrictKey(c) \/ Authorize(c) \/ Turn(c) \/ TurnAtOnce(c)
  \/ Fetch(c) \/ Open(c) \/ Recount(c) \/ Meta(c) \/ CreateImplicitly(c) \/ Extend(c)
  \/ CannotExtend(c) \/ Seal(c) \/ SealFails(c) \/ Make(c) \/ Makes(c) \/ Initial(c)
  \/ Cleanup(c) \/ Begin(c) \/ CommitTransaction(c) \/ Rollback(c)

GetKey == \E g \in getters : ReadAlias(g) \/ SetAlias(g)

Next ==
  \/ \E c \in Clients : Enter(c) \/ Step(c)
  \/ GetKey \/ (\E g \in getters : KeyFails(g))
  \/ DeleteAliases \/ NextGeneration

Spec == Init /\ [][Next]_vars
FairSpec == Spec /\ (\A c \in Clients : WF_vars(Step(c))) /\ WF_vars(GetKey)
            /\ WF_vars(NextGeneration)

-----------------------------------------------------------------------------
(* Properties                                                              *)

Done(c, kinds) == call[c].pc = "ending" /\ call[c].result = "ok" /\ q(c).do \in kinds

(* The state is well formed; a call is in line for a table only while it   *)
(* is under way, and in line for the write lock only inside the adapter    *)
(* (withTablePolicyLock, withTableWriteLock and their finally blocks).     *)
TypeOK ==
  /\ stored \in [Tables -> Table \cup {NoTable}]
  /\ security \in Surfaces \cup {"none"} /\ tx.owner \in Surfaces
  /\ alias \in [{"normal", "strict"} -> Keys] /\ generation \in Nat
  /\ \A t \in Tables :
       /\ IsInjective(policyQ[t]) /\ IsInjective(writeQ[t])
       /\ \A c \in Range(policyQ[t]) : call[c].pc # "idle" /\ Tab(c) = t
       /\ \A c \in Range(writeQ[t]) :
            call[c].pc \in {"turn", "fetch", "open", "meta", "implicit", "extend", "seal"}
  /\ ~tx.active => tx.ops = <<>>

(* What is stored is protected as the metadata of the table say, whoever   *)
(* created the table, and also when a commit did: no plaintext in an       *)
(* encrypted table, no ciphertext in a plain one (runTableOperation,       *)
(* getTableMetaForWrite, ensureTransactionTablePolicy).                    *)
ProtectedAsDeclared ==
  \A t \in Tables : stored[t] # NoTable =>
    LET table == stored[t]
        prot == CASE table.policy.kind = "plain" -> "none"
                  [] table.policy.kind = "full" -> "envelope"
                  [] table.policy.kind = "bare" -> FieldKind
                  [] OTHER -> table.policy.kind
    IN /\ \A i \in DOMAIN table.items : table.items[i].prot = prot
       /\ prot = "envelope" => Len(table.items) <= 1

(* A table holds what the acknowledged calls made of it, in order, and its *)
(* logical count agrees: no reader-writer of an envelope undoes another,   *)
(* in a transaction or not (withTableWriteLock, writeWithKeyUnlocked,      *)
(* withLogicalRecordCount).                                                *)
NothingLost ==
  \A t \in Tables :
    /\ stored[t] = NoTable <=> hist.rows[t] = NoTable
    /\ stored[t] # NoTable => /\ RowsOf(stored[t].items) = hist.rows[t]
                              /\ stored[t].count = Len(hist.rows[t])

(* A read returns the decrypted rows the table had when it was read, from  *)
(* the cache or not, and never ciphertext (readWithKey, fullTableCache).   *)
ReadsAreRight == \A c \in Clients : Done(c, {"read"}) => call[c].rows = call[c].seen

(* As long as the keys are not reset, everything stored is encrypted with  *)
(* the persisted key of its scope: it can be read again after a restart    *)
(* (getOrInitKey, getMasterKey, provisionAuthMasterKey).                   *)
KeysMatch ==
  hist.resets = 0 => \A t \in Tables : stored[t] # NoTable =>
    \A i \in DOMAIN stored[t].items :
      stored[t].items[i].prot # "none" =>
        stored[t].items[i].key = alias[IF stored[t].policy.strict THEN "strict" ELSE "normal"]

(* A read that begins after a reset returns nothing that was encrypted     *)
(* with a key the reset discarded, although decrypted tables are cached    *)
(* (invalidateCachesIfMasterKeyChanged).                                   *)
ResetHides ==
  \A c \in Clients : Done(c, {"read"}) => call[c].used \cap call[c].dead = {}

(* A write or a createTable that succeeds outside of a transaction leaves  *)
(* a table with the policy it asked for, whoever else creates the table    *)
(* (assertWriteEncryptionPolicy, assertExistingCreateTablePolicy).         *)
AsAsked ==
  \A c \in Clients :
    Done(c, {"create", "over", "append", "update"}) /\ stored[Tab(c)] # NoTable /\ ~tx.active
      => LET policy == stored[Tab(c)].policy
         IN IF q(c).do # "create" THEN WriteFits(policy, q(c).opts, By(c))
            ELSE /\ policy.strict = On(q(c).opts, "auth")
                 /\ (policy.kind # "plain") = (Security(q(c).opts) # "plain")
                 /\ Given(q(c).opts, "full") => (policy.kind = "full") = q(c).opts["full"]

(* Every call ends: no lock is kept, no caller waits for a key for ever.   *)
EveryCallEnds == \A c \in Clients : call[c].pc # "idle" ~> call[c].pc = "idle"

(* Locks and calls agree, and a table holds what was acknowledged.       *)
Consistent == TypeOK /\ NothingLost

(* Tables are protected as they declare, and declare what was asked for. *)
PoliciesHold == ProtectedAsDeclared /\ AsAsked

(* Reads return the decrypted rows, and none of a discarded key.         *)
ReadsHold == ReadsAreRight /\ ResetHides
=============================================================================
