---------------------------- MODULE MCEncryptedStore ----------------------------
(***************************************************************************)
(* Instances of EncryptedStore.  Each group of scopes is about one thing:  *)
(* who creates a table, a transaction beside the calls of another surface, *)
(* adapters used directly, a reset of the keys, the first use of a key.    *)
(***************************************************************************)
EXTENDS EncryptedStore

CONSTANTS c1, c2, c3, t, u, v1, v2, v3

None == [given \in {} |-> TRUE]
Explicit == [encrypted |-> FALSE]
Encrypted == [encrypted |-> TRUE]
Whole == [encrypted |-> TRUE, full |-> TRUE]
Auth == [encrypted |-> TRUE, auth |-> TRUE]
WholeAuth == [full |-> TRUE, auth |-> TRUE]
Listed == [fields |-> TRUE]
Unlisted == [encrypted |-> TRUE, fields |-> FALSE]

On1(do, table, opts, rows) ==
  [via |-> "facade", table |-> table, opts |-> opts, rows |-> rows, old |-> v1, new |-> v2, do |-> do]
Direct(a, req) == [req EXCEPT !.via = a]

Kept(kind, strict, prot, key, rows) ==
  [policy |-> [kind |-> kind, strict |-> strict], items |-> Protect(rows, prot, key),
   count |-> Len(rows)]
Nothing == [table \in Tables |-> NoTable]
With(table, kept) == [Nothing EXCEPT ![table] = kept]
Beneath(kept) == [With(t, kept) EXCEPT ![u] = Kept("plain", FALSE, "none", 0, <<v3>>)]
NoKeys == [normal |-> 0, strict |-> 0]
BothKeys == [normal |-> 1, strict |-> 2]
Work(a, b, c) == [client \in Clients |-> IF client = c1 THEN a ELSE IF client = c2 THEN b ELSE c]
Of(work, tables, keyring) ==
  [work |-> work, tables |-> tables, alias |-> keyring, configured |-> FALSE, resets |-> 0,
   faults |-> 0]

(* Two callers create a table in different ways, the third reads it.       *)
Creations == {On1("create", t, o, rows) : o \in {None, Encrypted, Whole, Auth, Listed, Unlisted},
                                          rows \in {<<>>, <<v1, v2>>}}
             \cup {On1("append", t, o, <<v1>>) : o \in {Encrypted, Whole, WholeAuth}}
Rivals == {On1("append", t, o, <<v3>>) : o \in {None, Explicit, Encrypted, Whole, Auth}}
          \cup {On1("create", t, o, <<>>) : o \in {None, Encrypted, Whole, Listed, Unlisted}}
          \cup {On1("drop", t, Encrypted, <<>>), On1("update", t, Encrypted, <<>>)}
Readers == {On1("read", t, None, <<>>), On1("read", t, Encrypted, <<>>), On1("read", t, Auth, <<>>)}
CreateScopes ==
  {[Of(Work(<<a>>, <<b>>, <<c>>), Nothing, BothKeys) EXCEPT !.configured = On(c.opts, "auth")] :
     a \in Creations, b \in Rivals, c \in Readers}
  \cup {[Of(Work(<<a>>, <<b>>, <<>>), Nothing, BothKeys) EXCEPT !.faults = 1] :
     a \in Creations, b \in Rivals}

(* A transaction of the encrypted surface; the plain one works beside it.  *)
(* The default configuration lists fields.  Without a list, a transaction  *)
(* that creates a table cannot read its own writes, and a call without     *)
(* options that joins one stores plaintext: see OmittingScopes.            *)
Inside(kinds) ==
  {<<On1("append", t, o, <<v1>>), On1(do, t, o, <<v2>>)>> : o \in {Encrypted, Whole}, do \in kinds}
  \cup {<<On1("append", t, Encrypted, <<v1>>), On1("append", t, Whole, <<v2>>)>>,
        <<On1("create", t, Encrypted, <<v1>>), On1("verify", t, Whole, <<>>)>>}
Beside == {On1("append", u, Explicit, <<v3>>), On1("read", t, Explicit, <<>>),
           On1("append", t, Explicit, <<v3>>), On1("drop", u, Explicit, <<>>),
           On1("begin", u, None, <<>>), On1("read", t, Auth, <<>>)}
Transaction(ops, end, opts, b, kept, configured) ==
  [Of(Work(<<On1("begin", t, Encrypted, <<>>)>> \o ops \o <<On1(end, t, opts, <<>>)>>, <<b>>, <<>>),
      Beneath(kept), BothKeys) EXCEPT !.configured = configured]
Sealed1(field) == {Kept("full", FALSE, "envelope", 1, <<v3>>), Kept(field, FALSE, field, 1, <<v3>>)}
TxScopes ==
  {Transaction(ops, end, opts, b, kept, TRUE) :
     ops \in Inside({"append", "update", "over", "clear", "read", "bulk"}),
     end \in {"commit", "rollback"}, opts \in {None, Encrypted}, b \in Beside,
     kept \in Sealed1("some") \cup {NoTable}}
  \cup {Transaction(ops, end, None, b, kept, FALSE) :
     ops \in Inside({"append", "over", "clear"}), end \in {"commit", "rollback"}, b \in Beside,
     kept \in Sealed1("all") \cup {NoTable}}

(* A table that exists keeps its policy without being told.                *)
OmittedScopes ==
  {Transaction(<<On1(do, t, None, <<v1>>)>>, "commit", None, b, kept, FALSE) :
     do \in {"append", "update", "over", "read"}, b \in Beside, kept \in Sealed1("all")}

(* A plain transaction, and one that is begun twice.                       *)
PlainScopes ==
  {Of(Work(<<On1("begin", t, None, <<>>), On1("append", t, None, <<v1>>), On1(end, t, None, <<>>)>>,
           <<b>>, <<>>), Nothing, BothKeys) :
     end \in {"commit", "rollback"},
     b \in {On1("append", t, Encrypted, <<v3>>), On1("begin", t, Auth, <<>>), On1("read", t, None, <<>>)}}

(* Adapters without the facade, on a table they both know.                 *)
DirectOps == {On1(do, t, None, <<v2>>) : do \in {"append", "update", "over", "remove", "clear"}}
DirectScopes ==
  {Of(Work(<<Direct("normal", a), Direct("normal", On1("read", t, None, <<>>))>>,
           <<Direct("other", b)>>, <<Direct("other", c)>>), With(t, kept), BothKeys) :
     a \in DirectOps, b \in DirectOps, c \in {On1("append", t, None, <<v3>>), On1("migrate", t, None, <<>>)},
     kept \in {Kept("full", FALSE, "envelope", 1, <<v1>>)}}
  \cup {Of(Work(<<Direct("normal", a)>>, <<Direct("other", b), Direct("other", c)>>, <<>>),
           With(t, kept), BothKeys) :
     a \in DirectOps, b \in DirectOps, c \in {On1("read", t, None, <<>>), On1("drop", t, None, <<>>)},
     kept \in {Kept("full", FALSE, "envelope", 1, <<v1>>), Kept("all", FALSE, "all", 1, <<v1>>)}}
  \cup {Of(Work(<<Direct("normal", On1("append", t, None, <<v1>>))>>,
              <<Direct("other", On1("append", t, None, <<v2>>))>>,
              <<Direct("normal", On1("read", t, None, <<>>))>>),
           With(t, Kept("full", FALSE, "envelope", 1, <<v3>>)), BothKeys)}

(* The keys are reset while one table is used.                             *)
ResetScopes ==
  {[Of(Work(<<a>>, <<b, On1("read", t, Encrypted, <<>>)>>, <<>>),
       With(t, kept), [normal |-> 1, strict |-> 0]) EXCEPT !.resets = 1, !.faults = f] :
     a \in {On1("append", t, Encrypted, <<v2>>), On1("read", t, Encrypted, <<>>)},
     b \in {On1("read", t, Encrypted, <<>>), On1("over", t, Encrypted, <<v3>>)},
     kept \in {Kept("full", FALSE, "envelope", 1, <<v1>>), Kept("all", FALSE, "all", 1, <<v1>>)},
     f \in {0, 1}}
  \cup {[Of(Work(<<On1("verify", t, Encrypted, <<>>)>>, <<On1("read", t, Encrypted, <<>>)>>,
                <<On1("append", t, Auth, <<v2>>)>>),
       With(t, Kept("full", FALSE, "envelope", 1, <<v1>>)), [normal |-> 1, strict |-> 0])
       EXCEPT !.resets = 1]}

(* The first calls that need a key find none.                              *)
KeyScopes ==
  {[Of(Work(<<On1("append", t, a, <<v1>>)>>, <<On1("append", u, b, <<v2>>), On1("read", u, b, <<>>)>>,
            <<On1("append", t, a, <<v3>>)>>), Nothing, NoKeys) EXCEPT !.faults = f] :
     a \in {Encrypted, Whole, Auth}, b \in {Encrypted, WholeAuth}, f \in {0, 1}}

(* Tables cleared, migrated and dropped, inside a transaction and outside. *)
Ending(o) == <<On1("clear", t, o, <<>>), On1("migrate", t, o, <<>>), On1("drop", t, o, <<>>)>>
EndScopes ==
  {Of(Work(Ending(o), <<On1("read", t, o, <<>>)>>, <<On1("over", t, o, <<v3>>)>>),
      With(t, kept), BothKeys) :
     o \in {None, Encrypted, Auth}, kept \in Sealed1("all") \cup {Kept("plain", FALSE, "none", 0, <<v1>>)}}
  \cup {Of(Work(<<On1("begin", t, Encrypted, <<>>)>> \o Ending(None) \o <<On1("rollback", t, None, <<>>)>>,
              <<>>, <<>>), With(t, kept), BothKeys) : kept \in Sealed1("all")}
  \cup {Of(Work(<<On1("begin", u, None, <<>>), On1("commit", u, None, <<>>)>>, <<b>>, <<>>),
          Nothing, BothKeys) :
       b \in {On1("create", t, None, <<v1>>), On1("drop", t, None, <<>>),
              On1("create", t, Encrypted, <<v1>>)}}

AllScopes == EndScopes \cup CreateScopes \cup TxScopes \cup OmittedScopes \cup PlainScopes \cup DirectScopes
             \cup ResetScopes \cup KeyScopes

(* The options are left out, and the commit creates the table.             *)
OmittingScopes ==
  {Of(Work(<<On1("begin", t, Encrypted, <<>>), On1("append", t, None, <<v1>>),
             On1("commit", t, None, <<>>)>>, <<>>, <<>>), Nothing, BothKeys)}

(* For ReadsHold: a transaction creates a field-encrypted table without a  *)
(* configured list; two tables are cached when the keys are reset.         *)
OwnWritesScopes ==
  {Transaction(<<On1("append", t, Encrypted, <<v1>>), On1("read", t, Encrypted, <<>>)>>, "commit",
               None, On1("read", t, Explicit, <<>>), NoTable, FALSE)}
TwoCachedScopes ==
  {[Of(Work(<<On1("read", t, Encrypted, <<>>), On1("read", t, Encrypted, <<>>)>>,
            <<On1("read", u, Encrypted, <<>>)>>, <<On1("append", u, Encrypted, <<v2>>)>>),
       [With(t, Kept("full", FALSE, "envelope", 1, <<v1>>)) EXCEPT
          ![u] = Kept("full", FALSE, "envelope", 1, <<v3>>)],
       [normal |-> 1, strict |-> 0]) EXCEPT !.resets = 1]}

(* For KeysMatch: two adapters create the first key at once.               *)
FirstKeyScopes ==
  {Of(Work(<<Direct("normal", On1("append", t, None, <<v1>>))>>,
           <<Direct("other", On1("append", u, None, <<v2>>))>>, <<>>),
      [table \in Tables |-> Kept("full", FALSE, "envelope", 0, <<>>)], NoKeys)}
=============================================================================
