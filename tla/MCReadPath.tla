------------------------------ MODULE MCReadPath ------------------------------
(***************************************************************************)
(* Instances of ReadPath: "wide" behaviours take every combination of a    *)
(* table with a query or an operation; "narrow" ones interleave reads of   *)
(* few queries with writes.                                                *)
(***************************************************************************)
EXTENDS ReadPath

CONSTANTS r1, r2,
  Texts,       \* texts of the wide tables, as sequences of character codes
  Patterns     \* LIKE patterns of the wide queries

Row(id, v, w) == [id |-> id, v |-> v, w |-> w]
Field(key, op, arg) == [key |-> key, ops |-> <<[op |-> op, arg |-> arg]>>]
Where(key, op, arg) == [kind |-> "fields", fields |-> <<Field(key, op, arg)>>]
And(a, b) == [kind |-> "and", subs |-> <<a, b>>]
Or(a, b) == [kind |-> "or", subs |-> <<a, b>>]
All == [kind |-> "fields", fields |-> <<>>]
Junk == [kind |-> "junk"]

Query(cond) == [filter |-> cond, by |-> <<>>, orders |-> <<>>, algorithm |-> "default",
                skip |-> 0, limit |-> NoLimit, bypass |-> FALSE]

n1 == Num(1)
n2 == Num(2)
n10 == Num(10)
bag == Arr(<<n1, n2>>)
texts == {Str(t) : t \in Texts}

(* Three rows: a column of numbers or of texts, with gaps, and another.    *)
Columns == {c \in [1..3 -> {n2, n10, Null, Undefined}] : c[1] # c[3]}
           \cup [1..3 -> texts] \cup {<<bag, n1, Null>>}
WideTables == {<<Row(n1, c[1], n1), Row(n2, c[2], n2), Row(Num(3), c[3], n1)>> : c \in Columns}
              \cup {<<>>, <<Row(n1, n2, n1)>>, <<Row(Undefined, n2, n1), Row(n2, n2, n2)>>}

WideFilters ==
  {Where("v", "is", x) : x \in {n2, Null, bag}} \cup {Where("v", "is", t) : t \in texts}
  \cup {Where("v", op, n2) : op \in {"$eq", "$ne", "$gt", "$gte", "$lt", "$lte"}}
  \cup {Where("v", op, Arr(<<n2, Null>>)) : op \in {"$in", "$nin"}}
  \cup {Where("v", "$like", Str(p)) : p \in Patterns}
  \cup {And(Where("v", "$ne", Null), Where("w", "is", n1)), And(Where("w", "is", n1), Junk),
        Or(Where("w", "is", n2), Where("v", "is", n2)), Or(Junk, Where("v", "$gt", n2)),
        Or(And(Where("w", "is", n1), Where("v", "$ne", n2)), Where("v", "is", Null)),
        Or(And(Or(Junk, All), All), All), Junk, All, NoFilter}
WideSorts == {[Query(NoFilter) EXCEPT !.by = by, !.orders = orders, !.algorithm = a] :
                by \in {<<"v">>, <<"w", "v">>}, orders \in {<<>>, <<"desc">>, <<"asc", "desc">>},
                a \in {"default", "fast", "counting", "merge", "slow"}}
WidePages == {[Query(cond) EXCEPT !.skip = page[1], !.limit = page[2]] :
                cond \in {NoFilter, Where("w", "is", n1)},
                page \in {<<0, 0>>, <<0, 1>>, <<1, 1>>, <<1, NoLimit>>, <<5, 1>>}}

U(op, field, arg) == [op |-> op, field |-> field, arg |-> arg]
Updates == {<<U("$inc", "v", n1)>>, <<U("field", "w", n2), U("$inc", "w", n1)>>,
            <<U("$push", "v", n1), U("$set", "v", bag), U("$unset", "w", Null)>>,
            <<U("$addToSet", "v", n2), U("$pull", "v", n2)>>}
Op(kind, where, update) == [kind |-> kind, to |-> "same", where |-> where, update |-> update]
WideOperations ==
  {Op("update", cond, u) : cond \in {Where("w", "is", n1), Where("v", "$ne", Null)}, u \in Updates}
  \cup {Op("delete", cond, <<>>) : cond \in {Where("w", "is", n1), Where("v", "$gt", n2)}}
  \cup {[kind |-> "bulk", to |-> "same",
         ops |-> <<[kind |-> "insert", rows |-> <<Row(Num(4), n2, n1)>>],
                   Op("delete", Where("w", "is", n2), <<>>),
                   Op("update", Where("v", "is", n2), <<U("$set", "w", n2)>>)>>]}

(* Queries that differ in one part each, for the keys of the cache.        *)
KeyTable == <<Row(n1, n2, n1), Row(n2, Undefined, n2)>>
KeyQueries ==
  {Query(cond) : cond \in {All, Where("v", "is", n1), Where("v", "is", n2), Where("w", "is", n2),
                           Where("v", "$eq", n2), Where("v", "$ne", n2), Or(Where("w", "is", n1), Junk)}}
  \cup {[Query(All) EXCEPT !.limit = 1], [Query(All) EXCEPT !.skip = 1]}
  \cup {[Query(All) EXCEPT !.by = <<"w">>, !.orders = o] : o \in {<<"asc">>, <<"desc">>}}

NarrowTable == <<Row(n1, n1, n1)>>
CachedQuery == Query(Where("v", "is", n2))
NarrowQueries == {CachedQuery, Query([kind |-> "function", rows |-> {NarrowTable[1]}])}
AppendTo(to) == [kind |-> "append", to |-> to, rows |-> <<Row(n2, n2, n1)>>]
Swap == [kind |-> "overwrite", to |-> "same", rows |-> <<Row(n1, n2, n1), Row(n2, n1, n1)>>]

Scope(author, modes, indexes, readers, tables, queries, operations, bounds) ==
  [author |-> author, modes |-> modes, indexes |-> indexes, readers |-> readers,
   tables |-> tables, queries |-> queries, operations |-> operations,
   reads |-> bounds[1], writes |-> bounds[2], faults |-> bounds[3], flushes |-> bounds[4]]
NarrowScope(author, readers, modes, indexType, operations, bounds) ==
  Scope(author, modes, {indexType}, readers, {NarrowTable}, NarrowQueries, operations, bounds)

WideQueries == {Query(cond) : cond \in WideFilters} \cup WideSorts \cup WidePages

WideScopes ==
  [wide_reads |-> Scope("local", {"single"}, {"none", "normal", "unique"}, {r1}, WideTables, WideQueries,
                        {}, <<1, 0, 0, 0>>),
   wide_writes |-> Scope("local", {"single"}, {"late", "unique"}, {r1}, WideTables, {}, WideOperations,
                         <<0, 1, 0, 0>>),
   keys |-> Scope("local", {"single"}, {"none"}, {r1}, {KeyTable}, KeyQueries, {}, <<2, 0, 0, 0>>),
   local |-> [NarrowScope("local", {r1, r2}, {"single"}, "unique", {AppendTo("same"), Swap},
                          <<2, 2, 0, 0>>) EXCEPT !.queries = {CachedQuery}],
   failing |-> NarrowScope("local", {r1, r2}, {"single"}, "unique", {AppendTo("same")}, <<2, 1, 1, 0>>),
   migrate |-> NarrowScope("local", {r1}, Modes, "normal", {AppendTo("chunked")}, <<2, 1, 0, 1>>),
   foreign |-> NarrowScope("foreign", {r1, r2}, {"single"}, "normal",
                           {AppendTo("chunked"), Swap}, <<2, 2, 0, 0>>)]

OtherTable ==
  [other |-> NarrowScope("foreign", {r1, r2}, {"single"}, "none", {AppendTo("same")}, <<2, 1, 0, 1>>)]

UndefinedScopes ==
  [undefined |-> [WideScopes.keys EXCEPT !.queries = {Query(All), Query(Where("v", "is", Undefined))}]]

Some == {<<97>>, <<97, 98>>, <<97, 99, 98>>}
SomePatterns == {<<97, 37>>, <<37, 66>>, <<95, 98>>, <<37>>, <<97, 37, 95>>}
=============================================================================
