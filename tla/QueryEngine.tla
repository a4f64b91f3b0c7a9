----------------------------- MODULE QueryEngine -----------------------------
(***************************************************************************)
(* The query engine as operators on sequences of records: filters, LIKE,   *)
(* the five sorting algorithms, pages and update operators                 *)
(* (core/query/QueryEngine.ts, utils/sortingTools.ts,                      *)
(* utils/specialOperators.ts).                                             *)
(*                                                                         *)
(* A value is a tagged tuple, <<"num", n>>, <<"str", codes>>,              *)
(* <<"arr", values>>, <<"null">> or <<"undefined">>; text is a sequence of *)
(* character codes.  A record is a function from its field names, an       *)
(* absent field having the value Undefined.  The engine's numeric limits   *)
(* are constants.                                                          *)
(***************************************************************************)
EXTENDS Integers, Sequences, FiniteSets
LOCAL INSTANCE SequencesExt

CONSTANTS
  MaxFilterDepth,      \* nesting beyond which a filter throws (10)
  CountingThreshold,   \* rows from which "default" may choose counting (100)
  MergeThreshold,      \* rows beyond which "default" chooses merge (10000)
  DomainShare          \* rows per distinct value that counting needs (10)

ASSUME EngineAssumption ==
  {MaxFilterDepth, CountingThreshold, MergeThreshold, DomainShare} \subseteq Nat

Null == <<"null">>
Undefined == <<"undefined">>
Num(n) == <<"num", n>>
Str(codes) == <<"str", codes>>
Arr(values) == <<"arr", values>>
Percent == 37
Underscore == 95

(* F(x), x being evaluated once. *)
With(x, F(_)) == CHOOSE y \in {F(v) : v \in {x}} : TRUE

IsA(tag, x) == x[1] = tag
Nullish(x) == x[1] \in {"null", "undefined"}

(* === : arrays are compared by reference, and a stored array is never the *)
(* one in the query. *)
Same(x, y) == x = y /\ ~IsA("arr", x)

Lower(codes) == [i \in DOMAIN codes |->
                   IF codes[i] \in 65..90 THEN codes[i] + 32 ELSE codes[i]]

(* String(x) of a number, a text or an array.                              *)
RECURSIVE Digits(_)
Digits(n) == IF n < 10 THEN <<48 + n>> ELSE Append(Digits(n \div 10), 48 + (n % 10))
RECURSIVE TextOf(_)
TextOf(x) ==
  CASE IsA("num", x) -> Digits(x[2])
    [] IsA("str", x) -> x[2]
    [] IsA("arr", x) -> FoldLeft(LAMBDA acc, e : IF acc = <<>> THEN TextOf(e)
                                                 ELSE acc \o <<44>> \o TextOf(e), <<>>, x[2])

-----------------------------------------------------------------------------
(* LIKE *)

RECURSIVE LikeLoop(_, _, _, _, _, _)
LikeLoop(source, query, i, j, wildcard, from) ==
  LET token == IF j <= Len(query) THEN query[j] ELSE -1
  IN IF i > Len(source) THEN \A k \in j..Len(query) : query[k] = Percent
     ELSE IF token \in {Underscore, source[i]}
            THEN LikeLoop(source, query, i + 1, j + 1, wildcard, from)
     ELSE IF token = Percent THEN LikeLoop(source, query, i, j + 1, j, i)
     ELSE IF wildcard # 0
            THEN LikeLoop(source, query, from + 1, wildcard + 1, wildcard, from + 1)
     ELSE FALSE

matchesLike(value, pattern) == LikeLoop(Lower(value), Lower(pattern), 1, 1, 0, 0)

-----------------------------------------------------------------------------
(* Filters.  A condition is [kind |-> "fields", fields |-> <<[key, ops]>>],*)
(* [kind |-> "and" / "or", subs |-> conditions], a predicate               *)
(* [kind |-> "function", rows |-> the records it accepts], a value that is *)
(* no condition, [kind |-> "junk"], or NoFilter.  A test in ops is         *)
(* [op, arg]; the operator "is" stands for a plain value.                  *)

NoFilter == [kind |-> "none"]

Listed(item, values) ==
  IF IsA("arr", item) THEN \E x \in ToSet(item[2]), y \in ToSet(values) : Same(x, y)
                      ELSE \E y \in ToSet(values) : Same(item, y)

Compared(op, m, n) == CASE op = "$gt" -> m > n [] op = "$gte" -> m >= n
                        [] op = "$lt" -> m < n [] op = "$lte" -> m <= n

Passes(test, item) ==
  LET arg == test.arg
  IN CASE test.op = "is" -> item = arg
       [] test.op = "$eq" -> Same(item, arg)
       [] test.op = "$ne" -> ~Same(item, arg)
       [] test.op \in {"$gt", "$gte", "$lt", "$lte"} ->
            /\ IsA("num", item) /\ IsA("num", arg)
            /\ Compared(test.op, item[2], arg[2])
       [] test.op = "$in" -> IsA("arr", arg) /\ Listed(item, arg[2])
       [] test.op = "$nin" -> IsA("arr", arg) /\ ~Listed(item, arg[2])
       [] test.op = "$like" -> /\ IsA("str", item) /\ IsA("str", arg)
                               /\ matchesLike(item[2], arg[2])
       [] OTHER -> FALSE

Matches(record, fields) ==
  \A i \in DOMAIN fields : \A j \in DOMAIN fields[i].ops :
     Passes(fields[i].ops[j], record[fields[i].key])

(* What a filter gives: its rows, or the error of too deep a nesting; final *)
(* says that the rest of an $and or $or is not looked at.                  *)
Rows(rows) == [error |-> FALSE, final |-> FALSE, rows |-> rows]
Error == [error |-> TRUE, final |-> TRUE, rows |-> <<>>]

(* Set<T>.add of records, which are distinct objects. *)
Union(rows, more) == rows \o SelectSeq(more, LAMBDA r : r \notin ToSet(rows))

RECURSIVE filterWithDepth(_, _, _)
filterWithDepth(rows, cond, depth) ==
  IF cond.kind = "none" THEN Rows(rows)
  ELSE IF depth > MaxFilterDepth THEN Error
  ELSE CASE cond.kind = "function" ->
              Rows(SelectSeq(rows, LAMBDA r : r \in cond.rows))
         [] cond.kind = "junk" -> Rows(<<>>)
         [] cond.kind = "and" ->
              FoldLeft(LAMBDA acc, sub :
                         IF acc.final THEN acc
                         ELSE IF sub.kind = "junk"
                           THEN [Rows(<<>>) EXCEPT !.final = TRUE]
                           ELSE LET found == filterWithDepth(acc.rows, sub, depth + 1)
                                IN [found EXCEPT !.final = found.error],
                       Rows(rows), cond.subs)
         [] cond.kind = "or" ->
              FoldLeft(LAMBDA acc, sub :
                         LET found == filterWithDepth(rows, sub, depth + 1)
                         IN IF acc.final \/ sub.kind = "junk" THEN acc
                            ELSE IF found.error THEN Error
                            ELSE Rows(Union(acc.rows, found.rows)),
                       Rows(<<>>), cond.subs)
         [] cond.kind = "fields" ->
              Rows(SelectSeq(rows, LAMBDA r : Matches(r, cond.fields)))

filter(rows, cond) == filterWithDepth(rows, cond, 0)

-----------------------------------------------------------------------------
(* Sorting.  Comparators return a negative number, 0 or a positive one.    *)

RECURSIVE TextBefore(_, _)
TextBefore(s, t) ==
  t # <<>> /\ \/ s = <<>>
              \/ s[1] < t[1]
              \/ s[1] = t[1] /\ TextBefore(Tail(s), Tail(t))

Sign(less, more) == IF less THEN -1 ELSE IF more THEN 1 ELSE 0
compareText(x, y) == Sign(TextBefore(TextOf(x), TextOf(y)), TextBefore(TextOf(y), TextOf(x)))
compareNatural(x, y) == IF IsA("num", x) /\ IsA("num", y)
                          THEN Sign(x[2] < y[2], x[2] > y[2])
                          ELSE compareText(x, y)
Ordered(order, comparison) == IF order = "desc" THEN -comparison ELSE comparison

compareNullish(x, y) == Sign(Nullish(y) /\ ~Nullish(x), Nullish(x) /\ ~Nullish(y))

compareSortValues(x, y, order) ==
  IF Nullish(x) \/ Nullish(y) THEN compareNullish(x, y)
                              ELSE Ordered(order, compareNatural(x, y))
compareAsText(x, y, order) ==
  IF Nullish(x) \/ Nullish(y) THEN compareNullish(x, y)
                              ELSE Ordered(order, compareText(x, y))

(* Array.prototype.sort, which is stable: behind the lesser elements and   *)
(* the equal ones that were in front.                                      *)
NativeSort(seq, Cmp(_, _)) ==
  LET Place(s, i) == Cardinality({j \in DOMAIN s : \/ Cmp(s[j], s[i]) < 0
                                                   \/ Cmp(s[j], s[i]) = 0 /\ j <= i})
  IN With(seq, LAMBDA s : [k \in DOMAIN s |-> s[CHOOSE i \in DOMAIN s : Place(s, i) = k]])

sortByColumn(rows, column, order) ==
  NativeSort(rows, LAMBDA a, b : compareSortValues(a[column], b[column], order))

sortByColumnText(rows, column, order) ==
  NativeSort(rows, LAMBDA a, b : compareAsText(a[column], b[column], order))

sortByColumnCounting(rows, column, order) ==
  LET solid == SelectSeq(rows, LAMBDA r : ~Nullish(r[column]))
      keys == FoldLeft(LAMBDA acc, r : IF r[column] \in ToSet(acc) THEN acc
                                       ELSE Append(acc, r[column]), <<>>, solid)
      sorted == NativeSort(keys, LAMBDA x, y : compareSortValues(x, y, order))
  IN FoldLeft(LAMBDA acc, key : acc \o SelectSeq(solid, LAMBDA r : r[column] = key),
              <<>>, sorted)
     \o SelectSeq(rows, LAMBDA r : Nullish(r[column]))

MergeRows(left, right, column, order) ==
  LET merge[l, r \in Nat] ==
        IF l > Len(left) THEN SubSeq(right, r, Len(right))
        ELSE IF r > Len(right) THEN SubSeq(left, l, Len(left))
        ELSE IF compareSortValues(left[l][column], right[r][column], order) <= 0
               THEN <<left[l]>> \o merge[l + 1, r]
               ELSE <<right[r]>> \o merge[l, r + 1]
  IN merge[1, 1]

RECURSIVE sortByColumnMerge(_, _, _)
sortByColumnMerge(rows, column, order) ==
  LET mid == Len(rows) \div 2
      Half(from, to) == sortByColumnMerge(SubSeq(rows, from, to), column, order)
  IN IF Len(rows) <= 1 THEN rows
     ELSE With(<<Half(1, mid), Half(mid + 1, Len(rows))>>,
               LAMBDA h : MergeRows(h[1], h[2], column, order))

isSuitableForCountingSort(rows, column) ==
  LET values == {r[column] : r \in ToSet(rows)} \ {Null, Undefined}
  IN /\ Cardinality(values) * DomainShare < Len(rows)
     /\ Cardinality(values) < CountingThreshold

selectSortAlgorithm(requested, rows, by) ==
  IF requested # "default" THEN requested
  ELSE IF Len(rows) < CountingThreshold THEN "default"
  ELSE IF Len(rows) > MergeThreshold THEN "merge"
  ELSE IF Len(by) = 1 /\ isSuitableForCountingSort(rows, by[1]) THEN "counting"
  ELSE "merge"

SortColumn(algorithm, rows, column, order) ==
  CASE algorithm = "default" -> sortByColumn(rows, column, order)
    [] algorithm \in {"fast", "slow"} -> sortByColumnText(rows, column, order)
    [] algorithm = "counting" -> sortByColumnCounting(rows, column, order)
    [] algorithm = "merge" -> sortByColumnMerge(rows, column, order)

(* sortBy is a sequence of fields (<<>>: not sorted) and orders the        *)
(* sequence of their orders, a missing one being ascending.                *)
OrderAt(orders, i) == IF i <= Len(orders) THEN orders[i] ELSE "asc"
sort(rows, by, orders, requested) ==
  LET sorted[i \in 1..(Len(by) + 1)] ==
        IF i > Len(by) THEN rows
        ELSE With(sorted[i + 1],
                  LAMBDA s : SortColumn(selectSortAlgorithm(requested, rows, by), s,
                                        by[i], OrderAt(orders, i)))
  IN sorted[1]

-----------------------------------------------------------------------------
(* Pages, and the updates of a record *)

NoLimit == -1
paginate(rows, skip, limit) ==
  SubSeq(rows, skip + 1, IF limit = NoLimit THEN Len(rows)
                         ELSE IF skip + limit < Len(rows) THEN skip + limit
                         ELSE Len(rows))

Elements(x) == IF IsA("arr", x) THEN x[2] ELSE <<>>

(* An update is a sequence of [op, field, arg] in the order in which the   *)
(* object lists its keys; it is applied in the order of the operators.     *)
ApplyOperator(record, u) ==
  LET old == record[u.field]
      new == CASE u.op = "$inc" -> IF IsA("num", u.arg)
                                     THEN Num((IF IsA("num", old) THEN old[2] ELSE 0) + u.arg[2])
                                     ELSE old
               [] u.op \in {"$set", "field"} -> u.arg
               [] u.op = "$unset" -> Undefined
               [] u.op = "$push" -> Arr(Append(Elements(old), u.arg))
               [] u.op = "$pull" -> IF IsA("arr", old)
                                      THEN Arr(SelectSeq(old[2], LAMBDA x : ~Same(x, u.arg)))
                                      ELSE old
               [] u.op = "$addToSet" -> IF u.arg \in ToSet(Elements(old))
                                          THEN Arr(Elements(old))
                                          ELSE Arr(Append(Elements(old), u.arg))
  IN [record EXCEPT ![u.field] = new]

\* Mutant: plain fields are written before the operators are applied.
OperatorOrder_FieldFirst == <<"field", "$inc", "$set", "$unset", "$push", "$pull", "$addToSet">>

OperatorOrder == <<"$inc", "$set", "$unset", "$push", "$pull", "$addToSet", "field">>

processUpdateOperators(record, update) ==
  FoldLeft(LAMBDA acc, op :
             FoldLeft(LAMBDA r, u : IF u.op = op THEN ApplyOperator(r, u) ELSE r, acc, update),
           record, OperatorOrder)

UpdateRows(rows, cond, update) ==
  LET matched == ToSet(filter(rows, cond).rows)
  IN FoldLeft(LAMBDA acc, r : Append(acc, IF r \in matched
                                            THEN processUpdateOperators(r, update) ELSE r),
              <<>>, rows)
=============================================================================
