------------------------------ MODULE MCCache ------------------------------
(* Small instances of Cache for TLC: the two strategies under direct calls,*)
(* and three calls of getSafe and its relatives on one or two keys.        *)
EXTENDS Cache

CONSTANTS k1, k2, k3, small, big, c1, c2, c3

MCSize == [v \in {small, big, Null, Undefined} |->
             IF v = small THEN 4 ELSE IF v = big THEN 9 ELSE 0]
MCCallKind == [c \in {c1, c2, c3} |->
                 IF c = c1 THEN "get" ELSE IF c = c2 THEN "guarded" ELSE "set"]

Unlocked(strategy, maxSize, memory, keys, values, marks) ==
  [strategy |-> strategy, maxSize |-> maxSize, memory |-> memory, keys |-> keys,
   values |-> values, marks |-> marks, calls |-> {}, direct |-> TRUE]
Safe(keys, values) ==
  [strategy |-> "lru", maxSize |-> 2, memory |-> 0, keys |-> keys,
   values |-> values, marks |-> {}, calls |-> {c1, c2, c3}, direct |-> FALSE]
MCConfigs ==
  {Unlocked("lru", 2, 10, CacheKeys, {small, big}, {FALSE}),
   Unlocked("lfu", 2, 0, CacheKeys, {small}, {FALSE}),
   Unlocked("lru", 3, 0, CacheKeys, {small}, {FALSE}),
   Unlocked("lru", 1, 0, {k1, k2}, {small}, BOOLEAN),
   Safe({k1}, {small, Null, Undefined}),
   Safe({k1, k2}, {small})}

(* For SetReturns: LFU classes and a memory limit.                         *)
LfuConfigs == {Unlocked("lfu", 2, 12, CacheKeys, {small, big}, {FALSE})}
=============================================================================
