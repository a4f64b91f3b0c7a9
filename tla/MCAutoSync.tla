----------------------------- MODULE MCAutoSync -----------------------------
(* Small instances of AutoSync for TLC: a full snapshot, records and a     *)
(* value that is no record in one table, one record of another.            *)
EXTENDS AutoSync

CONSTANTS t1, t2, i1, i2, full, r2, s1, x1, c1, c2

MCTableOf == [k \in Keys |-> IF k = s1 THEN t2 ELSE t1]
MCHolds == [k \in Keys |-> IF k = r2 THEN {i2} ELSE {i1}]
MCEdits == {<<t1, i1>>}
MCKinds == [c \in {c1, c2} |-> IF c = c1 THEN {"stop", "cleanup"} ELSE {"config"}]
=============================================================================
