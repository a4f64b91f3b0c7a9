------------------------- MODULE MCSingleFileStore -------------------------
(* Small instances of SingleFileStore for TLC.                             *)
EXTENDS SingleFileStore

CONSTANTS c0, c1, c2

MCContent == {c0, c1, c2}
MCCountOf == [c \in MCContent |-> IF c = c0 THEN 0 ELSE 1]

(* Two writes with a failing call and two kills; the same from a table of  *)
(* an older version; and drops whose deletions are executed late.          *)
Bounds == [legacy |-> FALSE, token |-> 3, faults |-> 1, crashes |-> 2, abandoned |-> 0]
AllScopes == {Bounds, [Bounds EXCEPT !.legacy = TRUE],
              [Bounds EXCEPT !.token = 1, !.abandoned = 1]}

(* For ViewAcked: a deletion that lands after its table was created again. *)
RecreatedScopes == {[Bounds EXCEPT !.faults = 0, !.crashes = 0, !.abandoned = 1]}
=============================================================================
