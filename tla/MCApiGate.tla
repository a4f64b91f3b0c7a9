----------------------------- MODULE MCApiGate -----------------------------
(* Small instances of ApiGate for TLC.                                     *)
EXTENDS ApiGate

CONSTANTS c1, c2

MCConfigs == {[period |-> 1, capacity |-> 4, enabled |-> TRUE],
              [period |-> 2, capacity |-> 2, enabled |-> TRUE],
              [period |-> 1, capacity |-> 3, enabled |-> FALSE]}
=============================================================================
