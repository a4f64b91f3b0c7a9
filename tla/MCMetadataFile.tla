--------------------------- MODULE MCMetadataFile ---------------------------
(* Small instances of MetadataFile for TLC.                                *)
EXTENDS MetadataFile

CONSTANTS c1, c2, c3, t1, m1, m2

MCManagerOf == [c \in Everyone |-> IF c \in {c1, c2} THEN m1 ELSE m2]
MCDoes == [c \in Calls |-> IF c = c3 THEN {"mutate", "latest", "reload"} ELSE {"mutate"}]
=============================================================================
