--------------------------- MODULE MCChunkedStore ---------------------------
(* Small instances of ChunkedStore for TLC.                                *)
EXTENDS ChunkedStore

CONSTANTS a, b

MCChunk == {a, b}
MCCountOf == [c \in MCChunk |-> IF c = a THEN 1 ELSE 2]
MCBatches == {<<b>>, <<a, b>>}
MCOverwrites == {<<>>, <<a>>, <<b, a>>}
EmptyCreate == {<<>>}
MCOldJournals == {[prev |-> <<a>>, target |-> <<b, a>>], [prev |-> <<>>, target |-> <<a>>]}
=============================================================================
