----------------------------- MODULE MCWriterLock -----------------------------
(* Small instances of WriterLock for TLC.                                  *)
EXTENDS WriterLock

CONSTANTS k1, k2, w1, w2

MCKeys == {k1, k2}
MCWriters == {w1, w2}
=============================================================================
