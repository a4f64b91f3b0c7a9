---------------------------- MODULE MCTaskQueue ----------------------------
(* Small instances of TaskQueue for TLC.                                   *)
EXTENDS TaskQueue

CONSTANTS a, b, c

\* Two tasks that are as urgent as one another, one that is more urgent and
\* has no processor.
MCAttributes ==
  [t \in Tasks |->
     CASE t = a -> [priority |-> 1, maxRetries |-> 2, kind |-> "valid"]
       [] t = b -> [priority |-> 1, maxRetries |-> 1, kind |-> "malformed"]
       [] OTHER -> [priority |-> 2, maxRetries |-> 1, kind |-> "foreign"]]
=============================================================================
