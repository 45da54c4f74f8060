--------------------------- MODULE MCEventStream ---------------------------
(* Model values and statuses for checking EventStream with TLC.            *)
EXTENDS EventStream

CONSTANTS i1, w1, w2, p1

\* A signal the table of names does not have.
OneStatus == {[signaled |-> TRUE, value |-> 34]}
=============================================================================
