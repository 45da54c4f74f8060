---------------------------- MODULE MCSupervisor ----------------------------
(* Model values, statuses and symmetry for checking Supervisor with TLC.   *)
EXTENDS Supervisor, TLC

CONSTANTS i1, i2, i3, p1, p2, p3, p4, a1, a2, a3, a4

\* One way of ending is enough: the status is stored and nothing depends on it.
OneStatus == {[signaled |-> FALSE, value |-> 1]}

Symmetry == Permutations(Pids) \cup Permutations(Addrs)
=============================================================================
