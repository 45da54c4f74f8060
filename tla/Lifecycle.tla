----------------------------- MODULE Lifecycle -----------------------------
(***************************************************************************)
(* The process records alone, as the callbacks of the daemon move them     *)
(* (src/procnanny.c): first start, restart, success of a start, exit.      *)
(* Supervisor is shown to implement this module; EventStream adds what is  *)
(* published of each move and who gets to see it.                          *)
(*                                                                         *)
(* The pid is left out: it stays what pn_proc_init made it.                *)
(***************************************************************************)
EXTENDS ProcessState

CONSTANTS
  Instances,
  Statuses     \* the wait statuses children end with

VARIABLE proc

Init == proc = [i \in Instances |-> pn_proc_init]

(* start() and api_request_create: "new", then pn_proc_start.               *)
Begin(i) ==
  /\ proc[i].state = "zero"
  /\ proc' = [proc EXCEPT ![i] = pn_proc_move_state(pn_proc_move_state(@, "new"), "starting")]

Restart(i) ==
  /\ proc[i].state = "exited"
  /\ proc' = [proc EXCEPT ![i] = pn_proc_move_state(@, "starting")]

Settle(i) ==
  /\ proc[i].state = "starting"
  /\ proc' = [proc EXCEPT ![i] = pn_proc_move_state(@, "running")]

End(i, status) ==
  /\ proc[i].state \in {"starting", "running"}
  /\ proc' = [proc EXCEPT ![i] = pn_proc_exited(@, status)]

Next ==
  \E i \in Instances :
    \/ Begin(i) \/ Restart(i) \/ Settle(i)
    \/ \E status \in Statuses : End(i, status)

Spec == Init /\ [][Next]_proc
=============================================================================
