----------------------------- MODULE Babysitter -----------------------------
(***************************************************************************)
(* What the supervision core promises for each instance on its own: one    *)
(* child at a time; a start is declared a success while the child lives or *)
(* before its death is noticed; a death is noticed, waited out and         *)
(* answered by a new start.  There are no pids, watchers, timers or heap   *)
(* here: Supervisor is shown to implement this module.                     *)
(***************************************************************************)
CONSTANTS
  Instances,
  LaunchMayFail   \* whether a launch may yield no child

VARIABLES
  phase,   \* what the daemon believes of each instance
  child    \* what is true of its child

bvars == <<phase, child>>

Init ==
  /\ phase = [i \in Instances |-> "idle"]
  /\ child = [i \in Instances |-> "none"]

Born == IF LaunchMayFail THEN {"alive", "none"} ELSE {"alive"}

LaunchFrom(i, from) ==
  /\ phase[i] = from /\ child[i] = "none"
  /\ phase' = [phase EXCEPT ![i] = "starting"]
  /\ \E b \in Born : child' = [child EXCEPT ![i] = b]

Launch(i)   == LaunchFrom(i, "idle")
Relaunch(i) == LaunchFrom(i, "exited")

Settle(i) ==
  /\ phase[i] = "starting"
  /\ phase' = [phase EXCEPT ![i] = "running"]
  /\ UNCHANGED child

Die(i) ==
  /\ child[i] = "alive"
  /\ child' = [child EXCEPT ![i] = "dead"]
  /\ UNCHANGED phase

Notice(i) ==
  /\ phase[i] \in {"starting", "running"} /\ child[i] = "dead"
  /\ phase' = [phase EXCEPT ![i] = "exited"]
  /\ child' = [child EXCEPT ![i] = "none"]

Next ==
  \E i \in Instances :
    Launch(i) \/ Relaunch(i) \/ Settle(i) \/ Die(i) \/ Notice(i)

Spec == Init /\ [][Next]_bvars
=============================================================================
