---------------------------- MODULE ProcessState ----------------------------
(***************************************************************************)
(* The process record of src/process.h and the functions of src/process.c  *)
(* that change it.  Everything here is a pure operator on one record; the  *)
(* module Supervisor applies them from the daemon's callbacks.             *)
(*                                                                         *)
(* Left out of the record because no code reads them: start_count,         *)
(* start_time and end_time; and admin_state, which no code writes.  The    *)
(* file descriptors belong to the I/O part of the daemon.                  *)
(***************************************************************************)
EXTENDS Integers

CONSTANTS
  Pids,        \* process ids the kernel can hand out; the code tests pid > 0
  NoPid,       \* the pid field of an instance never started (0 by memset)
  ForkFailed,  \* the pid field after fork() returned -1
  FlapMax      \* program->flap_max

ASSUME PidAssumption == NoPid \notin Pids /\ ForkFailed \notin Pids
ASSUME FlapMaxAssumption == FlapMax \in Nat

(* "zero" is what pn_proc_init's memset leaves in the state field.  No code *)
(* moves a process to "stopping".                                           *)
ProcessStates == {"zero", "new", "starting", "running", "exited", "backoff"}

Process == [ state : ProcessStates, pid : Pids \cup {NoPid, ForkFailed},
             exit_status : Int, exit_signal : Int, flap_count : Nat ]

pn_proc_init == [ state |-> "zero", pid |-> NoPid,
                  exit_status |-> 0, exit_signal |-> 0, flap_count |-> 0 ]

(* What waitpid() reports: an exit code, or the signal that killed it.      *)
WaitStatus == [signaled : BOOLEAN, value : Nat]

(* Mutants: the case of a healthy start falls through to the next one; or   *)
(* it forgives one flap instead of all.                                     *)
FlapCount_FallsThrough(p, to) ==
  CASE p.state = "starting" /\ to = "running" -> 1
    [] p.state = "starting" /\ to = "exited"  -> p.flap_count + 1
    [] OTHER                                  -> p.flap_count

FlapCount_Forgives(p, to) ==
  CASE p.state = "starting" /\ to = "running" -> p.flap_count - 1
    [] p.state = "starting" /\ to = "exited"  -> p.flap_count + 1
    [] OTHER                                  -> p.flap_count

(* The switch over TRANSITION(from, to): a start that lasted clears the     *)
(* count of flaps, one that did not adds to it.                             *)
FlapCount(p, to) ==
  CASE p.state = "starting" /\ to = "running" -> 0
    [] p.state = "starting" /\ to = "exited"  -> p.flap_count + 1
    [] OTHER                                  -> p.flap_count

Flapping(p, to) ==
  /\ p.state = "starting" /\ to = "exited"
  /\ FlapCount(p, to) > FlapMax

(* A flapping process is moved to "backoff" by a nested call, but the outer *)
(* call then goes on to assign the state it was given, so the record ends   *)
(* in "exited" all the same.                                                *)
pn_proc_move_state(p, to) ==
  LET counted == [p EXCEPT !.flap_count = FlapCount(p, to)]
      nested  == IF Flapping(p, to) THEN [counted EXCEPT !.state = "backoff"]
                                    ELSE counted
  IN [nested EXCEPT !.state = to]

pn_proc_exited(p, status) ==
  pn_proc_move_state(
    [p EXCEPT !.exit_status = IF status.signaled THEN -1 ELSE status.value,
              !.exit_signal = IF status.signaled THEN status.value ELSE 0],
    "exited")
=============================================================================
