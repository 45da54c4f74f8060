----------------------------- MODULE Supervisor -----------------------------
(***************************************************************************)
(* The supervision core of the C daemon: the process records of            *)
(* src/process.c, the libev callbacks of src/procnanny.c that keep the     *)
(* processes up, and the two API requests that touch them (src/api/).      *)
(*                                                                         *)
(* The daemon is one thread around a libev loop, so a callback is one      *)
(* atomic step.  Children live and die between any two steps.  A callback  *)
(* of an expired timer may run at any moment while the timer is active:    *)
(* ev_timer_stop also withdraws an expiry that is still queued, so "active" *)
(* and "expired, not yet invoked" need no distinction.                     *)
(*                                                                         *)
(* Heap addresses of timers are explicit, and freed addresses are handed   *)
(* out again: procdata->running_state_timer is compared and freed through  *)
(* a pointer that the code does not always clear.                          *)
(***************************************************************************)
EXTENDS ProcessState, FiniteSets

CONSTANTS
  Listed,       \* instances of the program in pn->programs, started by start()
  Created,      \* instances of programs an API "create" request can make
  Addrs,        \* heap addresses calloc() can return for an ev_timer
  NULL,
  Statuses,     \* the wait statuses children end with
  ForkMayFail,  \* whether fork() may return -1
  FlapBound     \* bound: a starting child does not exit beyond this flap_count

ASSUME InstanceAssumption == Listed \cap Created = {}
ASSUME NullAssumption == NULL \notin Addrs
ASSUME StatusAssumption == Statuses \subseteq WaitStatus
ASSUME ForkAssumption == ForkMayFail \in BOOLEAN
ASSUME BoundAssumption == FlapBound \in Nat

VARIABLES
  proc,      \* process_t of every instance
  children,  \* kernel: children forked and not yet reaped
  watchers,  \* libev: the active ev_child watchers
  timers,    \* libev and heap: the allocated ev_timers, all of them active
  timerPtr   \* procdata->running_state_timer of every instance

vars == <<proc, children, watchers, timers, timerPtr>>

Procs == Listed \cup Created

\* "termed": SIGTERM was sent; "zombie": dead and not reaped.
Child   == [pid : Pids, owner : Procs, st : {"alive", "termed"}, status : {NULL}]
             \cup [pid : Pids, owner : Procs, st : {"zombie"}, status : Statuses]
Watcher == [pid : Pids \cup {ForkFailed}, proc : Procs]
Timer   == [at : Addrs, kind : {"run", "restart"}, proc : Procs]

FreePids    == Pids \ {c.pid : c \in children}
FreeAddrs(heap) == Addrs \ {t.at : t \in heap}
ForkResults == FreePids \cup (IF ForkMayFail THEN {ForkFailed} ELSE {})

(* main() enters ev_run only after start() has started every instance.      *)
LoopRunning == \A i \in Listed : proc[i].state # "zero"

Init ==
  /\ proc = [i \in Procs |-> pn_proc_init]
  /\ children = {}
  /\ watchers = {}
  /\ timers = {}
  /\ timerPtr = [i \in Procs |-> NULL]

-----------------------------------------------------------------------------
(* Mutant: no run timer is set for the new child.                           *)
start_process_NoRunTimer(i, p, freed) ==
  \E pid \in ForkResults :
    /\ proc' = [proc EXCEPT ![i] =
                  [pn_proc_move_state(p, "starting") EXCEPT !.pid = pid]]
    /\ children' = children \cup
         (IF pid = ForkFailed THEN {}
          ELSE {[pid |-> pid, owner |-> i, st |-> "alive", status |-> NULL]})
    /\ watchers' = watchers \cup {[pid |-> pid, proc |-> i]}
    /\ timers' = timers \ freed
    /\ UNCHANGED timerPtr

(* start_process() for the instance i whose record is p on entry; freed is  *)
(* what its caller frees afterwards.  The pid goes into the record whatever *)
(* fork() returned, and a watcher and a run timer are made either way.      *)
start_process(i, p, freed) ==
  \E pid \in ForkResults, a \in FreeAddrs(timers) :
    /\ proc' = [proc EXCEPT ![i] =
                  [pn_proc_move_state(p, "starting") EXCEPT !.pid = pid]]
    /\ children' = children \cup
         (IF pid = ForkFailed THEN {}
          ELSE {[pid |-> pid, owner |-> i, st |-> "alive", status |-> NULL]})
    /\ watchers' = watchers \cup {[pid |-> pid, proc |-> i]}
    /\ timers' = (timers \ freed) \cup {[at |-> a, kind |-> "run", proc |-> i]}
    /\ timerPtr' = [timerPtr EXCEPT ![i] = a]

(* start() in main, before the loop: one instance of the listed program.    *)
start(i) ==
  /\ i \in Listed /\ proc[i].state = "zero"
  /\ start_process(i, pn_proc_move_state(proc[i], "new"), {})

(* An API request that makes a program of one instance and starts it.       *)
api_request_create(i) ==
  /\ LoopRunning
  /\ i \in Created /\ proc[i].state = "zero"
  /\ start_process(i, pn_proc_move_state(proc[i], "new"), {})

(* Mutant: ev_timer_stop forgotten, the repeating timer stays active.       *)
child_timer_cb_Repeats(t) ==
  /\ LoopRunning
  /\ t.kind = "restart"
  /\ start_process(t.proc, proc[t.proc], {})

(* The delay after an exit is over.  The watcher is freed last, so the run  *)
(* timer of the new start cannot land on its address.                       *)
child_timer_cb(t) ==
  /\ LoopRunning
  /\ t.kind = "restart"
  /\ start_process(t.proc, proc[t.proc], {t})

(* Mutant: the pointer to the freed timer is kept.                          *)
running_state_timer_cb_KeepsPointer(t) ==
  /\ LoopRunning
  /\ t.kind = "run"
  /\ proc' = [proc EXCEPT ![t.proc] = pn_proc_move_state(@, "running")]
  /\ timers' = timers \ {t}
  /\ UNCHANGED <<children, watchers, timerPtr>>

(* minimum_run_duration is over and the start is taken for a success.       *)
running_state_timer_cb(t) ==
  /\ LoopRunning
  /\ t.kind = "run"
  /\ proc' = [proc EXCEPT ![t.proc] = pn_proc_move_state(@, "running")]
  /\ timerPtr' = [timerPtr EXCEPT ![t.proc] = IF @ = t.at THEN NULL ELSE @]
  /\ timers' = timers \ {t}
  /\ UNCHANGED <<children, watchers>>

(* Freeing through running_state_timer releases whatever lies there now.    *)
PointedTo(i) == {t \in timers : t.at = timerPtr[i]}

(* Mutants: the watcher of the old pid stays; the run timer is not stopped; *)
(* a flapping child is not scheduled again; no child is.                    *)
child_proc_cb_KeepsWatcher(w, c) ==
  /\ LoopRunning
  /\ c.st = "zombie" /\ c.pid = w.pid
  /\ children' = children \ {c}
  /\ proc' = [proc EXCEPT ![w.proc] = pn_proc_exited(@, c.status)]
  /\ LET heap == timers \ PointedTo(w.proc)
     IN \E a \in FreeAddrs(heap) :
          timers' = heap \cup {[at |-> a, kind |-> "restart", proc |-> w.proc]}
  /\ UNCHANGED <<watchers, timerPtr>>

child_proc_cb_KeepsRunTimer(w, c) ==
  /\ LoopRunning
  /\ c.st = "zombie" /\ c.pid = w.pid
  /\ watchers' = watchers \ {w}
  /\ children' = children \ {c}
  /\ proc' = [proc EXCEPT ![w.proc] = pn_proc_exited(@, c.status)]
  /\ \E a \in FreeAddrs(timers) :
       timers' = timers \cup {[at |-> a, kind |-> "restart", proc |-> w.proc]}
  /\ UNCHANGED timerPtr

child_proc_cb_BacksOffForGood(w, c) ==
  /\ LoopRunning
  /\ c.st = "zombie" /\ c.pid = w.pid
  /\ watchers' = watchers \ {w}
  /\ children' = children \ {c}
  /\ proc' = [proc EXCEPT ![w.proc] = pn_proc_exited(@, c.status)]
  /\ LET heap == timers \ PointedTo(w.proc)
     IN \E a \in FreeAddrs(heap) :
          timers' = heap \cup
            IF Flapping(proc[w.proc], "exited") THEN {}
            ELSE {[at |-> a, kind |-> "restart", proc |-> w.proc]}
  /\ UNCHANGED timerPtr

(* libev reaped the child c that w watches.  The freed pointer is not       *)
(* cleared: until the next start it dangles.                                *)
child_proc_cb(w, c) ==
  /\ LoopRunning
  /\ c.st = "zombie" /\ c.pid = w.pid
  /\ watchers' = watchers \ {w}
  /\ children' = children \ {c}
  /\ proc' = [proc EXCEPT ![w.proc] = pn_proc_exited(@, c.status)]
  /\ LET heap == timers \ PointedTo(w.proc)
     IN \E a \in FreeAddrs(heap) :
          timers' = heap \cup {[at |-> a, kind |-> "restart", proc |-> w.proc]}
  /\ UNCHANGED timerPtr

(* Mutant: only a process declared healthy is signalled.                    *)
pn_proc_signal_Running(i) ==
  IF proc[i].state = "running" /\ \E c \in children : c.pid = proc[i].pid
  THEN "ok" ELSE "not running"

(* kill() on the pid of the record succeeds when the kernel knows the pid,  *)
(* also as a zombie.                                                        *)
pn_proc_signal(i) ==
  IF \E c \in children : c.pid = proc[i].pid THEN "ok" ELSE "not running"

(* An API request to send SIGTERM to the instances in T.                    *)
api_request_restart(T) ==
  /\ LoopRunning
  /\ children' = { IF c.st = "alive" /\ \E i \in T : proc[i].pid = c.pid
                   THEN [c EXCEPT !.st = "termed"] ELSE c : c \in children }
  /\ UNCHANGED <<proc, watchers, timers, timerPtr>>

(* The request names one instance of the listed program, or all of them.    *)
RestartTargets == {Listed} \cup {{i} : i \in Listed}

(* External: the kernel ends a child; the daemon learns of it later.        *)
ChildExits(c, status) ==
  /\ c.st # "zombie"
  /\ proc[c.owner].state = "starting" => proc[c.owner].flap_count < FlapBound
  /\ children' = (children \ {c}) \cup
                   {[c EXCEPT !.st = "zombie", !.status = status]}
  /\ UNCHANGED <<proc, watchers, timers, timerPtr>>

-----------------------------------------------------------------------------
Next ==
  \/ \E i \in Listed : start(i)
  \/ \E i \in Created : api_request_create(i)
  \/ \E t \in timers : child_timer_cb(t)
  \/ \E t \in timers : running_state_timer_cb(t)
  \/ \E w \in watchers, c \in children : child_proc_cb(w, c)
  \/ \E T \in RestartTargets : api_request_restart(T)
  \/ \E c \in children, status \in Statuses : ChildExits(c, status)

Spec == Init /\ [][Next]_vars

(* The loop keeps running, so an active timer fires and a dead child is     *)
(* reaped; main() gets through start().  Nothing is assumed of children or  *)
(* of API clients.                                                          *)
Fairness ==
  \A i \in Procs :
    /\ WF_vars(start(i))
    /\ WF_vars(\E t \in timers : t.proc = i /\ child_timer_cb(t))
    /\ WF_vars(\E t \in timers : t.proc = i /\ running_state_timer_cb(t))
    /\ WF_vars(\E w \in watchers, c \in children :
                 w.proc = i /\ child_proc_cb(w, c))

FairSpec == Spec /\ Fairness

-----------------------------------------------------------------------------
ChildrenOf(i)    == {c \in children : c.owner = i}
TimersOf(i, k)   == {t \in timers : t.proc = i /\ t.kind = k}

TypeOK ==
  /\ proc \in [Procs -> Process]
  /\ children \subseteq Child
  /\ watchers \subseteq Watcher
  /\ timers \subseteq Timer
  /\ timerPtr \in [Procs -> Addrs \cup {NULL}]

(* An instance never has two children at once, dead or alive: the restart   *)
(* timer and the previous child never overlap.                              *)
OneIncarnation == \A c, d \in children : c.owner = d.owner => c = d

(* A started instance is never lost and never scheduled twice: either its   *)
(* child is still to be reaped, or exactly one restart timer is set, or its *)
(* fork failed.                                                             *)
NeverLost ==
  \A i \in Procs :
    LET waiting == TimersOf(i, "restart")
    IN proc[i].state # "zero" =>
         \/ ChildrenOf(i) # {} /\ waiting = {}
         \/ ChildrenOf(i) = {} /\ \E t \in waiting : waiting = {t}
         \/ ChildrenOf(i) = {} /\ waiting = {} /\ proc[i].pid = ForkFailed

(* libev looks watchers up by pid and the kernel reuses pids: a reaped      *)
(* child still runs the callback of its own instance and of no other.       *)
ReapFindsOwner ==
  \A c \in children :
    {w \in watchers : w.pid = c.pid} = {[pid |-> c.pid, proc |-> c.owner]}

(* child_proc_cb stops and frees what running_state_timer points to.  While *)
(* it can still be called for an instance the pointer is NULL or designates *)
(* that instance's own run timer, though the code leaves it dangling after  *)
(* every early exit and the heap reuses the address.                        *)
NoDanglingTimer ==
  \A i \in Procs : ChildrenOf(i) # {} =>
    /\ PointedTo(i) = TimersOf(i, "run")
    /\ PointedTo(i) = {} => timerPtr[i] = NULL

(* An instance reported as starting or running has a child that was not     *)
(* reaped, unless fork failed: no timer outlives the exit it should yield   *)
(* to.                                                                      *)
UpIsBacked ==
  \A i \in Procs :
    proc[i].state \in {"starting", "running"} /\ proc[i].pid # ForkFailed
      => \E c \in ChildrenOf(i) : c.pid = proc[i].pid

(* The reply "process wasn't running" to a restart request is never given   *)
(* for an instance that has a child.                                        *)
NotRunningReplyIsTrue ==
  \A i \in Listed : pn_proc_signal(i) = "not running" => ChildrenOf(i) = {}

(* The flap count counts exits that beat the run timer, and nothing else:   *)
(* it grows only when an exit cancels the timer, it shrinks only when the   *)
(* timer fires.                                                             *)
FlapsAreShortRuns ==
  [][\A i \in Procs :
       LET cancelled == TimersOf(i, "run") # {} /\ TimersOf(i, "run")' = {}
       IN /\ proc'[i].flap_count > proc[i].flap_count
               <=> (cancelled /\ proc'[i].state = "exited")
          /\ proc'[i].flap_count < proc[i].flap_count
               => (cancelled /\ proc'[i].state = "running")]_vars

(* A restart request terminates a child of an instance it does not name in  *)
(* one case only: a named instance waits for its restart, and the pid its   *)
(* record still holds was given to that child.                              *)
RestartStaysInside ==
  [][\A T \in RestartTargets : api_request_restart(T) =>
       \A c \in children \ children' :
         \/ c.owner \in T
         \/ \E i \in T : proc[i].state = "exited" /\ proc[i].pid = c.pid]_vars

(* Every dead child is reaped and its instance started again.               *)
DeathLeadsToRestart ==
  \A i \in Procs :
    (\E c \in ChildrenOf(i) : c.st = "zombie") ~>
      (proc[i].state = "starting" /\ \E c \in ChildrenOf(i) : c.st # "zombie")

(* A start is always settled: it is declared running, or it exits.          *)
StartIsSettled ==
  \A i \in Procs : proc[i].state = "starting" ~> proc[i].state \in {"running", "exited"}

-----------------------------------------------------------------------------
(* The abstract specification, and this one as an implementation of it.     *)

PhaseOf(p) == IF p.state = "zero" THEN "idle" ELSE p.state

ChildState(i) ==
  IF \E c \in ChildrenOf(i) : c.st = "zombie" THEN "dead"
  ELSE IF ChildrenOf(i) # {} THEN "alive" ELSE "none"

B == INSTANCE Babysitter WITH
       Instances <- Procs, LaunchMayFail <- ForkMayFail,
       phase <- [i \in Procs |-> PhaseOf(proc[i])],
       child <- [i \in Procs |-> ChildState(i)]

(* Every step of the daemon and of its children is a step of Babysitter for *)
(* one instance, or changes nothing there.                                  *)
ImplementsBabysitter == B!Spec

L == INSTANCE Lifecycle WITH
       Instances <- Procs, proc <- [i \in Procs |-> [proc[i] EXCEPT !.pid = NoPid]]

(* Whatever timers and watchers do to each other, a record only ever moves  *)
(* as Lifecycle lets it, the module on which EventStream builds.            *)
ImplementsLifecycle == L!Spec

-----------------------------------------------------------------------------
(* The inductive invariant.  The properties above speak of one instance at  *)
(* a time; what keeps them is how the five tables refer to each other.      *)

\* "new" and "backoff" are passed through inside a step, never rested in.
RestStates == {"zero", "starting", "running", "exited"}

\* The kernel's children and the records that name them.
ChildrenMatchRecords ==
  /\ \A c \in children : /\ proc[c.owner].pid = c.pid
                         /\ proc[c.owner].state \in {"starting", "running"}
  /\ \A c, d \in children : c.pid = d.pid => c = d

\* Watchers and children correspond; watchers of a failed fork never match.
WatchersMatchChildren ==
  /\ \A c \in children : [pid |-> c.pid, proc |-> c.owner] \in watchers
  /\ \A w \in watchers : w.pid = ForkFailed \/
       \E c \in children : c.pid = w.pid /\ c.owner = w.proc

\* At most one timer for an instance, of the kind its state calls for.
TimersMatchStates ==
  /\ \A t \in timers :
       IF t.kind = "run"
       THEN proc[t.proc].state = "starting" /\ timerPtr[t.proc] = t.at
       ELSE proc[t.proc].state = "exited"
  /\ \A t, u \in timers : t.at = u.at \/ t.proc = u.proc => t = u
  /\ \A i \in Procs :
       /\ proc[i].state = "starting" => TimersOf(i, "run") # {}
       /\ proc[i].state = "exited"   => TimersOf(i, "restart") # {}
       /\ proc[i].state = "running"  => timerPtr[i] = NULL

(* The tables of the daemon and of the kernel agree with each other between *)
(* any two callbacks.                                                       *)
IInv ==
  /\ TypeOK
  /\ \A i \in Procs : proc[i].state \in RestStates
  /\ ChildrenMatchRecords
  /\ WatchersMatchChildren
  /\ TimersMatchStates
  /\ UpIsBacked

-----------------------------------------------------------------------------
(* Statements of the repository that the code does not keep.                *)

(* program.h: flap_max "controls how many flaps are permitted before the    *)
(* state changes to BACKOFF", so no instance rests in the ordinary "exited" *)
(* after more flaps than that.                                              *)
FlapsBackOff ==
  \A i \in Procs : proc[i].state = "exited" => proc[i].flap_count <= FlapMax
=============================================================================
