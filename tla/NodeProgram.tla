---------------------------- MODULE NodeProgram ----------------------------
(***************************************************************************)
(* The programs of the node.js version (src/node): Program keeps one child *)
(* and one restart timer (lib/program.coffee); start, stop and restart     *)
(* come from web pages in any order (controllers/program.coffee), and      *)
(* Nanny stops every program when it is told to shut down                  *)
(* (lib/nanny.coffee).                                                     *)
(*                                                                         *)
(* Handlers run to completion one after another.  A child that has ended   *)
(* is still @child until its "exit" event is handled, and a web request    *)
(* may come first.                                                         *)
(***************************************************************************)
EXTENDS Naturals, FiniteSets

CONSTANTS
  Programs,   \* nanny.programs
  Pids,       \* child processes
  Handles,    \* what setTimeout() returns
  NULL

ASSUME NullAssumption == NULL \notin Programs \cup Pids \cup Handles

\* setTimeout() always finds a handle that is not the last one.
ASSUME HandleAssumption == Handles # {} /\ \A h \in Handles : Handles # {h}

States == {"new", "started", "stopping", "stopped", "restarting", "died/restarting"}

Requests == {"start", "stop", "restart"}

VARIABLES
  state,        \* @_state
  child,        \* @child: the pid of the object, or NULL when undefined
  start_timer,  \* @start_timer, never set back to undefined
  armed,        \* timers that will fire: the handles of every program
  owner,        \* whose "exit" handler a process will invoke, or NULL
  alive,        \* processes that have not ended
  termed,       \* processes that were sent SIGTERM
  asked         \* history: the last request and the state it came in

vars == <<state, child, start_timer, armed, owner, alive, termed, asked>>

Init ==
  /\ state = [p \in Programs |-> "new"]
  /\ child = [p \in Programs |-> NULL]
  /\ start_timer = [p \in Programs |-> NULL]
  /\ armed = [p \in Programs |-> {}]
  /\ owner = [x \in Pids |-> NULL]
  /\ alive = {}
  /\ termed = {}
  /\ asked = [p \in Programs |-> [request |-> "none", when |-> "new"]]

-----------------------------------------------------------------------------
(* child_process.spawn() and the "exit" handler.                            *)
spawn(p) ==
  \E x \in {y \in Pids : owner[y] = NULL} :
    /\ child' = [child EXCEPT ![p] = x]
    /\ owner' = [owner EXCEPT ![x] = p]
    /\ alive' = alive \cup {x}

(* Mutants: the restart timer is left armed; the child is not looked at.    *)
start_LeavesTimer(p, live) ==
  /\ armed' = [armed EXCEPT ![p] = live]
  /\ IF child[p] # NULL THEN UNCHANGED <<state, child, owner, alive>>
     ELSE /\ spawn(p)
          /\ state' = [state EXCEPT ![p] = "started"]

start_Again(p, live) ==
  /\ armed' = [armed EXCEPT ![p] = live \ {start_timer[p]}]
  /\ spawn(p)
  /\ state' = [state EXCEPT ![p] = "started"]

(* Nothing while there is a child, whatever its state.  "live" are the      *)
(* timers of the program that are armed.                                    *)
start(p, live) ==
  IF child[p] # NULL
  THEN /\ armed' = [armed EXCEPT ![p] = live]
       /\ UNCHANGED <<state, child, owner, alive>>
  ELSE /\ armed' = [armed EXCEPT ![p] = live \ {start_timer[p]}]
       /\ spawn(p)
       /\ state' = [state EXCEPT ![p] = "started"]

(* Mutant: the child is not looked at.                                      *)
signal_Unguarded(p) == termed' = termed \cup {child[p]}

signal(p) == termed' = IF child[p] = NULL THEN termed ELSE termed \cup ({child[p]} \cap alive)

(* Mutants: the restart timer is left armed; the signal is left out.        *)
stop_LeavesTimer(p) ==
  /\ signal(p)
  /\ state' = [state EXCEPT ![p] = IF child[p] # NULL THEN "stopping" ELSE "stopped"]
  /\ UNCHANGED <<child, armed, owner, alive>>

stop_Quietly(p) ==
  /\ state' = [state EXCEPT ![p] = IF child[p] # NULL THEN "stopping" ELSE "stopped"]
  /\ armed' = [armed EXCEPT ![p] = @ \ {start_timer[p]}]
  /\ UNCHANGED <<child, owner, alive, termed>>

stop(p) ==
  /\ signal(p)
  /\ state' = [state EXCEPT ![p] = IF child[p] # NULL THEN "stopping" ELSE "stopped"]
  /\ armed' = [armed EXCEPT ![p] = @ \ {start_timer[p]}]
  /\ UNCHANGED <<child, owner, alive>>

(* Mutant: a program that is being stopped stays so.                        *)
restart_KeepsStopping(p) ==
  IF child[p] # NULL
  THEN /\ signal(p)
       /\ state' = [state EXCEPT ![p] = IF @ = "stopping" THEN @ ELSE "restarting"]
       /\ UNCHANGED <<child, armed, owner, alive>>
  ELSE start(p, armed[p]) /\ UNCHANGED termed

restart(p) ==
  IF child[p] # NULL
  THEN /\ signal(p)
       /\ state' = [state EXCEPT ![p] = "restarting"]
       /\ UNCHANGED <<child, armed, owner, alive>>
  ELSE start(p, armed[p]) /\ UNCHANGED termed

(* A handle that nothing refers to.                                         *)
NewHandle(p) == CHOOSE h \in Handles : h \notin armed[p] \cup {start_timer[p]}

(* Mutants: the child is kept; a program that is stopped is restarted; the  *)
(* restart timer is not set.                                                *)
exited_KeepsChild(p) ==
  IF state[p] # "stopping"
  THEN /\ state' = [state EXCEPT ![p] = "died/restarting"]
       /\ start_timer' = [start_timer EXCEPT ![p] = NewHandle(p)]
       /\ armed' = [armed EXCEPT ![p] = @ \cup {NewHandle(p)}]
       /\ UNCHANGED child
  ELSE /\ state' = [state EXCEPT ![p] = "stopped"]
       /\ child' = [child EXCEPT ![p] = NULL]
       /\ UNCHANGED <<start_timer, armed>>

exited_Restarts(p) ==
  /\ state' = [state EXCEPT ![p] = "died/restarting"]
  /\ start_timer' = [start_timer EXCEPT ![p] = NewHandle(p)]
  /\ armed' = [armed EXCEPT ![p] = @ \cup {NewHandle(p)}]
  /\ child' = [child EXCEPT ![p] = NULL]

exited_NoTimer(p) ==
  /\ state' = [state EXCEPT ![p] = IF @ # "stopping" THEN "died/restarting" ELSE "stopped"]
  /\ child' = [child EXCEPT ![p] = NULL]
  /\ UNCHANGED <<start_timer, armed>>

(* Started again after a second, unless it was told to stop.                *)
exited(p) ==
  /\ IF state[p] # "stopping"
     THEN /\ state' = [state EXCEPT ![p] = "died/restarting"]
          /\ start_timer' = [start_timer EXCEPT ![p] = NewHandle(p)]
          /\ armed' = [armed EXCEPT ![p] = @ \cup {NewHandle(p)}]
     ELSE /\ state' = [state EXCEPT ![p] = "stopped"]
          /\ UNCHANGED <<start_timer, armed>>
  /\ child' = [child EXCEPT ![p] = NULL]

-----------------------------------------------------------------------------
(* What the event loop runs.                                                *)

(* Nanny.parse_config starts every program it makes, before any event.      *)
ParseConfig ==
  /\ \A p \in Programs : state[p] = "new"
  /\ \E xs \in {f \in [Programs -> Pids] : \A p, q \in Programs : f[p] = f[q] => p = q} :
       /\ child' = xs
       /\ owner' = [x \in Pids |-> IF \E p \in Programs : xs[p] = x
                                   THEN CHOOSE p \in Programs : xs[p] = x ELSE NULL]
       /\ alive' = {xs[p] : p \in Programs}
  /\ state' = [p \in Programs |-> "started"]
  /\ UNCHANGED <<start_timer, armed, termed, asked>>

(* A page of ProgramController.                                             *)
Request(p, r) ==
  /\ state[p] # "new"
  /\ \/ r = "start" /\ start(p, armed[p]) /\ UNCHANGED termed
     \/ r = "stop" /\ stop(p)
     \/ r = "restart" /\ restart(p)
  /\ asked' = [asked EXCEPT ![p] = [request |-> r, when |-> state[p]]]
  /\ UNCHANGED start_timer

(* SIGINT or SIGTERM: stop() of every program in turn.                      *)
Shutdown ==
  /\ \A p \in Programs : state[p] # "new"
  /\ termed' = termed \cup ({child[p] : p \in Programs} \cap alive)
  /\ state' = [p \in Programs |-> IF child[p] # NULL THEN "stopping" ELSE "stopped"]
  /\ armed' = [p \in Programs |-> armed[p] \ {start_timer[p]}]
  /\ asked' = [p \in Programs |-> [request |-> "stop", when |-> state[p]]]
  /\ UNCHANGED <<child, start_timer, owner, alive>>

TimerFires(p, h) ==
  /\ h \in armed[p]
  /\ start(p, armed[p] \ {h})
  /\ UNCHANGED <<start_timer, termed, asked>>

(* The "exit" event of a process.                                           *)
ExitEvent(x) ==
  /\ owner[x] # NULL /\ x \notin alive
  /\ exited(owner[x])
  /\ owner' = [owner EXCEPT ![x] = NULL]
  /\ UNCHANGED <<alive, termed, asked>>

(* External: a process ends, of itself or because it was told to.           *)
ProcessEnds(x) ==
  /\ x \in alive
  /\ alive' = alive \ {x}
  /\ termed' = termed \ {x}
  /\ UNCHANGED <<state, child, start_timer, armed, owner, asked>>

Next ==
  \/ ParseConfig
  \/ \E p \in Programs, r \in Requests : Request(p, r)
  \/ \E p \in Programs, h \in Handles : TimerFires(p, h)
  \/ \E x \in Pids : ExitEvent(x) \/ ProcessEnds(x)
  \/ Shutdown

Spec == Init /\ [][Next]_vars

(* The event loop runs, and a process that was sent SIGTERM ends.           *)
Fairness ==
  /\ WF_vars(ParseConfig)
  /\ \A p \in Programs, h \in Handles : WF_vars(TimerFires(p, h))
  /\ \A x \in Pids : WF_vars(ExitEvent(x))
  /\ \A x \in Pids : WF_vars(x \in termed /\ ProcessEnds(x))

FairSpec == Spec /\ Fairness

-----------------------------------------------------------------------------
TypeOK ==
  /\ state \in [Programs -> States]
  /\ child \in [Programs -> Pids \cup {NULL}]
  /\ start_timer \in [Programs -> Handles \cup {NULL}]
  /\ armed \in [Programs -> SUBSET Handles]
  /\ owner \in [Pids -> Programs \cup {NULL}]
  /\ alive \subseteq {x \in Pids : owner[x] # NULL}
  /\ termed \subseteq alive
  /\ asked \in [Programs -> [request : Requests \cup {"none"}, when : States]]

(* A process whose exit was not handled yet is the child of its program:    *)
(* "exit" never finds a younger child in @child, and no process runs that   *)
(* stop() cannot reach.                                                     *)
OwnerIsParent ==
  \A p \in Programs, x \in Pids : owner[x] = p <=> child[p] = x

(* start_timer is never set back, so its value says nothing of the timer.   *)
(* Still the only timer that can fire is the last one set, and only while   *)
(* there is no child.                                                       *)
OneTimer ==
  \A p \in Programs :
    armed[p] = {} \/ (armed[p] = {start_timer[p]} /\ child[p] = NULL)

(* What the pages and the events call the state is what the program is in:  *)
(* three states mean a child, one means a timer.                            *)
StateIsTrue ==
  \A p \in Programs :
    /\ state[p] \in {"started", "stopping", "restarting"} <=> child[p] # NULL
    /\ state[p] = "died/restarting" <=> armed[p] # {}

\* After stop nothing starts the program again,
StopIsObeyed ==
  \A p \in Programs :
    asked[p].request = "stop" => IF child[p] = NULL THEN state[p] = "stopped"
                                 ELSE state[p] = "stopping"

\* and after start or restart it has a child or will have one.
UpIsObeyed ==
  \A p \in Programs :
    asked[p].request = "restart"
      \/ (asked[p].request = "start" /\ asked[p].when # "stopping") =>
    state[p] \notin {"stopping", "stopped"} /\ (child[p] # NULL \/ armed[p] # {})

(* A request that came while the child was ending, or the restart timer     *)
(* running, is obeyed all the same.  A start that finds the program         *)
(* stopping is the exception: it is lost, and the program ends stopped.     *)
LastRequestWins == StopIsObeyed /\ UpIsObeyed

(* If nothing but stop is asked for any more, as after Nanny.shutdown, the  *)
(* program ends and stays so.                                               *)
StopTakesEffect ==
  \A p \in Programs :
    <>[](asked[p].request = "stop") => <>[](state[p] = "stopped" /\ child[p] = NULL)

(* A child that was told to restart is replaced, unless somebody stops the  *)
(* program; one that died is started again, unless somebody stops it first. *)
ComesBack ==
  \A p \in Programs :
    /\ \A x \in Pids :
         (state[p] = "restarting" /\ child[p] = x) ~>
           (child[p] # x \/ asked[p].request = "stop")
    /\ state[p] = "died/restarting" ~> state[p] \in {"started", "stopped"}
=============================================================================
