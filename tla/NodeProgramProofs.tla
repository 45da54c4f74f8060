------------------------- MODULE NodeProgramProofs -------------------------
(***************************************************************************)
(* Proofs about NodeProgram for any numbers of programs, processes and     *)
(* timers.  The invariants of the run are inductive when taken together:   *)
(* OneTimer needs StateIsTrue to know that a program with a child has no   *)
(* timer, and what the requests achieve follows from both.                 *)
(***************************************************************************)
EXTENDS NodeProgram, TLAPS

Inv == TypeOK /\ OwnerIsParent /\ OneTimer /\ StateIsTrue /\ StopIsObeyed /\ UpIsObeyed

(* A new handle is neither armed nor the one last set, when the program has *)
(* no timer.                                                                *)
LEMMA NewHandleIsNew ==
  ASSUME NEW p \in Programs, TypeOK, armed[p] = {}
  PROVE  NewHandle(p) \in Handles
<1>1. PICK h \in Handles : h # start_timer[p]
  BY HandleAssumption
<1>2. h \notin armed[p] \cup {start_timer[p]}
  BY <1>1
<1> QED
  BY <1>2 DEF NewHandle

LEMMA InitInv == Init => Inv
  BY NullAssumption
  DEF Init, Inv, TypeOK, OwnerIsParent, OneTimer, StateIsTrue, StopIsObeyed, UpIsObeyed,
      States, Requests

LEMMA ParseConfigInv == ASSUME Inv, ParseConfig PROVE Inv'
<1> USE NullAssumption DEF Inv
<1> PICK xs \in [Programs -> Pids] :
      /\ \A p, q \in Programs : xs[p] = xs[q] => p = q
      /\ child' = xs
      /\ owner' = [x \in Pids |-> IF \E p \in Programs : xs[p] = x
                                  THEN CHOOSE p \in Programs : xs[p] = x ELSE NULL]
      /\ alive' = {xs[p] : p \in Programs}
  BY DEF ParseConfig
<1>1. /\ \A p \in Programs : state[p] = "new" /\ state'[p] = "started"
      /\ state' \in [Programs -> States]
      /\ UNCHANGED <<start_timer, armed, termed, asked>>
  BY DEF ParseConfig, States
<1>2. \A p \in Programs : child[p] = NULL /\ armed[p] = {}
  BY <1>1 DEF StateIsTrue
<1>3. \A x \in Pids : owner[x] = NULL
  BY <1>2 DEF TypeOK, OwnerIsParent
<1>4. termed = {}
  BY <1>3 DEF TypeOK
<1>5. \A p \in Programs : owner'[xs[p]] = p
  OBVIOUS
<1>6. \A x \in Pids : owner'[x] \in Programs \cup {NULL}
  OBVIOUS
<1>7. \A x \in Pids, p \in Programs : owner'[x] = p => xs[p] = x
  OBVIOUS
<1>8. TypeOK'
  <2>1. alive' \subseteq {x \in Pids : owner'[x] # NULL}
    BY <1>5
  <2> QED
    BY <1>1, <1>4, <1>6, <2>1 DEF TypeOK
<1>9. OwnerIsParent'
  BY <1>5, <1>7 DEF OwnerIsParent
<1>10. OneTimer' /\ StateIsTrue'
  BY <1>1, <1>2 DEF OneTimer, StateIsTrue
<1>11. StopIsObeyed' /\ UpIsObeyed'
  BY <1>1, <1>2 DEF StopIsObeyed, UpIsObeyed
<1> QED
  BY <1>8, <1>9, <1>10, <1>11

(* start() by whoever invokes it: the program has a child afterwards, and   *)
(* its timer is gone unless it had a child before.                          *)
LEMMA StartInv ==
  ASSUME Inv, NEW p \in Programs, NEW live \in SUBSET armed[p], start(p, live),
         UNCHANGED start_timer, termed' = termed
  PROVE  /\ state' \in [Programs -> States]
         /\ child' \in [Programs -> Pids \cup {NULL}]
         /\ armed' \in [Programs -> SUBSET Handles]
         /\ owner' \in [Pids -> Programs \cup {NULL}]
         /\ alive' \subseteq {x \in Pids : owner'[x] # NULL}
         /\ termed' \subseteq alive'
         /\ OwnerIsParent'
         /\ OneTimer'
         /\ StateIsTrue'
         /\ child'[p] # NULL /\ armed'[p] = {}
         /\ state'[p] = IF child[p] # NULL THEN state[p] ELSE "started"
         /\ \A q \in Programs \ {p} : /\ state'[q] = state[q]
                                      /\ child'[q] = child[q]
                                      /\ armed'[q] = armed[q]
<1> USE NullAssumption DEF Inv
<1>1. CASE child[p] # NULL
  <2>1. armed[p] = {} /\ live = armed[p]
    BY <1>1 DEF OneTimer
  <2>2. armed' = [armed EXCEPT ![p] = live]
    BY <1>1 DEF start
  <2>3. armed' = armed
    BY <2>1, <2>2 DEF TypeOK
  <2>4. UNCHANGED <<state, child, owner, alive>>
    BY <1>1 DEF start
  <2> QED
    BY <1>1, <2>1, <2>3, <2>4 DEF TypeOK, OwnerIsParent, OneTimer, StateIsTrue
<1>2. CASE child[p] = NULL
  <2>1. armed' = [armed EXCEPT ![p] = {}]
    BY <1>2 DEF start, TypeOK, OneTimer
  <2>2. state' = [state EXCEPT ![p] = "started"]
    BY <1>2 DEF start
  <2> PICK x \in {y \in Pids : owner[y] = NULL} :
             /\ child' = [child EXCEPT ![p] = x]
             /\ owner' = [owner EXCEPT ![x] = p]
             /\ alive' = alive \cup {x}
    BY <1>2 DEF start, spawn
  <2>3. /\ state' \in [Programs -> States]
        /\ child' \in [Programs -> Pids \cup {NULL}]
        /\ armed' \in [Programs -> SUBSET Handles]
        /\ owner' \in [Pids -> Programs \cup {NULL}]
        /\ alive' \subseteq {y \in Pids : owner'[y] # NULL}
        /\ termed' \subseteq alive'
    BY <2>1, <2>2 DEF TypeOK, States
  <2>4. OwnerIsParent'
    BY <1>2 DEF TypeOK, OwnerIsParent
  <2>5. OneTimer'
    BY <2>1 DEF TypeOK, OneTimer
  <2>6. StateIsTrue'
    BY <2>1, <2>2 DEF TypeOK, StateIsTrue
  <2> QED
    BY <1>2, <2>1, <2>2, <2>3, <2>4, <2>5, <2>6 DEF TypeOK
<1> QED
  BY <1>1, <1>2

LEMMA RequestInv ==
  ASSUME Inv, NEW p \in Programs, NEW r \in Requests, Request(p, r)
  PROVE  Inv'
<1> USE NullAssumption DEF Inv
<1>1. /\ asked' = [asked EXCEPT ![p] = [request |-> r, when |-> state[p]]]
      /\ start_timer' = start_timer /\ state[p] # "new"
  BY DEF Request
<1>2. asked' \in [Programs -> [request : Requests \cup {"none"}, when : States]]
  BY <1>1 DEF TypeOK
<1>3. /\ asked'[p].request = r /\ asked'[p].when = state[p]
      /\ \A q \in Programs \ {p} : asked'[q] = asked[q]
  BY <1>1 DEF TypeOK
<1>4. CASE \/ r = "start"
           \/ r = "restart" /\ child[p] = NULL
  <2>1. start(p, armed[p]) /\ termed' = termed
    BY <1>4 DEF Request, restart
  <2>2. /\ TypeOK' /\ OwnerIsParent' /\ OneTimer' /\ StateIsTrue'
        /\ child'[p] # NULL
        /\ state'[p] = IF child[p] # NULL THEN state[p] ELSE "started"
        /\ \A q \in Programs \ {p} : /\ state'[q] = state[q]
                                     /\ child'[q] = child[q]
                                     /\ armed'[q] = armed[q]
    BY <1>1, <1>2, <2>1, StartInv DEF TypeOK
  <2>3. StopIsObeyed'
    BY <1>3, <1>4, <2>2 DEF StopIsObeyed
  <2>4. UpIsObeyed'
    BY <1>3, <1>4, <2>2 DEF UpIsObeyed, StateIsTrue
  <2> QED
    BY <2>2, <2>3, <2>4
<1>5. CASE r = "stop"
  <2>1. /\ signal(p)
        /\ state' = [state EXCEPT ![p] = IF child[p] # NULL THEN "stopping" ELSE "stopped"]
        /\ armed' = [armed EXCEPT ![p] = @ \ {start_timer[p]}]
        /\ UNCHANGED <<child, owner, alive>>
    BY <1>5 DEF Request, stop
  <2>2. armed' = [armed EXCEPT ![p] = {}]
    BY <2>1 DEF OneTimer, TypeOK
  <2>3. TypeOK'
    BY <1>1, <1>2, <2>1, <2>2 DEF TypeOK, signal, States
  <2>4. OwnerIsParent' /\ OneTimer'
    BY <1>1, <2>1, <2>2 DEF TypeOK, OwnerIsParent, OneTimer
  <2>5. StateIsTrue'
    BY <2>1, <2>2 DEF TypeOK, StateIsTrue
  <2>6. StopIsObeyed' /\ UpIsObeyed'
    BY <1>3, <1>5, <2>1, <2>2 DEF TypeOK, StopIsObeyed, UpIsObeyed
  <2> QED
    BY <2>3, <2>4, <2>5, <2>6
<1>6. CASE r = "restart" /\ child[p] # NULL
  <2>1. /\ signal(p)
        /\ state' = [state EXCEPT ![p] = "restarting"]
        /\ UNCHANGED <<child, armed, owner, alive>>
    BY <1>6 DEF Request, restart
  <2>2. TypeOK'
    BY <1>1, <1>2, <2>1 DEF TypeOK, signal, States
  <2>3. OwnerIsParent' /\ OneTimer'
    BY <1>1, <2>1 DEF OwnerIsParent, OneTimer
  <2>4. StateIsTrue'
    BY <1>6, <2>1 DEF TypeOK, StateIsTrue, OneTimer
  <2>5. StopIsObeyed' /\ UpIsObeyed'
    BY <1>3, <1>6, <2>1 DEF TypeOK, StopIsObeyed, UpIsObeyed
  <2> QED
    BY <2>2, <2>3, <2>4, <2>5
<1> QED
  BY <1>4, <1>5, <1>6 DEF Requests

LEMMA TimerFiresInv ==
  ASSUME Inv, NEW p \in Programs, NEW h \in Handles, TimerFires(p, h)
  PROVE  Inv'
<1> USE NullAssumption DEF Inv
<1>1. /\ h \in armed[p] /\ start(p, armed[p] \ {h})
      /\ UNCHANGED <<start_timer, termed, asked>>
  BY DEF TimerFires
<1>2. child[p] = NULL /\ state[p] = "died/restarting"
  BY <1>1 DEF OneTimer, StateIsTrue
<1>3. /\ TypeOK' /\ OwnerIsParent' /\ OneTimer' /\ StateIsTrue'
      /\ child'[p] # NULL /\ state'[p] = "started"
      /\ \A q \in Programs \ {p} : /\ state'[q] = state[q]
                                   /\ child'[q] = child[q]
                                   /\ armed'[q] = armed[q]
  BY <1>1, <1>2, StartInv DEF TypeOK
<1>4. StopIsObeyed' /\ UpIsObeyed'
  BY <1>1, <1>2, <1>3 DEF StopIsObeyed, UpIsObeyed
<1> QED
  BY <1>3, <1>4

LEMMA ExitEventInv == ASSUME Inv, NEW x \in Pids, ExitEvent(x) PROVE Inv'
<1> USE NullAssumption DEF Inv
<1> DEFINE p == owner[x]
<1>1. /\ p \in Programs /\ x \notin alive /\ child[p] = x /\ armed[p] = {}
      /\ state[p] \in {"started", "stopping", "restarting"}
  BY DEF ExitEvent, TypeOK, OwnerIsParent, OneTimer, StateIsTrue
<1>2. /\ owner' = [owner EXCEPT ![x] = NULL]
      /\ child' = [child EXCEPT ![p] = NULL]
      /\ UNCHANGED <<alive, termed, asked>>
  BY DEF ExitEvent, exited
<1>3. OwnerIsParent'
  BY <1>1, <1>2 DEF TypeOK, OwnerIsParent
<1>4. alive \subseteq {y \in Pids : owner'[y] # NULL}
  BY <1>1, <1>2 DEF TypeOK
<1>5. CASE state[p] = "stopping"
  <2>1. state' = [state EXCEPT ![p] = "stopped"] /\ UNCHANGED <<start_timer, armed>>
    BY <1>5 DEF ExitEvent, exited
  <2>2. TypeOK'
    BY <1>1, <1>2, <1>4, <2>1 DEF TypeOK, States
  <2>3. OneTimer' /\ StateIsTrue'
    BY <1>1, <1>2, <2>1 DEF TypeOK, OneTimer, StateIsTrue
  <2>4. StopIsObeyed' /\ UpIsObeyed'
    BY <1>1, <1>2, <1>5, <2>1 DEF TypeOK, StopIsObeyed, UpIsObeyed
  <2> QED
    BY <1>3, <2>2, <2>3, <2>4
<1>6. CASE state[p] # "stopping"
  <2> DEFINE h == NewHandle(p)
  <2>1. h \in Handles
    BY <1>1, NewHandleIsNew
  <2> HIDE DEF h
  <2>2. /\ state' = [state EXCEPT ![p] = "died/restarting"]
        /\ start_timer' = [start_timer EXCEPT ![p] = h]
        /\ armed' = [armed EXCEPT ![p] = @ \cup {h}]
    BY <1>6 DEF ExitEvent, exited, h
  <2>3. armed' = [armed EXCEPT ![p] = {h}]
    BY <1>1, <2>2 DEF TypeOK
  <2>4. TypeOK'
    BY <1>1, <1>2, <1>4, <2>1, <2>2, <2>3 DEF TypeOK, States
  <2>5. OneTimer' /\ StateIsTrue'
    BY <1>1, <1>2, <2>2, <2>3 DEF TypeOK, OneTimer, StateIsTrue
  <2>6. StopIsObeyed' /\ UpIsObeyed'
    BY <1>1, <1>2, <1>6, <2>2, <2>3 DEF TypeOK, StopIsObeyed, UpIsObeyed
  <2> QED
    BY <1>3, <2>4, <2>5, <2>6
<1> QED
  BY <1>5, <1>6

LEMMA ProcessEndsInv == ASSUME Inv, NEW x \in Pids, ProcessEnds(x) PROVE Inv'
  BY DEF Inv, ProcessEnds, TypeOK, OwnerIsParent, OneTimer, StateIsTrue, StopIsObeyed, UpIsObeyed

LEMMA ShutdownInv == ASSUME Inv, Shutdown PROVE Inv'
<1> USE NullAssumption DEF Inv, Shutdown
<1>1. \A p \in Programs : armed'[p] = {}
  BY DEF TypeOK, OneTimer
<1>2. armed' \in [Programs -> SUBSET Handles]
  BY DEF TypeOK
<1>3. TypeOK'
  BY <1>2 DEF TypeOK, States, Requests
<1>4. OwnerIsParent' /\ OneTimer'
  BY <1>1 DEF OwnerIsParent, OneTimer
<1>5. StateIsTrue'
  BY <1>1 DEF StateIsTrue
<1>6. StopIsObeyed' /\ UpIsObeyed'
  BY DEF StopIsObeyed, UpIsObeyed
<1> QED
  BY <1>3, <1>4, <1>5, <1>6

-----------------------------------------------------------------------------
(* The variables, the pages and the requests agree in every reachable       *)
(* state.                                                                   *)
THEOREM NodeInvariance == Spec => []Inv
<1>1. Inv /\ [Next]_vars => Inv'
  <2> SUFFICES ASSUME Inv, [Next]_vars PROVE Inv'
    OBVIOUS
  <2>1. CASE UNCHANGED vars
    BY <2>1 DEF vars, Inv, TypeOK, OwnerIsParent, OneTimer, StateIsTrue, StopIsObeyed, UpIsObeyed
  <2> QED
    BY <2>1, ParseConfigInv, RequestInv, TimerFiresInv, ExitEventInv, ProcessEndsInv, ShutdownInv
    DEF Next
<1> QED
  BY InitInv, <1>1, PTL DEF Spec

(* In particular every variable keeps its type, only processes that still   *)
(* have an owner live, and only the living were sent SIGTERM.               *)
THEOREM NodeTypes == Spec => []TypeOK
  BY NodeInvariance, PTL DEF Inv

(* A program never has two children, and never loses sight of one: an exit  *)
(* event is always that of @child.                                          *)
THEOREM OneParent == Spec => []OwnerIsParent
  BY NodeInvariance, PTL DEF Inv

(* The restart timer is alone, is the one stop() cancels, and never runs    *)
(* while there is a child.                                                  *)
THEOREM OneRestartTimer == Spec => []OneTimer
  BY NodeInvariance, PTL DEF Inv

(* What is shown as the state of a program is true.                         *)
THEOREM StateShownIsTrue == Spec => []StateIsTrue
  BY NodeInvariance, PTL DEF Inv

(* After stop nothing starts a program again but a request; after restart,  *)
(* and after a start that did not find it stopping, a program has a child   *)
(* or a timer that will start one.                                          *)
THEOREM LastRequestObeyed == Spec => []LastRequestWins
  BY NodeInvariance, PTL DEF Inv, LastRequestWins
=============================================================================
