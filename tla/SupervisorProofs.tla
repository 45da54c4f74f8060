-------------------------- MODULE SupervisorProofs --------------------------
(***************************************************************************)
(* Proofs about Supervisor, for any sets of instances, pids and addresses. *)
(* IInv is inductive; every safety invariant the runs check follows.       *)
(***************************************************************************)
EXTENDS Supervisor, ProcessStateProofs

-----------------------------------------------------------------------------
LEMMA InitIInv == Init => IInv
<1> SUFFICES ASSUME Init PROVE IInv
  OBVIOUS
<1>1. \A i \in Procs : proc[i].state = "zero"
  BY DEF Init, pn_proc_init
<1>2. TypeOK
  BY DEF Init, TypeOK, pn_proc_init, Process, ProcessStates
<1> QED
  BY <1>1, <1>2 DEF Init, IInv, RestStates, ChildrenMatchRecords,
     WatchersMatchChildren, TimersMatchStates, UpIsBacked

(* Starting an instance that rests in "zero" or "exited", all of whose      *)
(* timers the caller frees, keeps the invariant.                            *)
LEMMA StartProcess ==
  ASSUME IInv, NEW i \in Procs, NEW p \in Process, NEW freed \in SUBSET timers,
         proc[i].state \in {"zero", "exited"},
         \A t \in timers : t.proc = i <=> t \in freed,
         start_process(i, p, freed)
  PROVE  IInv'
<1> USE DEF IInv
<1>1. PICK pid \in ForkResults, a \in FreeAddrs(timers) :
        /\ proc' = [proc EXCEPT ![i] =
                      [pn_proc_move_state(p, "starting") EXCEPT !.pid = pid]]
        /\ children' = children \cup
             (IF pid = ForkFailed THEN {}
              ELSE {[pid |-> pid, owner |-> i, st |-> "alive", status |-> NULL]})
        /\ watchers' = watchers \cup {[pid |-> pid, proc |-> i]}
        /\ timers' = (timers \ freed) \cup {[at |-> a, kind |-> "run", proc |-> i]}
        /\ timerPtr' = [timerPtr EXCEPT ![i] = a]
  BY DEF start_process
<1> DEFINE new == [pid |-> pid, owner |-> i, st |-> "alive", status |-> NULL]
           wat == [pid |-> pid, proc |-> i]
           run == [at |-> a, kind |-> "run", proc |-> i]
<1>2. /\ pid \in Pids \cup {ForkFailed}
      /\ pid # ForkFailed => \A c \in children : c.pid # pid
      /\ a \in Addrs /\ \A t \in timers : t.at # a
  BY <1>1 DEF ForkResults, FreePids, FreeAddrs
<1>c. /\ \A c : c \in children' <=> c \in children \/ (c = new /\ pid # ForkFailed)
      /\ new.pid = pid /\ new.owner = i
      /\ pid # ForkFailed => new \in Child
  BY <1>1, <1>2 DEF Child
<1>w. /\ \A w : w \in watchers' <=> w \in watchers \/ w = wat
      /\ wat.pid = pid /\ wat.proc = i /\ wat \in Watcher
  BY <1>1, <1>2 DEF Watcher
<1>t. /\ \A t : t \in timers' <=> (t \in timers /\ t \notin freed) \/ t = run
      /\ run.at = a /\ run.kind = "run" /\ run.proc = i /\ run \in Timer
  BY <1>1, <1>2 DEF Timer
<1>3. /\ proc'[i] \in Process /\ proc'[i].state = "starting" /\ proc'[i].pid = pid
      /\ \A j \in Procs : j # i => proc'[j] = proc[j]
      /\ proc' \in [Procs -> Process]
  <2> DEFINE q == pn_proc_move_state(p, "starting")
             r == [q EXCEPT !.pid = pid]
  <2>1. q \in Process /\ q.state = "starting"
    BY MoveState DEF ProcessStates
  <2>2. r \in Process /\ r.state = "starting" /\ r.pid = pid
    <3> HIDE DEF q
    <3> QED
      BY <1>2, <2>1 DEF Process
  <2>3. proc' = [proc EXCEPT ![i] = r] /\ proc \in [Procs -> Process]
    BY <1>1 DEF TypeOK
  <2> HIDE DEF q, r
  <2> QED
    BY <2>2, <2>3
<1>4. \A c \in children : c.owner # i
  BY DEF ChildrenMatchRecords
<1>5. TypeOK'
  <2>1. timerPtr' \in [Procs -> Addrs \cup {NULL}]
    BY <1>1, <1>2 DEF TypeOK
  <2> HIDE DEF new, wat, run
  <2> QED
    BY <1>c, <1>w, <1>t, <1>3, <2>1 DEF TypeOK
<1> HIDE DEF new, wat, run
<1>6. \A j \in Procs : proc'[j].state \in RestStates
  BY <1>3 DEF RestStates
<1>7. ChildrenMatchRecords'
  <2>2. \A c \in children : c.owner \in Procs
    BY DEF TypeOK, Child
  <2> QED
    BY <1>2, <1>3, <1>4, <1>c, <2>2 DEF ChildrenMatchRecords
<1>8. WatchersMatchChildren'
  <2>1. \A c \in children' : [pid |-> c.pid, proc |-> c.owner] \in watchers'
    <3> SUFFICES ASSUME NEW c \in children'
                 PROVE  [pid |-> c.pid, proc |-> c.owner] \in watchers'
      OBVIOUS
    <3>1. [pid |-> new.pid, proc |-> new.owner] = wat
      BY <1>c DEF wat
    <3>2. CASE c \in children
      BY <1>w, <3>2 DEF WatchersMatchChildren
    <3>3. CASE c = new
      BY <1>w, <3>1, <3>3
    <3> QED
      BY <1>c, <3>2, <3>3
  <2>2. \A w \in watchers' : w.pid = ForkFailed \/
          \E c \in children' : c.pid = w.pid /\ c.owner = w.proc
    BY <1>c, <1>w DEF WatchersMatchChildren
  <2> QED
    BY <2>1, <2>2 DEF WatchersMatchChildren
<1>9. TimersMatchStates'
  <2>1. \A t \in timers' : t = run \/ (t \in timers /\ t.proc # i)
    BY <1>t
  <2>2. \A t \in timers : t.proc \in Procs
    BY DEF TypeOK, Timer
  <2>3. /\ \A j \in Procs : j # i => timerPtr'[j] = timerPtr[j]
        /\ timerPtr'[i] = a
    BY <1>1 DEF TypeOK
  <2>4. \A t \in timers' :
          IF t.kind = "run"
          THEN proc'[t.proc].state = "starting" /\ timerPtr'[t.proc] = t.at
          ELSE proc'[t.proc].state = "exited"
    BY <1>3, <1>t, <2>1, <2>2, <2>3 DEF TimersMatchStates
  <2>5. \A t, u \in timers' : t.at = u.at \/ t.proc = u.proc => t = u
    BY <1>2, <1>t, <2>1 DEF TimersMatchStates
  <2>6. \A j \in Procs :
          /\ proc'[j].state = "starting" => TimersOf(j, "run")' # {}
          /\ proc'[j].state = "exited"   => TimersOf(j, "restart")' # {}
          /\ proc'[j].state = "running"  => timerPtr'[j] = NULL
    <3> SUFFICES ASSUME NEW j \in Procs
                 PROVE  /\ proc'[j].state = "starting" => TimersOf(j, "run")' # {}
                        /\ proc'[j].state = "exited"   => TimersOf(j, "restart")' # {}
                        /\ proc'[j].state = "running"  => timerPtr'[j] = NULL
      OBVIOUS
    <3>1. CASE j = i
      BY <1>3, <1>t, <3>1 DEF TimersOf
    <3>2. CASE j # i
      <4>1. \A t \in timers : t.proc = j => t \in timers'
        BY <1>t, <3>2
      <4> QED
        BY <1>3, <2>3, <3>2, <4>1 DEF TimersOf, TimersMatchStates
    <3> QED
      BY <3>1, <3>2
  <2> QED
    BY <2>4, <2>5, <2>6 DEF TimersMatchStates
<1>10. UpIsBacked'
  <2> SUFFICES ASSUME NEW j \in Procs, proc'[j].state \in {"starting", "running"},
                      proc'[j].pid # ForkFailed
               PROVE  \E c \in ChildrenOf(j)' : c.pid = proc'[j].pid
    BY DEF UpIsBacked
  <2>1. CASE j = i
    BY <1>3, <1>c, <2>1 DEF ChildrenOf
  <2>2. CASE j # i
    BY <1>3, <1>c, <2>2 DEF ChildrenOf, UpIsBacked
  <2> QED
    BY <2>1, <2>2
<1> QED
  BY <1>5, <1>6, <1>7, <1>8, <1>9, <1>10

(* The run timer of an instance fires.                                      *)
LEMMA RunningTimerFires ==
  ASSUME IInv, NEW t \in timers, running_state_timer_cb(t)
  PROVE  IInv'
<1> USE DEF IInv
<1> DEFINE i == t.proc
<1>1. i \in Procs /\ t.kind = "run" /\ t \in Timer
  BY DEF running_state_timer_cb, TypeOK, Timer
<1>2. /\ proc[i].state = "starting" /\ timerPtr[i] = t.at
      /\ \A u \in timers : u.proc = i => u = t
  BY <1>1 DEF TimersMatchStates
<1>3. /\ proc' \in [Procs -> Process]
      /\ proc'[i].state = "running" /\ proc'[i].pid = proc[i].pid
      /\ \A j \in Procs : j # i => proc'[j] = proc[j]
  <2> DEFINE r == pn_proc_move_state(proc[i], "running")
  <2>1. r \in Process /\ r.state = "running" /\ r.pid = proc[i].pid
    BY <1>1, MoveState DEF TypeOK, ProcessStates
  <2>2. proc' = [proc EXCEPT ![i] = r] /\ proc \in [Procs -> Process]
    BY DEF running_state_timer_cb, TypeOK
  <2> HIDE DEF r
  <2> QED
    BY <1>1, <2>1, <2>2
<1>4. /\ timerPtr' \in [Procs -> Addrs \cup {NULL}]
      /\ timerPtr'[i] = NULL
      /\ \A j \in Procs : j # i => timerPtr'[j] = timerPtr[j]
  BY <1>1, <1>2 DEF running_state_timer_cb, TypeOK
<1>5. /\ timers' = timers \ {t}
      /\ UNCHANGED <<children, watchers>>
  BY DEF running_state_timer_cb
<1> HIDE DEF i
<1>6. TypeOK'
  BY <1>3, <1>4, <1>5 DEF TypeOK
<1>7. \A j \in Procs : proc'[j].state \in RestStates
  BY <1>3 DEF RestStates
<1>8. ChildrenMatchRecords'
  <2>1. \A c \in children : c.owner \in Procs
    BY DEF TypeOK, Child
  <2> QED
    BY <1>3, <1>5, <2>1 DEF ChildrenMatchRecords
<1>9. WatchersMatchChildren'
  BY <1>5 DEF WatchersMatchChildren
<1>10. TimersMatchStates'
  <2>1. \A u \in timers' : u \in timers /\ u.proc # i /\ u.proc \in Procs
    BY <1>2, <1>5 DEF TypeOK, Timer
  <2>2. \A j \in Procs, u \in timers : u.proc = j /\ j # i => u \in timers'
    BY <1>1, <1>5 DEF i
  <2>3. \A j \in Procs :
          /\ proc'[j].state = "starting" => TimersOf(j, "run")' # {}
          /\ proc'[j].state = "exited"   => TimersOf(j, "restart")' # {}
          /\ proc'[j].state = "running"  => timerPtr'[j] = NULL
    BY <1>3, <1>4, <2>2 DEF TimersMatchStates, TimersOf
  <2> QED
    BY <1>3, <1>4, <2>1, <2>3 DEF TimersMatchStates
<1>11. UpIsBacked'
  BY <1>2, <1>3, <1>5 DEF UpIsBacked, ChildrenOf
<1> QED
  BY <1>6, <1>7, <1>8, <1>9, <1>10, <1>11

(* A reaped child is its watcher's, and the only one of its instance.       *)
LEMMA WatchedChild ==
  ASSUME IInv, NEW w \in watchers, NEW c \in children, c.pid = w.pid
  PROVE  /\ c.owner = w.proc /\ w.proc \in Procs
         /\ \A d \in children : d.owner = w.proc => d = c
         /\ proc[w.proc].state \in {"starting", "running"}
         /\ w = [pid |-> c.pid, proc |-> c.owner]
<1> USE DEF IInv
<1>1. c.pid \in Pids /\ c.owner \in Procs /\ w \in Watcher /\ c.pid # ForkFailed
  BY PidAssumption DEF TypeOK, Child
<1>2. c.owner = w.proc
  BY <1>1 DEF WatchersMatchChildren, ChildrenMatchRecords
<1>3. w = [pid |-> w.pid, proc |-> w.proc]
  BY <1>1 DEF Watcher
<1> QED
  BY <1>1, <1>2, <1>3 DEF ChildrenMatchRecords

(* In the states of a process that has a child, running_state_timer is      *)
(* NULL or points to the instance's own run timer, its only timer.          *)
LEMMA PointerIsOwn ==
  ASSUME IInv, NEW i \in Procs, proc[i].state \in {"starting", "running"}
  PROVE  /\ PointedTo(i) = TimersOf(i, "run")
         /\ PointedTo(i) = {t \in timers : t.proc = i}
         /\ PointedTo(i) = {} => timerPtr[i] = NULL
<1> USE DEF IInv
<1>1. \A t \in timers : t.at \in Addrs /\ t.proc \in Procs /\ t.at # NULL
  BY NullAssumption DEF TypeOK, Timer
<1>2. \A t \in timers : t.proc = i => t.kind = "run" /\ timerPtr[i] = t.at
  BY <1>1 DEF TimersMatchStates, TypeOK, Timer
<1>3. \A t \in timers : t.at = timerPtr[i] => t.proc = i
  <2>1. CASE proc[i].state = "running"
    BY <1>1, <2>1 DEF TimersMatchStates
  <2>2. CASE proc[i].state = "starting"
    <3>1. PICK u \in timers : u.proc = i
      BY <2>2 DEF TimersMatchStates, TimersOf
    <3> QED
      BY <1>2, <3>1 DEF TimersMatchStates
  <2> QED
    BY <2>1, <2>2
<1>4. proc[i].state = "starting" => \E t \in timers : t.proc = i
  BY DEF TimersMatchStates, TimersOf
<1>5. proc[i].state = "running" => timerPtr[i] = NULL
  BY DEF TimersMatchStates
<1> QED
  BY <1>2, <1>3, <1>4, <1>5 DEF PointedTo, TimersOf

(* A child is reaped and its instance scheduled again.                      *)
LEMMA ChildIsReaped ==
  ASSUME IInv, NEW w \in watchers, NEW c \in children, child_proc_cb(w, c)
  PROVE  IInv'
<1> USE DEF IInv
<1> DEFINE i == w.proc
<1>1. /\ c.owner = i /\ i \in Procs
      /\ \A d \in children : d.owner = i => d = c
      /\ proc[i].state \in {"starting", "running"}
      /\ w = [pid |-> c.pid, proc |-> c.owner]
  BY WatchedChild DEF child_proc_cb
<1>2. PICK a \in FreeAddrs(timers \ PointedTo(i)) :
        timers' = (timers \ PointedTo(i))
                    \cup {[at |-> a, kind |-> "restart", proc |-> i]}
  BY DEF child_proc_cb
<1> DEFINE new == [at |-> a, kind |-> "restart", proc |-> i]
<1>3. /\ \A t : t \in timers' <=> (t \in timers /\ t.proc # i) \/ t = new
      /\ new.at = a /\ new.kind = "restart" /\ new.proc = i /\ new \in Timer
      /\ \A t \in timers : t.proc # i => t.at # a
  BY <1>1, <1>2, PointerIsOwn DEF FreeAddrs, Timer
<1>4. /\ proc' \in [Procs -> Process]
      /\ proc'[i].state = "exited"
      /\ \A j \in Procs : j # i => proc'[j] = proc[j]
  <2> DEFINE r == pn_proc_exited(proc[i], c.status)
  <2>1. c.status \in WaitStatus
    BY StatusAssumption DEF child_proc_cb, TypeOK, Child
  <2>2. r \in Process /\ r.state = "exited"
    BY <1>1, <2>1, Exited DEF TypeOK
  <2>3. proc' = [proc EXCEPT ![i] = r] /\ proc \in [Procs -> Process]
    BY DEF child_proc_cb, TypeOK
  <2> HIDE DEF r
  <2> QED
    BY <1>1, <2>2, <2>3
<1>5. /\ watchers' = watchers \ {w}
      /\ children' = children \ {c}
      /\ UNCHANGED timerPtr
  BY DEF child_proc_cb
<1> HIDE DEF i, new
<1>6. TypeOK'
  BY <1>3, <1>4, <1>5 DEF TypeOK
<1>7. \A j \in Procs : proc'[j].state \in RestStates
  BY <1>4 DEF RestStates
<1>8. ChildrenMatchRecords'
  <2>1. \A d \in children' : d \in children /\ d.owner # i /\ d.owner \in Procs
    BY <1>1, <1>5 DEF TypeOK, Child
  <2> QED
    BY <1>4, <2>1 DEF ChildrenMatchRecords
<1>9. WatchersMatchChildren'
  <2>1. \A d \in children' : [pid |-> d.pid, proc |-> d.owner] # w
    <3> SUFFICES ASSUME NEW d \in children', [pid |-> d.pid, proc |-> d.owner] = w
                 PROVE  FALSE
      OBVIOUS
    <3>1. d.owner = c.owner
      BY <1>1
    <3> QED
      BY <1>1, <1>5, <3>1
  <2>2. \A d \in children' : [pid |-> d.pid, proc |-> d.owner] \in watchers'
    BY <1>5, <2>1 DEF WatchersMatchChildren
  <2>3. \A v \in watchers' : v.pid = ForkFailed \/
          \E d \in children' : d.pid = v.pid /\ d.owner = v.proc
    <3> SUFFICES ASSUME NEW v \in watchers', v.pid # ForkFailed
                 PROVE  \E d \in children' : d.pid = v.pid /\ d.owner = v.proc
      OBVIOUS
    <3>1. PICK d \in children : d.pid = v.pid /\ d.owner = v.proc
      BY <1>5 DEF WatchersMatchChildren
    <3>2. v = [pid |-> v.pid, proc |-> v.proc]
      BY <1>5 DEF TypeOK, Watcher
    <3>3. d # c
      BY <1>1, <1>5, <3>1, <3>2
    <3> QED
      BY <1>5, <3>1, <3>3
  <2> QED
    BY <2>2, <2>3 DEF WatchersMatchChildren
<1>10. TimersMatchStates'
  <2>1. \A t \in timers : t.proc \in Procs
    BY DEF TypeOK, Timer
  <2>2. \A t \in timers' :
          IF t.kind = "run"
          THEN proc'[t.proc].state = "starting" /\ timerPtr'[t.proc] = t.at
          ELSE proc'[t.proc].state = "exited"
    BY <1>3, <1>4, <1>5, <2>1 DEF TimersMatchStates
  <2>3. \A t, u \in timers' : t.at = u.at \/ t.proc = u.proc => t = u
    BY <1>3 DEF TimersMatchStates
  <2>4. \A j \in Procs :
          /\ proc'[j].state = "starting" => TimersOf(j, "run")' # {}
          /\ proc'[j].state = "exited"   => TimersOf(j, "restart")' # {}
          /\ proc'[j].state = "running"  => timerPtr'[j] = NULL
    <3> SUFFICES ASSUME NEW j \in Procs
                 PROVE  /\ proc'[j].state = "starting" => TimersOf(j, "run")' # {}
                        /\ proc'[j].state = "exited"   => TimersOf(j, "restart")' # {}
                        /\ proc'[j].state = "running"  => timerPtr'[j] = NULL
      OBVIOUS
    <3>1. CASE j = i
      BY <1>3, <1>4, <3>1 DEF TimersOf
    <3>2. CASE j # i
      <4>1. \A t \in timers : t.proc = j => t \in timers'
        BY <1>3, <3>2
      <4> QED
        BY <1>4, <1>5, <3>2, <4>1 DEF TimersOf, TimersMatchStates
    <3> QED
      BY <3>1, <3>2
  <2> QED
    BY <2>2, <2>3, <2>4 DEF TimersMatchStates
<1>11. UpIsBacked'
  <2> SUFFICES ASSUME NEW j \in Procs, proc'[j].state \in {"starting", "running"},
                      proc'[j].pid # ForkFailed
               PROVE  \E d \in ChildrenOf(j)' : d.pid = proc'[j].pid
    BY DEF UpIsBacked
  <2>1. j # i
    BY <1>4
  <2> QED
    BY <1>1, <1>4, <1>5, <2>1 DEF ChildrenOf, UpIsBacked
<1> QED
  BY <1>6, <1>7, <1>8, <1>9, <1>10, <1>11

(* A step that changes nothing but how far some children are on their way   *)
(* to their end.                                                            *)
ChildrenAge ==
  /\ UNCHANGED <<proc, watchers, timers, timerPtr>>
  /\ children' \subseteq Child
  /\ \A c \in children : \E d \in children' : d.pid = c.pid /\ d.owner = c.owner
  /\ \A d \in children' : \E c \in children : d.pid = c.pid /\ d.owner = c.owner
  /\ \A d, e \in children' : d.pid = e.pid => d = e

LEMMA AgingKeepsIInv ==
  ASSUME IInv, ChildrenAge
  PROVE  IInv'
<1> USE DEF IInv, ChildrenAge
<1>1. TypeOK'
  BY DEF TypeOK
<1>2. \A j \in Procs : proc'[j].state \in RestStates
  OBVIOUS
<1>3. ChildrenMatchRecords'
  BY DEF ChildrenMatchRecords
<1>4. WatchersMatchChildren'
  <2>1. \A d \in children' : [pid |-> d.pid, proc |-> d.owner] \in watchers'
    <3> SUFFICES ASSUME NEW d \in children'
                 PROVE  [pid |-> d.pid, proc |-> d.owner] \in watchers'
      OBVIOUS
    <3>1. PICK c \in children : d.pid = c.pid /\ d.owner = c.owner
      OBVIOUS
    <3>2. [pid |-> c.pid, proc |-> c.owner] \in watchers
      BY DEF WatchersMatchChildren
    <3> QED
      BY <3>1, <3>2
  <2>2. \A w \in watchers' : w.pid = ForkFailed \/
          \E d \in children' : d.pid = w.pid /\ d.owner = w.proc
    <3> SUFFICES ASSUME NEW w \in watchers', w.pid # ForkFailed
                 PROVE  \E d \in children' : d.pid = w.pid /\ d.owner = w.proc
      OBVIOUS
    <3>1. PICK c \in children : c.pid = w.pid /\ c.owner = w.proc
      BY DEF WatchersMatchChildren
    <3> QED
      BY <3>1
  <2> QED
    BY <2>1, <2>2 DEF WatchersMatchChildren
<1>5. TimersMatchStates'
  BY DEF TimersMatchStates, TimersOf
<1>6. UpIsBacked'
  <2> SUFFICES ASSUME NEW j \in Procs, proc'[j].state \in {"starting", "running"},
                      proc'[j].pid # ForkFailed
               PROVE  \E d \in ChildrenOf(j)' : d.pid = proc'[j].pid
    BY DEF UpIsBacked
  <2>1. PICK c \in children : c.owner = j /\ c.pid = proc[j].pid
    BY DEF UpIsBacked, ChildrenOf
  <2> QED
    BY <2>1 DEF ChildrenOf
<1> QED
  BY <1>1, <1>2, <1>3, <1>4, <1>5, <1>6

LEMMA RestartRequestAges ==
  ASSUME IInv, NEW T, api_request_restart(T)
  PROVE  ChildrenAge
<1> DEFINE hit(c) == c.st = "alive" /\ \E i \in T : proc[i].pid = c.pid
           f(c)   == IF hit(c) THEN [c EXCEPT !.st = "termed"] ELSE c
<1>1. \A c \in children : f(c) \in Child /\ f(c).pid = c.pid /\ f(c).owner = c.owner
  <2> SUFFICES ASSUME NEW c \in children
               PROVE  f(c) \in Child /\ f(c).pid = c.pid /\ f(c).owner = c.owner
    OBVIOUS
  <2>1. c \in Child /\ (hit(c) => c.st = "alive")
    BY DEF IInv, TypeOK
  <2> HIDE DEF hit
  <2> QED
    BY <2>1 DEF Child
<1>2. children' = {f(c) : c \in children} /\ UNCHANGED <<proc, watchers, timers, timerPtr>>
  BY DEF api_request_restart
<1> HIDE DEF f
<1> QED
  BY <1>1, <1>2 DEF ChildrenAge, IInv, ChildrenMatchRecords

LEMMA ChildExitAges ==
  ASSUME IInv, NEW c \in children, NEW status \in Statuses, ChildExits(c, status)
  PROVE  ChildrenAge
<1> DEFINE z == [c EXCEPT !.st = "zombie", !.status = status]
<1>1. c \in Child
  BY DEF IInv, TypeOK
<1>2. z \in Child /\ z.pid = c.pid /\ z.owner = c.owner
  BY <1>1 DEF Child
<1>3. /\ children' = (children \ {c}) \cup {z}
      /\ UNCHANGED <<proc, watchers, timers, timerPtr>>
  BY DEF ChildExits
<1> HIDE DEF z
<1> QED
  BY <1>2, <1>3 DEF ChildrenAge, IInv, TypeOK, ChildrenMatchRecords

-----------------------------------------------------------------------------
LEMMA NextIInv == IInv /\ [Next]_vars => IInv'
<1> SUFFICES ASSUME IInv, [Next]_vars PROVE IInv'
  OBVIOUS
<1>0. proc \in [Procs -> Process] /\ \A t \in timers : t \in Timer
  BY DEF IInv, TypeOK
<1>1. ASSUME NEW i \in Procs, proc[i].state = "zero",
             start_process(i, pn_proc_move_state(proc[i], "new"), {})
      PROVE  IInv'
  <2>1. \A t \in timers : t.proc # i
    BY <1>0, <1>1 DEF IInv, TimersMatchStates, Timer
  <2>2. pn_proc_move_state(proc[i], "new") \in Process
    BY <1>0, MoveState DEF ProcessStates
  <2>3. {} \in SUBSET timers
    OBVIOUS
  <2> QED
    BY <1>1, <2>1, <2>2, <2>3, StartProcess
<1>2. ASSUME NEW t \in timers, child_timer_cb(t)
      PROVE  IInv'
  <2>1. t.proc \in Procs /\ t.kind = "restart"
    BY <1>0, <1>2 DEF child_timer_cb, Timer
  <2>2. proc[t.proc].state = "exited"
    BY <2>1 DEF IInv, TimersMatchStates
  <2>3. \A u \in timers : u.proc = t.proc <=> u \in {t}
    BY DEF IInv, TimersMatchStates
  <2>4. {t} \in SUBSET timers /\ proc[t.proc] \in Process
    BY <1>0, <2>1
  <2> QED
    BY <1>2, <2>1, <2>2, <2>3, <2>4, StartProcess DEF child_timer_cb
<1>3. CASE \E i \in Listed : start(i)
  BY <1>1, <1>3 DEF start, Procs
<1>4. CASE \E i \in Created : api_request_create(i)
  BY <1>1, <1>4 DEF api_request_create, Procs
<1>5. CASE \E t \in timers : child_timer_cb(t)
  BY <1>2, <1>5
<1>6. CASE \E t \in timers : running_state_timer_cb(t)
  BY <1>6, RunningTimerFires
<1>7. CASE \E w \in watchers, c \in children : child_proc_cb(w, c)
  BY <1>7, ChildIsReaped
<1>8. CASE \E T \in RestartTargets : api_request_restart(T)
  BY <1>8, RestartRequestAges, AgingKeepsIInv
<1>9. CASE \E c \in children, status \in Statuses : ChildExits(c, status)
  BY <1>9, ChildExitAges, AgingKeepsIInv
<1>10. CASE UNCHANGED vars
  BY <1>10 DEF vars, IInv, TypeOK, ChildrenMatchRecords, WatchersMatchChildren,
     TimersMatchStates, TimersOf, UpIsBacked, ChildrenOf
<1> QED
  BY <1>3, <1>4, <1>5, <1>6, <1>7, <1>8, <1>9, <1>10 DEF Next

(* The tables of the daemon and of the kernel agree in every reachable      *)
(* state (the callbacks of procnanny.c and what the kernel does between     *)
(* them), whatever the numbers of instances, pids and heap addresses.       *)
THEOREM Invariance == Spec => []IInv
<1> QED
  BY InitIInv, NextIInv, PTL DEF Spec

(* The records, the watchers and the timers keep their types.               *)
THEOREM TypeCorrect == Spec => []TypeOK
<1>1. IInv => TypeOK
  BY DEF IInv
<1> QED
  BY <1>1, Invariance, PTL

(* start_process is never run for an instance that still has a child.       *)
THEOREM OneChild == Spec => []OneIncarnation
<1>1. IInv => OneIncarnation
  BY DEF IInv, ChildrenMatchRecords, OneIncarnation
<1> QED
  BY <1>1, Invariance, PTL

(* child_proc_cb finds the instance whose child died, though pids recur.    *)
THEOREM ReapCorrect == Spec => []ReapFindsOwner
<1>1. IInv => ReapFindsOwner
  <2> SUFFICES ASSUME IInv, NEW c \in children
               PROVE  {w \in watchers : w.pid = c.pid} = {[pid |-> c.pid, proc |-> c.owner]}
    BY DEF ReapFindsOwner
  <2>1. [pid |-> c.pid, proc |-> c.owner] \in watchers
    BY DEF IInv, WatchersMatchChildren
  <2>2. \A w \in watchers : w.pid = c.pid => w = [pid |-> c.pid, proc |-> c.owner]
    BY WatchedChild
  <2> QED
    BY <2>1, <2>2
<1> QED
  BY <1>1, Invariance, PTL

(* The free() in child_proc_cb is never given a dangling pointer.           *)
THEOREM NoBadFree == Spec => []NoDanglingTimer
<1>1. IInv => NoDanglingTimer
  <2> SUFFICES ASSUME IInv, NEW i \in Procs, ChildrenOf(i) # {}
               PROVE  /\ PointedTo(i) = TimersOf(i, "run")
                      /\ PointedTo(i) = {} => timerPtr[i] = NULL
    BY DEF NoDanglingTimer
  <2>1. proc[i].state \in {"starting", "running"}
    BY DEF ChildrenOf, IInv, ChildrenMatchRecords
  <2> QED
    BY <2>1, PointerIsOwn
<1> QED
  BY <1>1, Invariance, PTL

(* Every started instance has a child to be reaped or one restart timer,    *)
(* unless its fork failed: restart_child is called exactly once a death.    *)
THEOREM NothingLost == Spec => []NeverLost
<1>1. IInv => NeverLost
  <2> SUFFICES ASSUME IInv, NEW i \in Procs, proc[i].state # "zero"
               PROVE  LET waiting == TimersOf(i, "restart")
                      IN \/ ChildrenOf(i) # {} /\ waiting = {}
                         \/ ChildrenOf(i) = {} /\ \E t \in waiting : waiting = {t}
                         \/ ChildrenOf(i) = {} /\ waiting = {} /\ proc[i].pid = ForkFailed
    BY DEF NeverLost
  <2>1. CASE proc[i].state = "exited"
    <3>1. ChildrenOf(i) = {}
      BY <2>1 DEF IInv, ChildrenMatchRecords, ChildrenOf
    <3>2. PICK t \in timers : t \in TimersOf(i, "restart")
      BY <2>1 DEF IInv, TimersMatchStates, TimersOf
    <3>3. TimersOf(i, "restart") = {t}
      BY <3>2 DEF IInv, TimersMatchStates, TimersOf
    <3> QED
      BY <3>1, <3>2, <3>3
  <2>2. CASE proc[i].state \in {"starting", "running"}
    <3>1. TimersOf(i, "restart") = {}
      BY <2>2 DEF IInv, TimersMatchStates, TimersOf
    <3> QED
      BY <2>2, <3>1 DEF IInv, UpIsBacked
  <2> QED
    BY <2>1, <2>2 DEF IInv, RestStates
<1> QED
  BY <1>1, Invariance, PTL

(* The states the status replies are made from: an instance reported up has *)
(* a child unless its fork failed.                                          *)
THEOREM UpIsTrue == Spec => []UpIsBacked
<1>1. IInv => UpIsBacked
  BY DEF IInv
<1> QED
  BY <1>1, Invariance, PTL

(* api_request_restart: "process wasn't running" is said of an instance     *)
(* only when it has no child.                                               *)
THEOREM RepliesTrue == Spec => []NotRunningReplyIsTrue
<1>1. IInv => NotRunningReplyIsTrue
  BY DEF IInv, ChildrenMatchRecords, NotRunningReplyIsTrue, pn_proc_signal, ChildrenOf
<1> QED
  BY <1>1, Invariance, PTL

(* api_request_restart goes by the pid of the record: the child it hits is  *)
(* the named instance's own, unless that one is between exit and restart.   *)
THEOREM RestartInside == Spec => RestartStaysInside
<1>1. ASSUME IInv, NEW T \in RestartTargets, api_request_restart(T),
             NEW c \in children, c \notin children'
      PROVE  \/ c.owner \in T
             \/ \E i \in T : proc[i].state = "exited" /\ proc[i].pid = c.pid
  <2>1. PICK i \in T : proc[i].pid = c.pid
    BY <1>1 DEF api_request_restart
  <2>2. i \in Procs /\ proc[i].state \in {"starting", "running", "exited"}
    BY <1>1 DEF RestartTargets, api_request_restart, LoopRunning, Procs, IInv, RestStates
  <2>3. c.pid # ForkFailed
    BY <1>1, PidAssumption DEF IInv, TypeOK, Child
  <2>4. CASE proc[i].state \in {"starting", "running"}
    <3>1. PICK d \in ChildrenOf(i) : d.pid = c.pid
      BY <1>1, <2>1, <2>2, <2>3, <2>4 DEF IInv, UpIsBacked
    <3> QED
      BY <1>1, <3>1 DEF IInv, ChildrenMatchRecords, ChildrenOf
  <2> QED
    BY <2>1, <2>2, <2>4
<1>2. IInv => [\A T \in RestartTargets : api_request_restart(T) =>
                \A c \in children \ children' :
                  \/ c.owner \in T
                  \/ \E i \in T : proc[i].state = "exited" /\ proc[i].pid = c.pid]_vars
  BY <1>1
<1> QED
  BY <1>2, Invariance, PTL DEF RestartStaysInside

-----------------------------------------------------------------------------
(* Flaps.  Outside the two callbacks that end a start no run timer goes     *)
(* away and no flap count changes.                                          *)
LEMMA StartKeepsFlaps ==
  ASSUME IInv, NEW i \in Procs, NEW p \in Process, NEW freed \in SUBSET timers,
         p.flap_count = proc[i].flap_count,
         \A t \in freed : t.kind = "restart",
         start_process(i, p, freed),
         NEW j \in Procs
  PROVE  /\ proc'[j].flap_count = proc[j].flap_count
         /\ TimersOf(j, "run") # {} => TimersOf(j, "run")' # {}
<1>1. PICK pid \in ForkResults, a \in FreeAddrs(timers) :
        /\ proc' = [proc EXCEPT ![i] =
                      [pn_proc_move_state(p, "starting") EXCEPT !.pid = pid]]
        /\ timers' = (timers \ freed) \cup {[at |-> a, kind |-> "run", proc |-> i]}
  BY DEF start_process
<1>2. \A t \in TimersOf(j, "run") : t \in timers'
  BY <1>1 DEF TimersOf
<1>3. proc'[j].flap_count = proc[j].flap_count
  <2> DEFINE q == pn_proc_move_state(p, "starting")
             r == [q EXCEPT !.pid = pid]
  <2>1. q \in Process /\ q.flap_count = proc[i].flap_count
    BY MoveState DEF ProcessStates, FlapCount
  <2>2. r.flap_count = proc[i].flap_count
    <3> HIDE DEF q
    <3> QED
      BY <2>1 DEF Process
  <2>3. proc' = [proc EXCEPT ![i] = r] /\ proc \in [Procs -> Process]
    BY <1>1 DEF IInv, TypeOK
  <2> HIDE DEF q, r
  <2> QED
    BY <2>2, <2>3
<1> QED
  BY <1>2, <1>3 DEF TimersOf

\* FlapsAreShortRuns for one step and one instance.
FlapStep(i) ==
  LET cancelled == TimersOf(i, "run") # {} /\ TimersOf(i, "run")' = {}
  IN /\ proc'[i].flap_count > proc[i].flap_count
          <=> (cancelled /\ proc'[i].state = "exited")
     /\ proc'[i].flap_count < proc[i].flap_count
          => (cancelled /\ proc'[i].state = "running")

LEMMA KeptFlaps ==
  ASSUME IInv, NEW i \in Procs,
         proc'[i].flap_count = proc[i].flap_count,
         TimersOf(i, "run") # {} => TimersOf(i, "run")' # {}
  PROVE  FlapStep(i)
<1>1. proc[i].flap_count \in Nat
  BY DEF IInv, TypeOK, Process
<1> QED
  BY <1>1 DEF FlapStep

LEMMA RunningFlaps ==
  ASSUME IInv, NEW t \in timers, running_state_timer_cb(t), NEW i \in Procs
  PROVE  FlapStep(i)
<1>1. /\ t.kind = "run" /\ t.proc \in Procs
      /\ timers' = timers \ {t}
      /\ proc \in [Procs -> Process]
      /\ proc' = [proc EXCEPT ![t.proc] = pn_proc_move_state(@, "running")]
  BY DEF running_state_timer_cb, IInv, TypeOK, Timer
<1>2. CASE i # t.proc
  BY <1>1, <1>2, KeptFlaps DEF TimersOf
<1>3. CASE i = t.proc
  <2>1. proc[i].state = "starting" /\ \A u \in timers : u.proc = i => u = t
    BY <1>1, <1>3 DEF IInv, TimersMatchStates
  <2>2. t \in TimersOf(i, "run") /\ TimersOf(i, "run")' = {}
    BY <1>1, <1>3, <2>1 DEF TimersOf
  <2>3. FlapCount(proc[i], "running") = 0
    BY <2>1 DEF FlapCount
  <2>4. /\ pn_proc_move_state(proc[i], "running").state = "running"
        /\ pn_proc_move_state(proc[i], "running").flap_count = 0
    BY <1>1, <2>3, MoveState DEF ProcessStates
  <2>5. proc'[i].flap_count = 0 /\ proc'[i].state = "running"
    BY <1>1, <1>3, <2>4
  <2>6. proc[i].flap_count \in Nat
    BY <1>1 DEF Process
  <2> QED
    BY <2>2, <2>5, <2>6 DEF FlapStep
<1> QED
  BY <1>2, <1>3

LEMMA ReapedFlaps ==
  ASSUME IInv, NEW w \in watchers, NEW c \in children, child_proc_cb(w, c),
         NEW i \in Procs
  PROVE  FlapStep(i)
<1>1. /\ w.proc \in Procs /\ proc[w.proc].state \in {"starting", "running"}
      /\ c.status \in WaitStatus
      /\ proc \in [Procs -> Process]
      /\ proc' = [proc EXCEPT ![w.proc] = pn_proc_exited(@, c.status)]
  BY WatchedChild, StatusAssumption DEF child_proc_cb, IInv, TypeOK, Child
<1>2. \A t : t.kind = "run" =>
        (t \in timers' <=> t \in timers /\ t.proc # w.proc)
  BY <1>1, PointerIsOwn DEF child_proc_cb
<1>3. CASE i # w.proc
  BY <1>1, <1>2, <1>3, KeptFlaps DEF TimersOf
<1>4. CASE i = w.proc
  <2>1. TimersOf(i, "run")' = {}
    BY <1>2, <1>4 DEF TimersOf
  <2>2. TimersOf(i, "run") # {} <=> proc[i].state = "starting"
    BY <1>1, <1>4 DEF IInv, TimersMatchStates, TimersOf
  <2>3. /\ pn_proc_exited(proc[i], c.status).state = "exited"
        /\ pn_proc_exited(proc[i], c.status).flap_count = FlapCount(proc[i], "exited")
    BY <1>1, Exited
  <2>4. /\ proc'[i].state = "exited"
        /\ proc'[i].flap_count = FlapCount(proc[i], "exited")
    BY <1>1, <1>4, <2>3
  <2>5. proc[i].flap_count \in Nat
    BY <1>1 DEF Process
  <2>6. CASE proc[i].state = "starting"
    BY <2>1, <2>2, <2>4, <2>5, <2>6 DEF FlapStep, FlapCount
  <2>7. CASE proc[i].state = "running"
    BY <2>1, <2>2, <2>4, <2>5, <2>7 DEF FlapStep, FlapCount
  <2> QED
    BY <1>1, <1>4, <2>6, <2>7
<1> QED
  BY <1>3, <1>4

(* pn_proc_move_state counts a flap exactly when child_proc_cb cancels the  *)
(* run timer, and forgets flaps only when that timer fires.                 *)
THEOREM FlapsCountShortRuns == Spec => FlapsAreShortRuns
<1>1. ASSUME IInv, [Next]_vars
      PROVE  [\A i \in Procs : FlapStep(i)]_vars
  <2> SUFFICES ASSUME Next, NEW i \in Procs PROVE FlapStep(i)
    BY <1>1
  <2>0. proc \in [Procs -> Process] /\ IInv
    BY <1>1 DEF IInv, TypeOK
  <2>1. ASSUME NEW j \in Procs,
               start_process(j, pn_proc_move_state(proc[j], "new"), {})
        PROVE  FlapStep(i)
    <3>1. /\ pn_proc_move_state(proc[j], "new") \in Process
          /\ pn_proc_move_state(proc[j], "new").flap_count = proc[j].flap_count
      BY <2>0, MoveState DEF ProcessStates, FlapCount
    <3>2. {} \in SUBSET timers
      OBVIOUS
    <3> QED
      BY <2>0, <2>1, <3>1, <3>2, StartKeepsFlaps, KeptFlaps
  <2>2. ASSUME NEW t \in timers, child_timer_cb(t)
        PROVE  FlapStep(i)
    <3>1. t.proc \in Procs /\ proc[t.proc] \in Process /\ {t} \in SUBSET timers
      BY <2>0 DEF IInv, TypeOK, Timer
    <3> QED
      BY <2>0, <2>2, <3>1, StartKeepsFlaps, KeptFlaps DEF child_timer_cb
  <2>3. CASE \E j \in Listed : start(j)
    BY <2>1, <2>3 DEF start, Procs
  <2>4. CASE \E j \in Created : api_request_create(j)
    BY <2>1, <2>4 DEF api_request_create, Procs
  <2>5. CASE \E t \in timers : child_timer_cb(t)
    BY <2>2, <2>5
  <2>6. CASE \E t \in timers : running_state_timer_cb(t)
    BY <2>0, <2>6, RunningFlaps
  <2>7. CASE \E w \in watchers, c \in children : child_proc_cb(w, c)
    BY <2>0, <2>7, ReapedFlaps
  <2>8. CASE \/ \E T \in RestartTargets : api_request_restart(T)
             \/ \E c \in children, status \in Statuses : ChildExits(c, status)
    <3>1. UNCHANGED <<proc, timers>>
      BY <2>8 DEF api_request_restart, ChildExits
    <3> QED
      BY <2>0, <3>1, KeptFlaps DEF TimersOf
  <2> QED
    BY <2>3, <2>4, <2>5, <2>6, <2>7, <2>8 DEF Next
<1> QED
  BY <1>1, Invariance, PTL DEF Spec, FlapsAreShortRuns, FlapStep

-----------------------------------------------------------------------------
(* The refinement.  A step on one instance maps to an assignment to that    *)
(* instance's phase and child.                                              *)
Phases == [i \in Procs |-> PhaseOf(proc[i])]
ChildStates == [i \in Procs |-> ChildState(i)]

LEMMA OneInstance ==
  ASSUME NEW i \in Procs,
         \A j \in Procs : j # i => /\ PhaseOf(proc[j])' = PhaseOf(proc[j])
                                   /\ ChildState(j)' = ChildState(j)
  PROVE  /\ Phases' = [Phases EXCEPT ![i] = PhaseOf(proc[i])']
         /\ ChildStates' = [ChildStates EXCEPT ![i] = ChildState(i)']
  BY DEF Phases, ChildStates

LEMMA NoInstance ==
  ASSUME \A j \in Procs : /\ PhaseOf(proc[j])' = PhaseOf(proc[j])
                          /\ ChildState(j)' = ChildState(j)
  PROVE  Phases' = Phases /\ ChildStates' = ChildStates
  BY DEF Phases, ChildStates

LEMMA StartImplements ==
  ASSUME IInv, NEW i \in Procs, NEW p \in Process, NEW freed \in SUBSET timers,
         proc[i].state \in {"zero", "exited"},
         start_process(i, p, freed)
  PROVE  B!Launch(i) \/ B!Relaunch(i)
<1>1. PICK pid \in ForkResults, a \in FreeAddrs(timers) :
        /\ proc' = [proc EXCEPT ![i] =
                      [pn_proc_move_state(p, "starting") EXCEPT !.pid = pid]]
        /\ children' = children \cup
             (IF pid = ForkFailed THEN {}
              ELSE {[pid |-> pid, owner |-> i, st |-> "alive", status |-> NULL]})
  BY DEF start_process
<1>2. proc'[i].state = "starting" /\ \A j \in Procs : j # i => proc'[j] = proc[j]
  <2> DEFINE q == pn_proc_move_state(p, "starting")
             r == [q EXCEPT !.pid = pid]
  <2>1. q \in Process /\ q.state = "starting"
    BY MoveState DEF ProcessStates
  <2>2. r.state = "starting"
    <3> HIDE DEF q
    <3> QED
      BY <2>1 DEF Process
  <2>3. proc' = [proc EXCEPT ![i] = r] /\ proc \in [Procs -> Process]
    BY <1>1 DEF IInv, TypeOK
  <2> HIDE DEF q, r
  <2> QED
    BY <2>2, <2>3
<1>3. ChildrenOf(i) = {}
  BY DEF IInv, ChildrenMatchRecords, ChildrenOf
<1>4. \A j \in Procs : j # i => ChildrenOf(j)' = ChildrenOf(j)
  BY <1>1 DEF ChildrenOf
<1>5. ChildrenOf(i)' = IF pid = ForkFailed THEN {}
        ELSE {[pid |-> pid, owner |-> i, st |-> "alive", status |-> NULL]}
  BY <1>1, <1>3 DEF ChildrenOf
<1>6. ChildState(i) = "none" /\ ChildState(i)' \in B!Born
  <2>1. pid = ForkFailed => ForkMayFail
    BY PidAssumption DEF ForkResults, FreePids
  <2>2. CASE pid = ForkFailed
    BY <1>3, <1>5, <2>1, <2>2 DEF ChildState, B!Born
  <2>3. CASE pid # ForkFailed
    <3> DEFINE new == [pid |-> pid, owner |-> i, st |-> "alive", status |-> NULL]
    <3>1. ChildrenOf(i)' = {new} /\ new.st # "zombie"
      BY <1>5, <2>3
    <3> HIDE DEF new
    <3> QED
      BY <1>3, <3>1 DEF ChildState, B!Born
  <2> QED
    BY <2>2, <2>3
<1>7. PhaseOf(proc[i]) \in {"idle", "exited"} /\ PhaseOf(proc[i])' = "starting"
  BY <1>2 DEF PhaseOf
<1>8. /\ Phases' = [Phases EXCEPT ![i] = "starting"]
      /\ ChildStates' = [ChildStates EXCEPT ![i] = ChildState(i)']
  <2>1. \A j \in Procs : j # i => PhaseOf(proc[j])' = PhaseOf(proc[j])
    BY <1>2 DEF PhaseOf
  <2>2. \A j \in Procs : j # i => ChildState(j)' = ChildState(j)
    BY <1>4 DEF ChildState
  <2> QED
    BY <1>7, <2>1, <2>2, OneInstance
<1>9. Phases[i] = PhaseOf(proc[i]) /\ ChildStates[i] = ChildState(i)
  BY DEF Phases, ChildStates
<1> QED
  BY <1>6, <1>7, <1>8, <1>9
     DEF B!Launch, B!Relaunch, B!LaunchFrom, Phases, ChildStates

LEMMA RunningImplements ==
  ASSUME IInv, NEW t \in timers, running_state_timer_cb(t)
  PROVE  B!Settle(t.proc)
<1> DEFINE i == t.proc
<1>1. i \in Procs /\ proc[i].state = "starting" /\ proc \in [Procs -> Process]
  BY DEF running_state_timer_cb, IInv, TypeOK, Timer, TimersMatchStates
<1>2. pn_proc_move_state(proc[i], "running").state = "running"
  BY <1>1, MoveState DEF ProcessStates
<1>3. proc'[i].state = "running" /\ \A j \in Procs : j # i => proc'[j] = proc[j]
  BY <1>1, <1>2 DEF running_state_timer_cb
<1>4. \A j \in Procs : ChildState(j)' = ChildState(j)
  BY DEF running_state_timer_cb, ChildState, ChildrenOf
<1>5. PhaseOf(proc[i]) = "starting" /\ PhaseOf(proc[i])' = "running"
  BY <1>1, <1>3 DEF PhaseOf
<1>6. /\ Phases' = [Phases EXCEPT ![i] = "running"]
      /\ ChildStates' = [ChildStates EXCEPT ![i] = ChildState(i)']
  BY <1>1, <1>3, <1>4, <1>5, OneInstance DEF PhaseOf
<1>7. ChildStates' = ChildStates
  BY <1>4 DEF ChildStates
<1> QED
  BY <1>1, <1>5, <1>6, <1>7 DEF B!Settle, Phases, ChildStates

LEMMA ReapImplements ==
  ASSUME IInv, NEW w \in watchers, NEW c \in children, child_proc_cb(w, c)
  PROVE  w.proc \in Procs /\ B!Notice(w.proc)
<1> DEFINE i == w.proc
<1>1. /\ c.owner = i /\ i \in Procs
      /\ \A d \in children : d.owner = i => d = c
      /\ proc[i].state \in {"starting", "running"}
      /\ c.status \in WaitStatus /\ proc \in [Procs -> Process]
  BY WatchedChild, StatusAssumption DEF child_proc_cb, IInv, TypeOK, Child
<1>2. pn_proc_exited(proc[i], c.status).state = "exited"
  BY <1>1, Exited
<1>3. proc'[i].state = "exited" /\ \A j \in Procs : j # i => proc'[j] = proc[j]
  BY <1>1, <1>2 DEF child_proc_cb
<1>4. children' = children \ {c} /\ c.st = "zombie"
  BY DEF child_proc_cb
<1>5. /\ ChildrenOf(i)' = {} /\ c \in ChildrenOf(i)
      /\ \A j \in Procs : j # i => ChildrenOf(j)' = ChildrenOf(j)
  BY <1>1, <1>4 DEF ChildrenOf
<1>6. /\ ChildState(i) = "dead" /\ ChildState(i)' = "none"
      /\ PhaseOf(proc[i]) \in {"starting", "running"} /\ PhaseOf(proc[i])' = "exited"
  BY <1>1, <1>3, <1>4, <1>5 DEF ChildState, PhaseOf
<1>7. /\ Phases' = [Phases EXCEPT ![i] = "exited"]
      /\ ChildStates' = [ChildStates EXCEPT ![i] = "none"]
  <2>1. \A j \in Procs : j # i => /\ PhaseOf(proc[j])' = PhaseOf(proc[j])
                                 /\ ChildState(j)' = ChildState(j)
    BY <1>3, <1>5 DEF PhaseOf, ChildState
  <2> HIDE DEF i
  <2> QED
    BY <1>1, <1>6, <2>1, OneInstance
<1> QED
  BY <1>1, <1>6, <1>7 DEF B!Notice, Phases, ChildStates

LEMMA ChildExitImplements ==
  ASSUME IInv, NEW c \in children, NEW status \in Statuses, ChildExits(c, status)
  PROVE  c.owner \in Procs /\ B!Die(c.owner)
<1> DEFINE i == c.owner
           z == [c EXCEPT !.st = "zombie", !.status = status]
<1>1. i \in Procs /\ \A d \in children : d.owner = i => d = c
  BY DEF IInv, TypeOK, Child, ChildrenMatchRecords
<1>2. /\ children' = (children \ {c}) \cup {z} /\ c.st # "zombie"
      /\ UNCHANGED proc
  BY DEF ChildExits
<1>3. z.owner = i /\ z.st = "zombie"
  BY DEF IInv, TypeOK, Child
<1> HIDE DEF z
<1>4. /\ ChildrenOf(i) = {c} /\ ChildrenOf(i)' = {z}
      /\ \A j \in Procs : j # i => ChildrenOf(j)' = ChildrenOf(j)
  BY <1>1, <1>2, <1>3 DEF ChildrenOf
<1>5. ChildState(i) = "alive" /\ ChildState(i)' = "dead"
  BY <1>2, <1>3, <1>4 DEF ChildState
<1>6. /\ Phases' = Phases
      /\ ChildStates' = [ChildStates EXCEPT ![i] = "dead"]
  <2>1. \A j \in Procs : j # i => ChildState(j)' = ChildState(j)
    BY <1>4 DEF ChildState
  <2>2. \A j \in Procs : PhaseOf(proc[j])' = PhaseOf(proc[j])
    BY <1>2 DEF PhaseOf
  <2>3. Phases' = Phases
    BY <2>2 DEF Phases
  <2> HIDE DEF i
  <2> QED
    BY <1>1, <1>5, <2>1, <2>2, <2>3, OneInstance
<1> QED
  BY <1>1, <1>5, <1>6 DEF B!Die, Phases, ChildStates

LEMMA RestartRequestStutters ==
  ASSUME IInv, NEW T, api_request_restart(T)
  PROVE  Phases' = Phases /\ ChildStates' = ChildStates
<1> DEFINE hit(c) == c.st = "alive" /\ \E i \in T : proc[i].pid = c.pid
           f(c)   == IF hit(c) THEN [c EXCEPT !.st = "termed"] ELSE c
<1>1. \A c \in children : f(c).owner = c.owner /\ (f(c).st = "zombie" <=> c.st = "zombie")
  <2> SUFFICES ASSUME NEW c \in children
               PROVE  f(c).owner = c.owner /\ (f(c).st = "zombie" <=> c.st = "zombie")
    OBVIOUS
  <2>1. c \in Child /\ (hit(c) => c.st = "alive")
    BY DEF IInv, TypeOK
  <2> HIDE DEF hit
  <2> QED
    BY <2>1 DEF Child
<1>2. children' = {f(c) : c \in children} /\ UNCHANGED proc
  BY DEF api_request_restart
<1> HIDE DEF f
<1>3. ASSUME NEW j \in Procs
      PROVE  ChildState(j)' = ChildState(j)
  <2>1. ChildrenOf(j)' # {} <=> ChildrenOf(j) # {}
    BY <1>1, <1>2 DEF ChildrenOf
  <2>2. (\E c \in ChildrenOf(j)' : c.st = "zombie") <=> \E c \in ChildrenOf(j) : c.st = "zombie"
    BY <1>1, <1>2 DEF ChildrenOf
  <2> QED
    BY <2>1, <2>2 DEF ChildState
<1> QED
  BY <1>2, <1>3, NoInstance DEF PhaseOf

(* The callbacks, the API requests and the children's deaths, through all   *)
(* the pids, watchers, timers and addresses they go by, are steps of the    *)
(* abstract babysitter.                                                     *)
THEOREM Implementation == Spec => ImplementsBabysitter
<1>1. Init => B!Init
  BY DEF Init, B!Init, pn_proc_init, PhaseOf, ChildState, ChildrenOf
<1>2. ASSUME IInv, [Next]_vars
      PROVE  [B!Next]_(B!bvars)
  <2>0. IInv
    BY <1>2
  <2>1. CASE \E i \in Listed : start(i)
    <3>1. PICK i \in Procs : /\ proc[i].state = "zero"
                             /\ start_process(i, pn_proc_move_state(proc[i], "new"), {})
      BY <2>1 DEF start, Procs
    <3>2. pn_proc_move_state(proc[i], "new") \in Process
      BY <2>0, MoveState DEF IInv, TypeOK, ProcessStates
    <3> QED
      BY <2>0, <3>1, <3>2, StartImplements DEF B!Next
  <2>2. CASE \E i \in Created : api_request_create(i)
    <3>1. PICK i \in Procs : /\ proc[i].state = "zero"
                             /\ start_process(i, pn_proc_move_state(proc[i], "new"), {})
      BY <2>2 DEF api_request_create, Procs
    <3>2. pn_proc_move_state(proc[i], "new") \in Process
      BY <2>0, MoveState DEF IInv, TypeOK, ProcessStates
    <3> QED
      BY <2>0, <3>1, <3>2, StartImplements DEF B!Next
  <2>3. CASE \E t \in timers : child_timer_cb(t)
    <3>1. PICK t \in timers : child_timer_cb(t)
      BY <2>3
    <3>2. /\ t.proc \in Procs /\ proc[t.proc] \in Process
          /\ proc[t.proc].state = "exited" /\ {t} \in SUBSET timers
      BY <2>0, <3>1 DEF child_timer_cb, IInv, TypeOK, Timer, TimersMatchStates
    <3> QED
      BY <2>0, <3>1, <3>2, StartImplements DEF B!Next, child_timer_cb
  <2>4. CASE \E t \in timers : running_state_timer_cb(t)
    <3>1. PICK t \in timers : running_state_timer_cb(t) /\ t.proc \in Procs
      BY <2>0, <2>4 DEF IInv, TypeOK, Timer
    <3> QED
      BY <2>0, <3>1, RunningImplements DEF B!Next
  <2>5. CASE \E w \in watchers, c \in children : child_proc_cb(w, c)
    BY <2>0, <2>5, ReapImplements DEF B!Next
  <2>6. CASE \E T \in RestartTargets : api_request_restart(T)
    BY <2>0, <2>6, RestartRequestStutters DEF B!bvars, Phases, ChildStates
  <2>7. CASE \E c \in children, status \in Statuses : ChildExits(c, status)
    BY <2>0, <2>7, ChildExitImplements DEF B!Next
  <2>8. CASE UNCHANGED vars
    BY <2>8, NoInstance DEF vars, ChildState, ChildrenOf, PhaseOf, B!bvars, Phases, ChildStates
  <2> QED
    BY <1>2, <2>1, <2>2, <2>3, <2>4, <2>5, <2>6, <2>7, <2>8 DEF Next
<1> QED
  BY <1>1, <1>2, Invariance, PTL DEF Spec, ImplementsBabysitter, B!Spec

-----------------------------------------------------------------------------
(* The records alone.                                                       *)
Forget(p) == [p EXCEPT !.pid = NoPid]
Records == [i \in Procs |-> [proc[i] EXCEPT !.pid = NoPid]]

(* Moves neither read nor write the pid.                                    *)
LEMMA MoveForgets ==
  ASSUME NEW p \in Process, NEW to \in ProcessStates
  PROVE  /\ L!pn_proc_move_state(Forget(p), to) = Forget(pn_proc_move_state(p, to))
         /\ Forget(p) \in Process /\ Forget(p).state = p.state
<1>1. Forget(p) \in Process /\ Forget(p).state = p.state /\ Forget(p).flap_count = p.flap_count
  BY DEF Forget, Process
<1>2. FlapCount(p, to) \in Nat /\ L!FlapCount(Forget(p), to) = FlapCount(p, to)
  BY <1>1 DEF Process, FlapCount, L!FlapCount
<1>3. L!Flapping(Forget(p), to) <=> Flapping(p, to)
  BY <1>1, <1>2 DEF Flapping, L!Flapping
<1> DEFINE n == FlapCount(p, to)
<1>4. CASE Flapping(p, to)
  <2>1. /\ pn_proc_move_state(p, to) =
             [[[p EXCEPT !.flap_count = n] EXCEPT !.state = "backoff"] EXCEPT !.state = to]
        /\ L!pn_proc_move_state(Forget(p), to) =
             [[[Forget(p) EXCEPT !.flap_count = n] EXCEPT !.state = "backoff"] EXCEPT !.state = to]
    BY <1>2, <1>3, <1>4 DEF pn_proc_move_state, L!pn_proc_move_state
  <2> HIDE DEF n
  <2> QED
    BY <1>1, <2>1 DEF Process, Forget
<1>5. CASE ~ Flapping(p, to)
  <2>1. /\ pn_proc_move_state(p, to) = [[p EXCEPT !.flap_count = n] EXCEPT !.state = to]
        /\ L!pn_proc_move_state(Forget(p), to) =
             [[Forget(p) EXCEPT !.flap_count = n] EXCEPT !.state = to]
    BY <1>2, <1>3, <1>5 DEF pn_proc_move_state, L!pn_proc_move_state
  <2> HIDE DEF n
  <2> QED
    BY <1>1, <2>1 DEF Process, Forget
<1> QED
  BY <1>1, <1>4, <1>5

LEMMA ExitForgets ==
  ASSUME NEW p \in Process, NEW status \in WaitStatus
  PROVE  L!pn_proc_exited(Forget(p), status) = Forget(pn_proc_exited(p, status))
<1> DEFINE code == IF status.signaled THEN -1 ELSE status.value
           sig  == IF status.signaled THEN status.value ELSE 0
           q    == [p EXCEPT !.exit_status = code, !.exit_signal = sig]
<1>1. code \in Int /\ sig \in Int
  BY DEF WaitStatus
<1>2. q \in Process /\ [Forget(p) EXCEPT !.exit_status = code, !.exit_signal = sig] = Forget(q)
  <2> HIDE DEF code, sig
  <2> QED
    BY <1>1 DEF Process, Forget
<1>3. L!pn_proc_move_state(Forget(q), "exited") = Forget(pn_proc_move_state(q, "exited"))
  <2> HIDE DEF q
  <2> QED
    BY <1>2, MoveForgets DEF ProcessStates
<1> QED
  BY <1>2, <1>3 DEF L!pn_proc_exited, pn_proc_exited

LEMMA RecordMoves ==
  ASSUME NEW i \in Procs, NEW STATE r, proc \in [Procs -> Process],
         proc' = [proc EXCEPT ![i] = r]
  PROVE  /\ Records' = [Records EXCEPT ![i] = Forget(r)]
         /\ Records[i] = Forget(proc[i])
  BY DEF Records, Forget

(* start_process moves the record to "starting"; the pid it stores is       *)
(* forgotten.                                                               *)
LEMMA StartMoves ==
  ASSUME NEW i \in Procs, NEW p \in Process, NEW freed,
         proc \in [Procs -> Process], start_process(i, p, freed)
  PROVE  /\ Records' = [Records EXCEPT ![i] = L!pn_proc_move_state(Forget(p), "starting")]
         /\ Records[i] = Forget(proc[i])
<1> DEFINE q == pn_proc_move_state(p, "starting")
<1>1. PICK pid \in ForkResults : proc' = [proc EXCEPT ![i] = [q EXCEPT !.pid = pid]]
  BY DEF start_process
<1>2. q \in Process /\ L!pn_proc_move_state(Forget(p), "starting") = Forget(q)
  BY MoveState, MoveForgets DEF ProcessStates
<1> HIDE DEF q
<1> DEFINE r == [q EXCEPT !.pid = pid]
<1>3. Forget(r) = Forget(q)
  BY <1>2 DEF Process, Forget
<1>4. proc' = [proc EXCEPT ![i] = r]
  BY <1>1
<1> HIDE DEF r
<1>5. Records' = [Records EXCEPT ![i] = Forget(r)] /\ Records[i] = Forget(proc[i])
  BY <1>4, RecordMoves
<1> QED
  BY <1>2, <1>3, <1>5

(* Whatever becomes of pids, watchers, timers and addresses, the callbacks  *)
(* of procnanny.c take a record through the moves of Lifecycle only.        *)
THEOREM MovesAreLifecycle == Spec => ImplementsLifecycle
<1>1. Init => L!Init
  BY DEF Init, L!Init, L!pn_proc_init, pn_proc_init
<1>2. ASSUME IInv, [Next]_vars
      PROVE  [L!Next]_Records
  <2>0. IInv /\ proc \in [Procs -> Process]
    BY <1>2 DEF IInv, TypeOK
  <2>1. ASSUME NEW i \in Procs, proc[i].state = "zero",
               start_process(i, pn_proc_move_state(proc[i], "new"), {})
        PROVE  L!Begin(i)
    <3>1. /\ proc[i] \in Process /\ pn_proc_move_state(proc[i], "new") \in Process
          /\ Forget(pn_proc_move_state(proc[i], "new")) = L!pn_proc_move_state(Forget(proc[i]), "new")
          /\ Forget(proc[i]).state = "zero"
      BY <2>0, <2>1, MoveState, MoveForgets DEF ProcessStates
    <3>2. /\ Records' = [Records EXCEPT ![i] =
                 L!pn_proc_move_state(L!pn_proc_move_state(Forget(proc[i]), "new"), "starting")]
          /\ Records[i] = Forget(proc[i])
      BY <2>0, <2>1, <3>1, StartMoves
    <3> QED
      BY <3>1, <3>2 DEF L!Begin, Records
  <2>2. CASE \E i \in Listed : start(i)
    BY <2>1, <2>2 DEF start, Procs, L!Next
  <2>3. CASE \E i \in Created : api_request_create(i)
    BY <2>1, <2>3 DEF api_request_create, Procs, L!Next
  <2>4. CASE \E t \in timers : child_timer_cb(t)
    <3>1. PICK t \in timers : child_timer_cb(t)
      BY <2>4
    <3>2. t.proc \in Procs /\ proc[t.proc] \in Process /\ proc[t.proc].state = "exited"
      BY <2>0, <3>1 DEF child_timer_cb, IInv, TypeOK, Timer, TimersMatchStates
    <3>3. /\ Records' = [Records EXCEPT ![t.proc] =
                 L!pn_proc_move_state(Forget(proc[t.proc]), "starting")]
          /\ Records[t.proc] = Forget(proc[t.proc])
          /\ Forget(proc[t.proc]).state = "exited"
      BY <2>0, <3>1, <3>2, StartMoves, MoveForgets DEF child_timer_cb, ProcessStates
    <3>4. L!Restart(t.proc)
      BY <3>2, <3>3 DEF L!Restart, Records
    <3> QED
      BY <3>2, <3>4 DEF L!Next
  <2>5. CASE \E t \in timers : running_state_timer_cb(t)
    <3>1. PICK t \in timers : running_state_timer_cb(t)
      BY <2>5
    <3>2. t.proc \in Procs /\ proc[t.proc] \in Process /\ proc[t.proc].state = "starting"
      BY <2>0, <3>1 DEF running_state_timer_cb, IInv, TypeOK, Timer, TimersMatchStates
    <3>3. proc' = [proc EXCEPT ![t.proc] = pn_proc_move_state(proc[t.proc], "running")]
      BY <3>1 DEF running_state_timer_cb
    <3>4. /\ Records' = [Records EXCEPT ![t.proc] =
                 L!pn_proc_move_state(Forget(proc[t.proc]), "running")]
          /\ Records[t.proc] = Forget(proc[t.proc])
          /\ Forget(proc[t.proc]).state = "starting"
      <4> DEFINE r == pn_proc_move_state(proc[t.proc], "running")
      <4>1. Forget(r) = L!pn_proc_move_state(Forget(proc[t.proc]), "running")
        BY <3>2, MoveForgets DEF ProcessStates
      <4>2. proc' = [proc EXCEPT ![t.proc] = r]
        BY <3>3
      <4>3. Forget(proc[t.proc]).state = "starting"
        BY <3>2 DEF Process, Forget
      <4> HIDE DEF r
      <4>4. /\ Records' = [Records EXCEPT ![t.proc] = Forget(r)]
            /\ Records[t.proc] = Forget(proc[t.proc])
        BY <2>0, <3>2, <4>2, RecordMoves
      <4> QED
        BY <4>1, <4>3, <4>4
    <3>5. L!Settle(t.proc)
      BY <3>2, <3>4 DEF L!Settle, Records
    <3> QED
      BY <3>2, <3>5 DEF L!Next
  <2>6. CASE \E w \in watchers, c \in children : child_proc_cb(w, c)
    <3>1. PICK w \in watchers, c \in children : child_proc_cb(w, c)
      BY <2>6
    <3> DEFINE i == w.proc
    <3>2. /\ i \in Procs /\ proc[i] \in Process /\ proc[i].state \in {"starting", "running"}
          /\ c.status \in Statuses /\ c.status \in WaitStatus
      BY <2>0, <3>1, WatchedChild, StatusAssumption DEF child_proc_cb, IInv, TypeOK, Child
    <3>3. proc' = [proc EXCEPT ![i] = pn_proc_exited(proc[i], c.status)]
      BY <3>1 DEF child_proc_cb
    <3> HIDE DEF i
    <3>4. /\ Records' = [Records EXCEPT ![i] = L!pn_proc_exited(Forget(proc[i]), c.status)]
          /\ Records[i] = Forget(proc[i])
          /\ Forget(proc[i]).state \in {"starting", "running"}
      <4> DEFINE r == pn_proc_exited(proc[i], c.status)
      <4>1. Forget(r) = L!pn_proc_exited(Forget(proc[i]), c.status)
        BY <3>2, ExitForgets
      <4>2. proc' = [proc EXCEPT ![i] = r]
        BY <3>3
      <4>3. Forget(proc[i]).state \in {"starting", "running"}
        BY <3>2 DEF Process, Forget
      <4> HIDE DEF r
      <4>4. Records' = [Records EXCEPT ![i] = Forget(r)] /\ Records[i] = Forget(proc[i])
        BY <2>0, <3>2, <4>2, RecordMoves
      <4> QED
        BY <4>1, <4>3, <4>4
    <3>5. L!End(i, c.status)
      BY <3>2, <3>4 DEF L!End, Records
    <3> QED
      BY <3>2, <3>5 DEF L!Next
  <2>7. CASE UNCHANGED proc
    BY <2>7 DEF Records
  <2>8. (\/ \E T \in RestartTargets : api_request_restart(T)
         \/ \E c \in children, status \in Statuses : ChildExits(c, status)
         \/ UNCHANGED vars) => UNCHANGED proc
    BY DEF api_request_restart, ChildExits, vars
  <2> QED
    BY <1>2, <2>2, <2>3, <2>4, <2>5, <2>6, <2>7, <2>8 DEF Next
<1> QED
  BY <1>1, <1>2, Invariance, PTL DEF Spec, ImplementsLifecycle, L!Spec, Records
=============================================================================
