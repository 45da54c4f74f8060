--------------------------- MODULE ProgramProofs ---------------------------
(***************************************************************************)
(* Proofs about Program: the records of a program and the kernel's         *)
(* children agree, and what pn_prog_wait reports is true, for any number   *)
(* of instances, any options and any forks that fail.                      *)
(***************************************************************************)
EXTENDS Program, ProcessStateProofs

USE PidAssumption, IdAssumption, StatusAssumption, NullAssumption

(* A start and an exit end in the state asked for; only a start gives a pid. *)
LEMMA StartOfRecord ==
  ASSUME NEW p \in Process, NEW pid \in Pids \cup {ForkFailed}
  PROVE  LET q == [pn_proc_move_state(p, "starting") EXCEPT !.pid = pid]
         IN q \in Process /\ q.state = "starting" /\ q.pid = pid
<1> DEFINE r == pn_proc_move_state(p, "starting")
<1>1. r \in Process /\ r.state = "starting"
  BY MoveState DEF ProcessStates
<1> QED
  BY <1>1 DEF Process

LEMMA ExitOfRecord ==
  ASSUME NEW p \in Process, NEW status \in Statuses
  PROVE  /\ pn_proc_exited(p, status) \in Process
         /\ pn_proc_exited(p, status).state = "exited"
         /\ pn_proc_exited(p, status).pid = p.pid
  BY Exited

LEMMA NewRecord == pn_proc_init \in Process /\ pn_proc_init.pid = NoPid
  BY DEF Process, pn_proc_init, ProcessStates

LEMMA InitInv == Init => Inv
<1> SUFFICES ASSUME Init PROVE Inv
  OBVIOUS
<1>0. DOMAIN program = {"name", "command", "args", "nprocs", "is_running",
                       "uid", "gid", "nice", "ionice"}
  BY DEF Init, pn_prog_init
<1>1. /\ program.nprocs = 1 /\ ~program.is_running /\ program.is_running \in BOOLEAN
      /\ program.uid \in Ids /\ program.gid \in Ids /\ program.nice \in Int
  BY DEF Init, pn_prog_init, Ids
<1>2. processes \in [Instances -> Process] /\ \A i \in Instances : processes[i].pid = NoPid
  BY NewRecord DEF Init
<1>3. children = {} /\ waiting = NULL /\ self \in DaemonIds /\ DOMAIN asked = program_options
  BY DEF Init
<1>4. /\ asked = [o \in program_options |-> NULL]
      /\ program.uid = self.uid /\ program.gid = self.gid
      /\ {"USER", "UID", "GROUP", "GID"} \subseteq program_options
  BY DEF Init, pn_prog_init, program_options, Stored
<1>5. /\ StoredAsAsked(program.uid, "USER", "UID", Users, self.uid)
      /\ StoredAsAsked(program.gid, "GROUP", "GID", Groups, self.gid)
  BY <1>4 DEF StoredAsAsked
<1> QED
  BY <1>0, <1>1, <1>2, <1>3, <1>5 DEF Inv, TypeOK, ChildrenAreKnown, PidsAreDistinct, WaitedInOrder

-----------------------------------------------------------------------------
(* Setting an option: the number of instances changes only while the        *)
(* program does not run, when it has no children.                           *)
LEMMA SetField ==
  ASSUME Inv, NEW o \in DOMAIN Stored, NEW v, v # NULL,
         o \in {"NICE", "IONICE"} => v \in Int, o \in {"UID", "GID"} => v \in Ids,
         NEW x \in ValuesOf(o, v), program' = [program EXCEPT ![Stored[o]] = x],
         UNCHANGED <<processes, children, waiting, self>>,
         asked' = [p \in program_options |->
                     IF p = o THEN v ELSE IF Overrides(p, o) THEN NULL ELSE asked[p]]
  PROVE  Inv'
<1>1. /\ x \in Ids \/ o \notin {"UID", "USER", "GID", "GROUP"}
      /\ x = v \/ o \in {"USER", "GROUP"}
      /\ o = "USER" => x \in Lookup(Users, v)
      /\ o = "GROUP" => x \in Lookup(Groups, v)
  BY OfferAssumption DEF ValuesOf, pn_util_uid, pn_util_gid, Lookup, Ids, Stored
<1>2. /\ DOMAIN program' = DOMAIN program
      /\ program'.nprocs = program.nprocs /\ program'.is_running = program.is_running
      /\ program'.uid \in Ids /\ program'.gid \in Ids /\ program'.nice \in Int
  BY <1>1 DEF Inv, TypeOK, Stored
<1>3. Instances' = Instances
  BY <1>2 DEF Instances
<1>4. TypeOK' /\ ChildrenAreKnown' /\ PidsAreDistinct' /\ WaitedInOrder'
  BY <1>2, <1>3 DEF Inv, TypeOK, ChildrenAreKnown, PidsAreDistinct, WaitedInOrder
<1>5. StoredAsAsked(program.uid, "USER", "UID", Users, self.uid)'
  <2>1. {"USER", "UID"} \subseteq program_options
    BY DEF program_options, Stored
  <2>2. CASE o = "USER"
    BY <1>1, <2>1, <2>2 DEF StoredAsAsked, Stored, Inv, TypeOK
  <2>3. CASE o = "UID"
    BY <1>1, <2>1, <2>3 DEF StoredAsAsked, Stored, Overrides, Inv, TypeOK
  <2>4. CASE o \notin {"USER", "UID"}
    <3>1. program'.uid = program.uid
      BY <2>4 DEF Stored, Inv, TypeOK
    <3>2. asked'["USER"] = asked["USER"] /\ asked'["UID"] = asked["UID"]
      BY <2>1, <2>4 DEF Overrides, Stored
    <3> QED
      BY <3>1, <3>2 DEF StoredAsAsked, Inv
  <2> QED
    BY <2>2, <2>3, <2>4
<1>6. StoredAsAsked(program.gid, "GROUP", "GID", Groups, self.gid)'
  <2>1. {"GROUP", "GID"} \subseteq program_options
    BY DEF program_options, Stored
  <2>2. CASE o = "GROUP"
    BY <1>1, <2>1, <2>2 DEF StoredAsAsked, Stored, Inv, TypeOK
  <2>3. CASE o = "GID"
    BY <1>1, <2>1, <2>3 DEF StoredAsAsked, Stored, Overrides, Inv, TypeOK
  <2>4. CASE o \notin {"GROUP", "GID"}
    <3>1. program'.gid = program.gid
      BY <2>4 DEF Stored, Inv, TypeOK
    <3>2. asked'["GROUP"] = asked["GROUP"] /\ asked'["GID"] = asked["GID"]
      BY <2>1, <2>4 DEF Overrides, Stored
    <3> QED
      BY <3>1, <3>2 DEF StoredAsAsked, Inv
  <2> QED
    BY <2>2, <2>3, <2>4
<1> QED
  BY <1>4, <1>5, <1>6 DEF Inv

LEMMA SetNumprocs ==
  ASSUME Inv, NEW v \in Int, waiting = NULL, ~program.is_running,
         program' = [program EXCEPT !.nprocs = v],
         processes' = [i \in 0 .. v - 1 |-> pn_proc_init],
         UNCHANGED <<children, waiting, self>>,
         asked' = [p \in program_options |->
                     IF p = "NUMPROCS" THEN v
                     ELSE IF Overrides(p, "NUMPROCS") THEN NULL ELSE asked[p]]
  PROVE  Inv'
<1>1. children = {}
  BY DEF Inv, TypeOK, WaitedInOrder
<1>2. /\ DOMAIN program' = DOMAIN program
      /\ program'.nprocs = v /\ program'.is_running = program.is_running
      /\ program'.uid = program.uid /\ program'.gid = program.gid
      /\ program'.nice = program.nice
  BY DEF Inv, TypeOK
<1>3. Instances' = 0 .. v - 1
  BY <1>2 DEF Instances
<1>4. TypeOK' /\ ChildrenAreKnown' /\ PidsAreDistinct' /\ WaitedInOrder'
  BY <1>1, <1>2, <1>3, NewRecord
  DEF Inv, TypeOK, ChildrenAreKnown, PidsAreDistinct, WaitedInOrder
<1>5. \A o \in {"USER", "UID", "GROUP", "GID"} : asked'[o] = asked[o]
  BY DEF Overrides, Stored, program_options
<1> QED
  BY <1>2, <1>4, <1>5 DEF Inv, StoredAsAsked

LEMMA SetInv ==
  ASSUME Inv, NEW offer \in Offers, pn_prog_set(offer.option, offer.value, offer.sized)
  PROVE  Inv'
<1> DEFINE o == offer.option
           v == offer.value
<1>1. /\ o \in {"NUMPROCS", "NICE", "IONICE"} => v \in Int
      /\ o \in {"UID", "GID"} => v \in Ids
  BY OfferAssumption
<1>2. /\ v # NULL
      /\ asked' = [p \in program_options |->
                    IF p = o THEN v ELSE IF Overrides(p, o) THEN NULL ELSE asked[p]]
  BY OfferAssumption DEF pn_prog_set
<1>3. CASE /\ o \in DOMAIN Stored /\ UNCHANGED processes
           /\ \E x \in ValuesOf(o, v) : program' = [program EXCEPT ![Stored[o]] = x]
  <2>1. UNCHANGED <<processes, children, waiting, self>>
    BY <1>3 DEF pn_prog_set
  <2> HIDE DEF o, v
  <2> QED
    BY <1>1, <1>2, <1>3, <2>1, SetField
<1>4. CASE /\ o = "NUMPROCS" /\ program' = [program EXCEPT !.nprocs = v]
           /\ processes' = [i \in 0 .. v - 1 |-> pn_proc_init]
  <2>1. ~program.is_running
    BY <1>4 DEF pn_prog_set, SetResult, Inv, TypeOK
  <2> QED
    BY <1>1, <1>2, <1>4, <2>1, SetNumprocs DEF pn_prog_set
<1> QED
  BY <1>3, <1>4 DEF pn_prog_set

-----------------------------------------------------------------------------
LEMMA ForkedChild ==
  ASSUME Inv, NEW i \in Instances, NEW pid \in Pids
  PROVE  Forked(i, pid) \in Child
<1>1. Identity \in SUBSET Credentials
  BY DEF Identity, MaySet, Credentials, Inv, TypeOK, Ids
<1> QED
  BY <1>1 DEF Forked, Child, Instances

(* A start gives every instance a record and every pid it got a child.      *)
LEMMA StartInv == ASSUME Inv, pn_prog_start PROVE Inv'
<1>1. PICK pids \in [Instances -> Pids \cup {ForkFailed}] :
        /\ \A i, j \in Instances : pids[i] = pids[j] => i = j \/ pids[i] = ForkFailed
        /\ processes' = [i \in Instances |->
             [pn_proc_move_state(processes[i], "starting") EXCEPT !.pid = pids[i]]]
        /\ children' = {Forked(i, pids[i]) : i \in {j \in Instances : pids[j] # ForkFailed}}
  BY DEF pn_prog_start
<1>2. /\ UNCHANGED <<waiting, asked, self>> /\ waiting = NULL
      /\ program' = [program EXCEPT !.is_running = TRUE]
  BY DEF pn_prog_start
<1>3. /\ DOMAIN program' = DOMAIN program
      /\ program'.nprocs = program.nprocs /\ program'.is_running
      /\ program'.uid = program.uid /\ program'.gid = program.gid
      /\ program'.nice = program.nice
  BY <1>2 DEF Inv, TypeOK
<1>4. Instances' = Instances
  BY <1>3 DEF Instances
<1>5. \A i \in Instances :
        processes'[i] \in Process /\ processes'[i].state = "starting" /\ processes'[i].pid = pids[i]
  <2> SUFFICES ASSUME NEW i \in Instances
               PROVE  /\ processes'[i] \in Process /\ processes'[i].state = "starting"
                      /\ processes'[i].pid = pids[i]
    OBVIOUS
  <2>1. processes[i] \in Process /\ pids[i] \in Pids \cup {ForkFailed}
    BY DEF Inv, TypeOK
  <2>2. processes'[i] = [pn_proc_move_state(processes[i], "starting") EXCEPT !.pid = pids[i]]
    BY <1>1
  <2> QED
    BY <2>1, <2>2, StartOfRecord
<1>6. \A c \in children' : c \in Child /\ c.st = "alive" /\ c.owner \in Instances /\ c.pid = pids[c.owner]
  <2> SUFFICES ASSUME NEW i \in Instances, pids[i] # ForkFailed
               PROVE  /\ Forked(i, pids[i]) \in Child /\ Forked(i, pids[i]).st = "alive"
                      /\ Forked(i, pids[i]).owner = i /\ Forked(i, pids[i]).pid = pids[i]
    BY <1>1
  <2> QED
    BY <1>1, ForkedChild DEF Forked
<1>7. \A i \in Instances : pids[i] # ForkFailed => \E c \in children' : c.owner = i
  <2> SUFFICES ASSUME NEW i \in Instances, pids[i] # ForkFailed
               PROVE  \E c \in children' : c.owner = i
    OBVIOUS
  <2>1. Forked(i, pids[i]) \in children' /\ Forked(i, pids[i]).owner = i
    BY <1>1 DEF Forked
  <2> QED
    BY <2>1
<1>8. TypeOK'
  BY <1>1, <1>2, <1>3, <1>4, <1>5, <1>6 DEF Inv, TypeOK
<1>9. ChildrenAreKnown' /\ PidsAreDistinct'
  <2>1. \A i, j \in Instances : pids[i] = pids[j] => i = j \/ pids[i] \notin Pids
    BY <1>1
  <2>2. \A i, j \in Instances :
          pids[i] = pids[j] /\ pids[i] # ForkFailed => Forked(i, pids[i]) = Forked(j, pids[j])
    BY <1>1
  <2>3. \A c, d \in children' : c.pid = d.pid => c = d
    BY <1>1, <2>2 DEF Forked
  <2> QED
    BY <2>1, <2>3, <1>4, <1>5, <1>6 DEF ChildrenAreKnown, PidsAreDistinct
<1>10. WaitedInOrder'
  BY <1>2, <1>3, <1>4, <1>5, <1>6, <1>7 DEF WaitedInOrder
<1> QED
  BY <1>2, <1>3, <1>8, <1>9, <1>10 DEF Inv, StoredAsAsked

-----------------------------------------------------------------------------
(* Signals and exits change what a child is, not who its parent record is.  *)
LEMMA SameChildren ==
  ASSUME Inv, UNCHANGED <<program, processes, waiting, asked, self>>,
         \A c \in children' : c \in Child /\ (c.st = "dead" => c.status \in Statuses),
         \A c \in children' : \E d \in children : c.owner = d.owner /\ c.pid = d.pid,
         \A d \in children : \E c \in children' : c.owner = d.owner,
         \A c, d \in children' : c.pid = d.pid => c = d
  PROVE  Inv'
<1>1. Instances' = Instances
  BY DEF Instances
<1>2. TypeOK'
  BY <1>1 DEF Inv, TypeOK
<1>3. ChildrenAreKnown' /\ PidsAreDistinct'
  BY <1>1 DEF Inv, ChildrenAreKnown, PidsAreDistinct
<1>4. WaitedInOrder'
  BY <1>1 DEF Inv, WaitedInOrder
<1> QED
  BY <1>2, <1>3, <1>4 DEF Inv, StoredAsAsked

LEMMA SignalInv == ASSUME Inv, pn_prog_signal
                   PROVE  Inv' /\ (\A c \in children : ~Gone(c)) /\ (\A c \in children' : ~New(c))
<1> DEFINE Termed(c) == IF c.st = "alive" /\ \E i \in Instances : processes[i].pid = c.pid
                        THEN [c EXCEPT !.st = "termed"] ELSE c
<1>1. children' = {Termed(c) : c \in children}
  BY DEF pn_prog_signal
<1>2. \A c \in children :
        /\ Termed(c) \in Child /\ Termed(c).owner = c.owner /\ Termed(c).pid = c.pid
        /\ Termed(c).st = "dead" => Termed(c).status \in Statuses
  BY DEF Inv, TypeOK, Child
<1> HIDE DEF Termed
<1> QED
  BY <1>1, <1>2, SameChildren DEF pn_prog_signal, Inv, TypeOK, PidsAreDistinct, Gone, New

LEMMA ExitsInv ==
  ASSUME Inv, NEW c \in children, NEW status \in Statuses, ChildExits(c, status)
  PROVE  Inv' /\ (\A e \in children : ~Gone(e)) /\ (\A e \in children' : ~New(e))
<1> DEFINE d == [c EXCEPT !.st = "dead", !.status = status]
<1>1. children' = (children \ {c}) \cup {d}
  BY DEF ChildExits
<1>2. d \in Child /\ d.owner = c.owner /\ d.pid = c.pid /\ d.status \in Statuses
  BY DEF Inv, TypeOK, Child
<1> HIDE DEF d
<1> QED
  BY <1>1, <1>2, SameChildren DEF ChildExits, Inv, TypeOK, PidsAreDistinct, Gone, New

-----------------------------------------------------------------------------
LEMMA WaitInv == ASSUME Inv, pn_prog_wait PROVE Inv'
<1>1. /\ UNCHANGED <<program, processes, children, asked, self>>
      /\ program.is_running /\ program.nprocs > 0 /\ waiting' = 0
  BY DEF pn_prog_wait
<1>2. Instances' = Instances /\ 0 \in Instances
  BY <1>1 DEF Instances, Inv, TypeOK
<1>3. \A c \in children : 0 <= c.owner
  BY DEF Inv, ChildrenAreKnown, Instances
<1>4. TypeOK' /\ ChildrenAreKnown' /\ PidsAreDistinct'
  BY <1>1, <1>2 DEF Inv, TypeOK, ChildrenAreKnown, PidsAreDistinct
<1>5. WaitedInOrder'
  BY <1>1, <1>2, <1>3 DEF Inv, WaitedInOrder
<1> QED
  BY <1>1, <1>4, <1>5 DEF Inv, StoredAsAsked

(* The wait for an instance leaves it without a child, whichever child it   *)
(* reaped; and unless its fork failed that child was its own.               *)
LEMMA OwnChild ==
  ASSUME Inv, waiting # NULL, NEW c \in children,
         c.pid = processes[waiting].pid \/ c.owner = waiting
  PROVE  /\ c.owner = waiting /\ c.pid = processes[waiting].pid
         /\ pn_proc_running(processes[waiting])
         /\ c \in Waitable(processes[waiting])
         /\ \A d \in children : d.pid = processes[waiting].pid => d = c
  BY DEF Inv, TypeOK, ChildrenAreKnown, PidsAreDistinct, WaitedInOrder, Child,
         pn_proc_running, Waitable

(* What one wait does, whether it reaps a child or finds none to wait for.  *)
LEMMA OneWait ==
  ASSUME Inv, pn_prog_proc_wait
  PROVE  /\ Inv' /\ TellsOwn /\ MeansEnded
<1> DEFINE p == processes[waiting]
<1>1. /\ UNCHANGED <<program, asked, self>> /\ waiting # NULL /\ waiting \in Instances
      /\ waiting' = IF waiting + 1 < program.nprocs THEN waiting + 1 ELSE NULL
  BY DEF pn_prog_proc_wait, Inv, TypeOK
<1>2. Instances' = Instances /\ (\A i \in Instances : i \in Int) /\ program.nprocs \in Int
  BY <1>1 DEF Instances, Inv, TypeOK
<1>3. waiting' \in Instances \cup {NULL} /\ (waiting' # NULL => waiting' = waiting + 1)
  BY <1>1 DEF Instances, Inv, TypeOK
<1>4. /\ TypeOK' /\ ChildrenAreKnown' /\ PidsAreDistinct' /\ TellsOwn
      /\ \A c \in children' : c \in children /\ c.owner # waiting
                            /\ processes'[c.owner].state = "starting"
      /\ \A i \in Instances : processes'[i].pid = processes[i].pid
      /\ \A i \in Instances :
           \/ processes'[i].state = "exited" \/ (\E c \in children' : c.owner = i)
           \/ \E j \in Instances : processes[j].pid = ForkFailed
  <2>1. CASE (~pn_proc_running(p) \/ Waitable(p) = {}) /\ UNCHANGED <<processes, children>>
    <3>1. \A c \in children : c.owner # waiting
      BY <1>1, <2>1, OwnChild
    <3>2. TypeOK' /\ ChildrenAreKnown' /\ PidsAreDistinct' /\ TellsOwn
      BY <1>1, <1>2, <1>3, <2>1
      DEF Inv, TypeOK, ChildrenAreKnown, PidsAreDistinct, TellsOwn, Gone
    <3> QED
      BY <1>1, <2>1, <3>1, <3>2 DEF Inv, WaitedInOrder
  <2>2. CASE \E c \in Waitable(p) :
               /\ pn_proc_running(p) /\ c.st = "dead"
               /\ children' = children \ {c}
               /\ processes' = [processes EXCEPT ![waiting] = pn_proc_exited(@, c.status)]
    <3>1. PICK c \in Waitable(p) :
            /\ c.st = "dead" /\ children' = children \ {c}
            /\ processes' = [processes EXCEPT ![waiting] = pn_proc_exited(@, c.status)]
      BY <2>2
    <3>2. c \in children /\ (p.pid = ForkFailed \/ c.pid = p.pid)
      BY DEF Waitable
    <3>3. p.pid # ForkFailed => c.owner = waiting
      BY <1>1, <3>2, OwnChild
    <3>4. \A d \in children : d.owner = waiting => d = c
      BY <1>1, <3>2, OwnChild, PidAssumption DEF Inv, TypeOK, Child
    <3>5. processes'[waiting] \in Process /\ processes'[waiting].state = "exited"
          /\ processes'[waiting].pid = p.pid
      BY <1>1, <3>1, <3>2, ExitOfRecord DEF Inv, TypeOK, Child
    <3>6. \A i \in Instances : i # waiting => processes'[i] = processes[i]
      BY <1>1, <3>1 DEF Inv, TypeOK
    <3>7. TypeOK'
      BY <1>1, <1>2, <1>3, <3>1, <3>5, <3>6 DEF Inv, TypeOK
    <3>8. ChildrenAreKnown' /\ PidsAreDistinct'
      BY <1>2, <3>1, <3>5, <3>6 DEF Inv, ChildrenAreKnown, PidsAreDistinct
    <3>9. TellsOwn
      BY <3>1, <3>3 DEF TellsOwn, Gone
    <3> QED
      BY <1>1, <3>1, <3>2, <3>3, <3>4, <3>5, <3>6, <3>7, <3>8, <3>9
      DEF Inv, ChildrenAreKnown, WaitedInOrder
  <2> QED
    BY <2>1, <2>2 DEF pn_prog_proc_wait
<1>5. \A c \in children' : waiting < c.owner /\ c.owner \in Instances
  <2> SUFFICES ASSUME NEW c \in children' PROVE waiting < c.owner /\ c.owner \in Instances
    OBVIOUS
  <2>1. c \in children /\ c.owner # waiting
    BY <1>4
  <2>2. c.owner \in Instances /\ waiting <= c.owner
    BY <1>1, <2>1 DEF Inv, ChildrenAreKnown, WaitedInOrder
  <2>3. waiting \in Int /\ c.owner \in Int
    <3>1. waiting \in Instances
      BY <1>1
    <3> QED
      BY <1>2, <2>2, <3>1
  <2> QED
    BY <2>1, <2>2, <2>3
<1>6. WaitedInOrder'
  <2>1. waiting' # NULL => \A c \in children' : waiting' <= c.owner
    <3> SUFFICES ASSUME waiting' # NULL, NEW c \in children' PROVE waiting' <= c.owner
      OBVIOUS
    <3>1. waiting \in Int /\ c.owner \in Int /\ waiting < c.owner
      <4>1. waiting \in Instances
        BY <1>1
      <4> QED
        BY <1>2, <1>5, <4>1
    <3> QED
      BY <1>3, <3>1
  <2>2. program.is_running
    BY <1>1 DEF Inv, WaitedInOrder
  <2>3. program' = program
    BY <1>1
  <2> QED
    BY <1>2, <1>4, <2>1, <2>2, <2>3 DEF WaitedInOrder
<1>7. MeansEnded
  <2> SUFFICES ASSUME waiting' = NULL
               PROVE  /\ children' = {}
                      /\ \/ \E i \in Instances : processes[i].pid = ForkFailed
                         \/ \A i \in Instances : processes'[i].state = "exited"
    BY DEF MeansEnded
  <2>1. waiting + 1 >= program.nprocs
    BY <1>1, <1>2
  <2>2. children' = {}
    BY <1>1, <1>2, <1>5, <2>1 DEF Instances
  <2> QED
    BY <1>4, <2>2
<1> QED
  BY <1>1, <1>4, <1>6, <1>7 DEF Inv, StoredAsAsked

-----------------------------------------------------------------------------
LEMMA StepInv ==
  ASSUME Inv, [Next]_vars PROVE Inv'
<1>1. CASE UNCHANGED vars
  BY <1>1 DEF vars, Inv, TypeOK, ChildrenAreKnown, PidsAreDistinct, WaitedInOrder, Instances,
              StoredAsAsked
<1> QED
  BY <1>1, SetInv, StartInv, SignalInv, WaitInv, OneWait, ExitsInv DEF Next

(* The records and the children agree in every reachable state: however     *)
(* options are set, whichever forks fail, and in whatever order children    *)
(* end and are waited for.                                                  *)
THEOREM ProgramInvariance == Spec => []Inv
  BY InitInv, StepInv, PTL DEF Spec

(* Signals and waits reach every child there is.                            *)
THEOREM ChildrenKnown == Spec => []ChildrenAreKnown
  BY ProgramInvariance, PTL DEF Inv

(* A wait reports the end of the instance's own child unless its fork       *)
(* failed; when pn_prog_wait returns there is no child left, and every      *)
(* instance has exited unless a fork failed.                                *)
THEOREM WaitsAreTrue == Spec => WaitIsTrue
<1>1. ASSUME Inv, [Next]_vars PROVE [TellsOwn /\ MeansEnded]_vars
  <2> SUFFICES ASSUME Next PROVE TellsOwn /\ MeansEnded
    BY <1>1
  <2>1. CASE pn_prog_proc_wait
    BY <1>1, <2>1, OneWait
  <2>2. CASE pn_prog_start
    BY <2>2 DEF pn_prog_start, TellsOwn, MeansEnded
  <2>3. CASE pn_prog_signal
    BY <1>1, <2>3, SignalInv DEF pn_prog_signal, TellsOwn, MeansEnded
  <2>4. CASE pn_prog_wait
    BY <2>4 DEF pn_prog_wait, TellsOwn, MeansEnded, Gone
  <2>5. CASE \E c \in children, status \in Statuses : ChildExits(c, status)
    BY <1>1, <2>5, ExitsInv DEF ChildExits, TellsOwn, MeansEnded
  <2>6. CASE \E offer \in Offers : pn_prog_set(offer.option, offer.value, offer.sized)
    BY <2>6 DEF pn_prog_set, TellsOwn, MeansEnded, Gone
  <2> QED
    BY <2>1, <2>2, <2>3, <2>4, <2>5, <2>6 DEF Next
<1> QED
  BY <1>1, ProgramInvariance, PTL DEF Spec, WaitIsTrue

(* What gets through the child's side of a start has the ids asked for.     *)
LEMMA IdentityIsAsked ==
  ASSUME Inv, NEW as \in Identity
  PROVE  /\ IdIsAsked(as.uid, "USER", "UID", Users, self.uid)
         /\ IdIsAsked(as.gid, "GROUP", "GID", Groups, self.gid)
<1>1. /\ as.uid = program.uid /\ MaySet(self.uid, self.uid, as.uid)
      /\ as.gid = program.gid /\ MaySet(self.uid, self.gid, as.gid)
  <2>1. /\ as = [uid |-> program.uid, gid |-> program.gid, nice |-> program.nice]
        /\ MaySet(self.uid, self.gid, as.gid) /\ MaySet(self.uid, self.uid, as.uid)
    BY Zenon DEF Identity
  <2> QED
    BY <2>1
<1>2. as.uid # NoId /\ as.gid # NoId
  BY <1>1 DEF MaySet, NoId, Inv, TypeOK
<1>3. IdIsAsked(as.uid, "USER", "UID", Users, self.uid)
  <2>1. StoredAsAsked(as.uid, "USER", "UID", Users, self.uid)
    BY <1>1 DEF Inv
  <2>2. CASE asked["USER"] # NULL
    BY <1>2, <2>1, <2>2 DEF StoredAsAsked, IdIsAsked, Lookup
  <2>3. CASE asked["USER"] = NULL
    BY <2>1, <2>3 DEF StoredAsAsked, IdIsAsked
  <2> QED
    BY <2>2, <2>3
<1>4. IdIsAsked(as.gid, "GROUP", "GID", Groups, self.gid)
  <2>1. StoredAsAsked(as.gid, "GROUP", "GID", Groups, self.gid)
    BY <1>1 DEF Inv
  <2>2. CASE asked["GROUP"] # NULL
    BY <1>2, <2>1, <2>2 DEF StoredAsAsked, IdIsAsked, Lookup
  <2>3. CASE asked["GROUP"] = NULL
    BY <2>1, <2>3 DEF StoredAsAsked, IdIsAsked
  <2> QED
    BY <2>2, <2>3
<1> QED
  BY <1>3, <1>4

(* Only a start makes a child that was not there.                           *)
LEMMA OnlyStartsFork ==
  ASSUME Inv, Next, NEW c \in children', New(c)
  PROVE  pn_prog_start /\ c.as = Identity
<1>1. CASE pn_prog_start
  <2>1. c.as = Identity
    BY <1>1 DEF pn_prog_start, Forked
  <2> QED
    BY <1>1, <2>1
<1>2. CASE pn_prog_proc_wait
  BY <1>2 DEF pn_prog_proc_wait, New
<1>3. CASE pn_prog_signal
  BY <1>3, SignalInv
<1>4. CASE pn_prog_wait
  BY <1>4 DEF pn_prog_wait, New
<1>5. CASE \E d \in children, status \in Statuses : ChildExits(d, status)
  BY <1>5, ExitsInv
<1>6. CASE \E offer \in Offers : pn_prog_set(offer.option, offer.value, offer.sized)
  BY <1>6 DEF pn_prog_set, New
<1> QED
  BY <1>1, <1>2, <1>3, <1>4, <1>5, <1>6 DEF Next

(* A command runs only as the user and group last asked for; with a name    *)
(* that was not found it does not run.                                      *)
THEOREM RunAsAsked == Spec => RunsAsAsked
<1>1. ASSUME Inv, [Next]_vars PROVE [\A c \in children' : New(c) => AsAsked(c)]_vars
  <2> SUFFICES ASSUME Next, NEW c \in children', New(c) PROVE AsAsked(c)
    BY <1>1
  <2>1. c.as = Identity
    BY <1>1, OnlyStartsFork
  <2> QED
    BY <1>1, <2>1, IdentityIsAsked DEF AsAsked
<1> QED
  BY <1>1, ProgramInvariance, PTL DEF Spec, RunsAsAsked

(* From root every identity can be taken on that exists, unless niceness is *)
(* to be lowered: no step of the child's side takes away the right to the   *)
(* next.                                                                    *)
THEOREM RootStarts == Spec => RootCanStart
<1>1. ASSUME Inv, [Next]_vars PROVE [\A c \in children' : New(c) => RootsChild(c)]_vars
  <2> SUFFICES ASSUME Next, NEW c \in children', New(c), self.uid = 0,
                      NoId \notin {program.uid, program.gid}, program.nice >= 0
               PROVE  c.as # {}
    BY <1>1 DEF RootsChild
  <2> DEFINE as == [uid |-> program.uid, gid |-> program.gid, nice |-> program.nice]
  <2>1. program.nice = 0 \/ (program.nice # -1 /\ program.nice > 0)
    BY <1>1 DEF Inv, TypeOK
  <2>2. as \in Identity
    BY <2>1 DEF Identity, MaySet
  <2> QED
    BY <1>1, <2>2, OnlyStartsFork
<1> QED
  BY <1>1, ProgramInvariance, PTL DEF Spec, RootCanStart

-----------------------------------------------------------------------------
(* The options whose reading ReadBack is about, and where they are stored;  *)
(* IONICE, set after NICE, is stored there too.                             *)
Readable == DOMAIN Answered \ {"IONICE"}

FieldOf(o) == IF o = "NUMPROCS" THEN "nprocs" ELSE Stored[o]

Lasts(o) == asked[o] # NULL /\ (o = "NICE" => asked["IONICE"] = NULL)

FieldsRead == \A o \in Readable : Lasts(o) => program[FieldOf(o)] = asked[o]

LEMMA ReadIsField == (ReadBack <=> FieldsRead) /\ (ReadBack' <=> FieldsRead')
<1>1. \A o \in Readable : pn_prog_get(o) = [result |-> "PN_OK", value |-> program[FieldOf(o)]]
  BY DEF Readable, Answered, Stored, FieldOf, pn_prog_get
<1>2. \A o \in Readable : pn_prog_get(o)' = [result |-> "PN_OK", value |-> program'[FieldOf(o)]]
  BY DEF Readable, Answered, Stored, FieldOf, pn_prog_get
<1>3. \A o \in Readable : ReadAs(o, asked[o]) <=> program[FieldOf(o)] = asked[o]
  BY <1>1 DEF ReadAs
<1>4. \A o \in Readable : ReadAs(o, asked[o])' <=> program'[FieldOf(o)] = asked'[o]
  BY <1>2 DEF ReadAs
<1>5. ReadBack <=> FieldsRead
  BY <1>3 DEF ReadBack, FieldsRead, Lasts, Readable
<1>6. ReadBack' <=> FieldsRead'
  BY <1>4 DEF ReadBack, FieldsRead, Lasts, Readable, FieldOf
<1> QED
  BY <1>5, <1>6

LEMMA ReadableOptions ==
  /\ Readable \subseteq DOMAIN Stored \cup {"NUMPROCS"}
  /\ Readable \cup {"IONICE"} \subseteq program_options
  /\ \A o \in Readable :
       FieldOf(o) \in {"name", "command", "args", "nprocs", "uid", "gid", "nice"}
  /\ \A o \in DOMAIN Stored : Stored[o] # "nprocs" /\ FieldOf(o) = Stored[o]
  /\ \A o \in Readable, p \in DOMAIN Stored \cup {"NUMPROCS"} :
       FieldOf(o) = FieldOf(p) =>
         o = p \/ Overrides(o, p) \/ (o = "NICE" /\ p = "IONICE")
  /\ \A o, p \in DOMAIN Stored \cup {"NUMPROCS"} :
       Overrides(o, p) => o \notin {"NICE", "IONICE"}
BY DEF Readable, Answered, Stored, FieldOf, Overrides, program_options

(* An option that is set leaves those stored elsewhere as they were, and    *)
(* those by which the same is asked for count as not set.                   *)
LEMMA SetIsRead ==
  ASSUME TypeOK, FieldsRead, NEW o \in DOMAIN Stored \cup {"NUMPROCS"}, NEW v, v # NULL,
         NEW stored, o \in Readable => stored = v,
         NEW field, field = FieldOf(o), program' = [program EXCEPT ![field] = stored],
         asked' = [p \in program_options |->
                     IF p = o THEN v ELSE IF Overrides(p, o) THEN NULL ELSE asked[p]]
  PROVE  FieldsRead'
<1> SUFFICES ASSUME NEW p \in Readable, asked'[p] # NULL,
                    p = "NICE" => asked'["IONICE"] = NULL
             PROVE  program'[FieldOf(p)] = asked'[p]
  BY DEF FieldsRead, FieldOf, Lasts
<1>1. p \in program_options /\ FieldOf(p) \in DOMAIN program /\ "IONICE" \in program_options
  BY ReadableOptions DEF TypeOK
<1>2. CASE p = o
  BY <1>1, <1>2
<1>3. CASE p # o
  <2>1. ~Overrides(p, o) /\ asked[p] # NULL /\ asked'[p] = asked[p]
    BY <1>1, <1>3
  <2>2. p = "NICE" => o # "IONICE" /\ asked["IONICE"] = NULL
    <3>1. ~Overrides("IONICE", o)
      BY ReadableOptions DEF Stored
    <3> QED
      BY <1>1, <3>1
  <2>3. FieldOf(p) # FieldOf(o)
    BY <1>3, <2>1, <2>2, ReadableOptions
  <2>4. program[FieldOf(p)] = asked[p]
    BY <2>1, <2>2 DEF FieldsRead, Lasts
  <2> QED
    BY <1>1, <2>1, <2>3, <2>4
<1> QED
  BY <1>2, <1>3

(* What was set last is what is read, of every option that can be read but  *)
(* IONICE, and of NICE while IONICE was not set.                            *)
THEOREM WhatWasSetIsRead == Spec => []ReadBack
<1>1. Init => FieldsRead
  BY ReadableOptions DEF Init, FieldsRead, Lasts
<1>2. ASSUME Inv, FieldsRead, [Next]_vars PROVE FieldsRead'
  <2>1. CASE UNCHANGED <<program, asked>>
    BY <1>2, <2>1 DEF FieldsRead, FieldOf, Lasts
  <2>2. CASE pn_prog_start
    <3>1. program' = [program EXCEPT !.is_running = TRUE] /\ asked' = asked
      BY <2>2 DEF pn_prog_start
    <3>2. ASSUME NEW o \in Readable PROVE program'[FieldOf(o)] = program[FieldOf(o)]
      <4>1. FieldOf(o) \in DOMAIN program /\ FieldOf(o) # "is_running"
        BY <1>2, ReadableOptions DEF Inv, TypeOK
      <4> QED
        BY <3>1, <4>1
    <3> QED
      BY <1>2, <3>1, <3>2 DEF FieldsRead, FieldOf, Lasts
  <2>3. ASSUME NEW offer \in Offers, pn_prog_set(offer.option, offer.value, offer.sized)
        PROVE  FieldsRead'
    <3> DEFINE o == offer.option
               v == offer.value
               field == FieldOf(o)
               asks == [p \in program_options |->
                          IF p = o THEN v ELSE IF Overrides(p, o) THEN NULL ELSE asked[p]]
    <3>1. /\ asked' = asks /\ TypeOK /\ v # NULL
          /\ \/ /\ o \in DOMAIN Stored
                /\ \E x \in ValuesOf(o, v) : program' = [program EXCEPT ![Stored[o]] = x]
             \/ o = "NUMPROCS" /\ program' = [program EXCEPT !.nprocs = v]
      BY <1>2, <2>3, OfferAssumption DEF pn_prog_set, Inv
    <3> HIDE DEF o, v
    <3>2. PICK x : /\ program' = [program EXCEPT ![field] = x]
                   /\ o \in Readable => x = v
      BY <3>1 DEF FieldOf, Stored, ValuesOf, Readable, Answered
    <3>3. field = FieldOf(o) /\ o \in DOMAIN Stored \cup {"NUMPROCS"}
      BY <3>1
    <3> HIDE DEF field, asks
    <3> QED
      BY <1>2, <3>1, <3>2, <3>3, SetIsRead DEF asks
  <2>4. CASE UNCHANGED vars
    BY <2>1, <2>4 DEF vars
  <2>5. CASE pn_prog_signal \/ pn_prog_wait \/ pn_prog_proc_wait
    BY <2>1, <2>5 DEF pn_prog_signal, pn_prog_wait, pn_prog_proc_wait
  <2>6. CASE \E c \in children, status \in Statuses : ChildExits(c, status)
    BY <2>1, <2>6 DEF ChildExits
  <2> QED
    BY <1>2, <2>2, <2>3, <2>4, <2>5, <2>6 DEF Next
<1> QED
  BY <1>1, <1>2, ReadIsField, ProgramInvariance, PTL DEF Spec
=============================================================================
