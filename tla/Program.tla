------------------------------ MODULE Program ------------------------------
(***************************************************************************)
(* A program as src/program.h offers it: options are set and read, all     *)
(* instances are started, waited for and signalled together                *)
(* (src/program.c, pn_proc_wait and the child's side of pn_proc_start in   *)
(* src/process.c, the lookups of src/pn_util.c).                           *)
(*                                                                         *)
(* The daemon sets options and leaves the rest to libev; this is the       *)
(* library for callers that use all of it.  Such a caller is one thread,   *)
(* starts the program again only when it has waited for it, and has set    *)
(* state_cb to NULL, which pn_prog_init leaves as malloc() returned it.    *)
(***************************************************************************)
EXTENDS ProcessState

CONSTANTS
  DaemonIds,   \* what getuid() and getgid() may return; user 0 is root
  Users,       \* the user database: a function from names to uids
  Groups,      \* the group database
  Offers,      \* what callers pass to pn_prog_set
  NULL,
  Statuses,    \* the wait statuses children end with
  FlapBound    \* bound: a program is not started with more flaps than that

NoId == -1

ASSUME IdAssumption == DaemonIds \subseteq [uid : Nat, gid : Nat]
ASSUME StatusAssumption == Statuses \subseteq WaitStatus /\ FlapBound \in Nat
ASSUME NullAssumption == NULL \notin Int

Ids == Nat \cup {NoId}

ASSUME OfferAssumption ==
  /\ \A offer \in Offers :
       /\ offer.value # NULL
       /\ offer.option \in {"NUMPROCS", "NICE", "IONICE"} => offer.value \in Int
       /\ offer.option \in {"UID", "GID"} => offer.value \in Ids
  /\ \A name \in DOMAIN Users : Users[name] \in Nat
  /\ \A name \in DOMAIN Groups : Groups[name] \in Nat

VARIABLES
  program,     \* the fields of program_t
  processes,   \* program->processes
  children,    \* kernel: children forked and not yet reaped
  waiting,     \* the instance pn_prog_wait waits for, or NULL
  asked,       \* history: what the caller last set, NULL where overridden
  self         \* what getuid() and getgid() return

vars == <<program, processes, children, waiting, asked, self>>

(* The field an option is stored in, and the one it is read from; mutant:   *)
(* the niceness is read from the other field.                               *)
Stored == [NAME |-> "name", COMMAND |-> "command", ARGS |-> "args",
           UID |-> "uid", USER |-> "uid", GID |-> "gid", GROUP |-> "gid",
           NICE |-> "nice", IONICE |-> "nice"]

Answered_Ionice == [NAME |-> "name", COMMAND |-> "command", ARGS |-> "args",
             NUMPROCS |-> "nprocs", UID |-> "uid", GID |-> "gid",
             NICE |-> "ionice", IONICE |-> "ionice"]

Answered == [NAME |-> "name", COMMAND |-> "command", ARGS |-> "args",
             NUMPROCS |-> "nprocs", UID |-> "uid", GID |-> "gid",
             NICE |-> "nice", IONICE |-> "ionice"]

program_options == DOMAIN Stored \cup {"NUMPROCS", "DATA", "LIMIT_FILES"}

(* Mutant: the group defaults to the number of the user.                    *)
pn_prog_init_UserTwice ==
  [name |-> NULL, command |-> NULL, args |-> NULL, nprocs |-> 1, is_running |-> FALSE,
   uid |-> self.uid, gid |-> self.uid, nice |-> 0, ionice |-> 0]

pn_prog_init ==
  [name |-> NULL, command |-> NULL, args |-> NULL, nprocs |-> 1, is_running |-> FALSE,
   uid |-> self.uid, gid |-> self.gid, nice |-> 0, ionice |-> 0]

Instances == 0 .. program.nprocs - 1

Init ==
  /\ self \in DaemonIds
  /\ program = pn_prog_init
  /\ processes = [i \in Instances |-> pn_proc_init]
  /\ children = {}
  /\ waiting = NULL
  /\ asked = [o \in program_options |-> NULL]

-----------------------------------------------------------------------------
\* What looking a name up may yield: a lookup fails if nobody has the name,
\* and also if the entry does not fit the buffer or the database cannot be read.
Lookup(database, name) == {NoId} \cup {database[n] : n \in {name} \cap DOMAIN database}

(* Mutant: a lookup that fails leaves the old id.                           *)
pn_util_uid_Keeps(name) ==
  {program.uid} \cup {Users[n] : n \in {name} \cap DOMAIN Users}

\* What the lookups may store; their result is not looked at.
pn_util_uid(name) == Lookup(Users, name)

pn_util_gid(name) == Lookup(Groups, name)

Sized == {"NUMPROCS", "UID", "GID", "NICE", "IONICE", "LIMIT_FILES"}

(* Mutant: the number of instances may change while the program runs.       *)
SetResult_AnyTime(o, sized) ==
  IF o \notin program_options \ {"DATA"} THEN "PN_OPTION_INVALID"
  ELSE IF o \in Sized /\ ~sized THEN "PN_OPTION_BAD_VALUE"
  ELSE "PN_OK"

SetResult(o, sized) ==
  IF o \notin program_options \ {"DATA"} THEN "PN_OPTION_INVALID"
  ELSE IF (o \in Sized /\ ~sized) \/ (o = "NUMPROCS" /\ program.is_running)
  THEN "PN_OPTION_BAD_VALUE"
  ELSE "PN_OK"

ValuesOf(o, v) ==
  CASE o = "USER" -> pn_util_uid(v) [] o = "GROUP" -> pn_util_gid(v) [] OTHER -> {v}

\* Two options by which the same id is asked for; NICE and IONICE are not
\* meant to be such options.
Overrides(o, p) == {o, p} \in {{"UID", "USER"}, {"GID", "GROUP"}}

(* Mutant: the array of processes is not made anew.                         *)
pn_prog_set_KeepsArray(o, v, sized) ==
  /\ waiting = NULL
  /\ SetResult(o, sized) = "PN_OK"
  /\ o \in DOMAIN Stored \cup {"NUMPROCS"}
  /\ program' \in IF o = "NUMPROCS" THEN {[program EXCEPT !.nprocs = v]}
                  ELSE {[program EXCEPT ![Stored[o]] = x] : x \in ValuesOf(o, v)}
  /\ asked' = [p \in program_options |->
                 IF p = o THEN v ELSE IF Overrides(p, o) THEN NULL ELSE asked[p]]
  /\ UNCHANGED <<processes, children, waiting, self>>

(* Refused calls change nothing; LIMIT_FILES is accepted and ignored.       *)
pn_prog_set(o, v, sized) ==
  /\ waiting = NULL
  /\ SetResult(o, sized) = "PN_OK"
  /\ \/ /\ o \in DOMAIN Stored
        /\ \E x \in ValuesOf(o, v) : program' = [program EXCEPT ![Stored[o]] = x]
        /\ UNCHANGED processes
     \/ /\ o = "NUMPROCS"
        /\ program' = [program EXCEPT !.nprocs = v]
        /\ processes' = [i \in 0 .. v - 1 |-> pn_proc_init]
  /\ asked' = [p \in program_options |->
                 IF p = o THEN v ELSE IF Overrides(p, o) THEN NULL ELSE asked[p]]
  /\ UNCHANGED <<children, waiting, self>>

(* The result and the value, NULL when none is written.  The caller that    *)
(* asks for the USER is told that all went well.                            *)
pn_prog_get(o) ==
  IF o \in DOMAIN Answered THEN [result |-> "PN_OK", value |-> program[Answered[o]]]
  ELSE [result |-> IF o = "USER" THEN "PN_OK" ELSE "PN_OPTION_INVALID", value |-> NULL]

-----------------------------------------------------------------------------
(* The child between fork() and execvp().                                   *)

\* setgid() and setuid(), called with effective uid by one whose id is own.
MaySet(uid, own, id) == id = own \/ (uid = 0 /\ id # NoId)

(* Mutant: the user is given up before the group is changed.                *)
Identity_UserFirst ==
  {as \in {[uid |-> program.uid, gid |-> program.gid, nice |-> program.nice]} :
     /\ MaySet(self.uid, self.uid, as.uid)
     /\ MaySet(as.uid, self.gid, as.gid)
     /\ as.nice = 0 \/ (as.nice # -1 /\ (as.nice > 0 \/ as.uid = 0))}

(* What the command runs as; nothing if the child aborts.  The result of    *)
(* nice() is the new niceness, so that of -1 is taken for a failure;        *)
(* lowering it takes root, and the user's id is set by then.  The daemon's  *)
(* own niceness is 0.                                                       *)
Identity ==
  {as \in {[uid |-> program.uid, gid |-> program.gid, nice |-> program.nice]} :
     /\ MaySet(self.uid, self.gid, as.gid)
     /\ MaySet(self.uid, self.uid, as.uid)
     /\ as.nice = 0 \/ (as.nice # -1 /\ (as.nice > 0 \/ as.uid = 0))}

Forked(i, pid) == [pid |-> pid, owner |-> i, as |-> Identity, st |-> "alive", status |-> NULL]

(* Every instance is started; every fork() may fail.                        *)
pn_prog_start ==
  /\ waiting = NULL /\ children = {}
  /\ \A i \in Instances : processes[i].flap_count <= FlapBound
  /\ program' = [program EXCEPT !.is_running = TRUE]
  /\ \E pids \in [Instances -> Pids \cup {ForkFailed}] :
       /\ \A i, j \in Instances : pids[i] = pids[j] => i = j \/ pids[i] = ForkFailed
       /\ processes' = [i \in Instances |->
            [pn_proc_move_state(processes[i], "starting") EXCEPT !.pid = pids[i]]]
       /\ children' = {Forked(i, pids[i]) : i \in {j \in Instances : pids[j] # ForkFailed}}
  /\ UNCHANGED <<waiting, asked, self>>

pn_prog_signal ==
  /\ waiting = NULL
  /\ children' = {IF c.st = "alive" /\ \E i \in Instances : processes[i].pid = c.pid
                  THEN [c EXCEPT !.st = "termed"] ELSE c : c \in children}
  /\ UNCHANGED <<program, processes, waiting, asked, self>>

-----------------------------------------------------------------------------
(* External: a child ends.                                                  *)
ChildExits(c, status) ==
  /\ c.st # "dead"
  /\ children' = (children \ {c}) \cup {[c EXCEPT !.st = "dead", !.status = status]}
  /\ UNCHANGED <<program, processes, waiting, asked, self>>

pn_prog_wait ==
  /\ waiting = NULL
  /\ program.is_running /\ program.nprocs > 0
  /\ waiting' = 0
  /\ UNCHANGED <<program, processes, children, asked, self>>

(* Mutant: an instance counts as running once it is declared so.            *)
pn_proc_running_Declared(p) == p.state = "running"

pn_proc_running(p) == p.state \notin {"exited", "backoff"}

\* Mutant: waitpid() is asked for any child.
Waitable_Any(p) == children

(* The children waitpid() waits for: the one with the pid, or any child     *)
(* when the pid is the -1 of a failed fork.                                 *)
Waitable(p) == {c \in children : p.pid = ForkFailed \/ c.pid = p.pid}

(* Mutant: waitpid() is called again when it fails.                         *)
pn_prog_proc_wait_Insists ==
  /\ waiting # NULL
  /\ LET p == processes[waiting]
         next == IF waiting + 1 < program.nprocs THEN waiting + 1 ELSE NULL
     IN \/ /\ ~pn_proc_running(p) \/ Waitable(p) = {}
           /\ waiting' = IF pn_proc_running(p) THEN waiting ELSE next
           /\ UNCHANGED <<processes, children>>
        \/ \E c \in Waitable(p) :
             /\ pn_proc_running(p) /\ c.st = "dead"
             /\ children' = children \ {c}
             /\ processes' = [processes EXCEPT ![waiting] = pn_proc_exited(@, c.status)]
             /\ waiting' = next
  /\ UNCHANGED <<program, asked, self>>

(* One instance is waited for: it has exited already, or there is no such   *)
(* child, or a child is dead and reaped.  Else the caller is blocked.       *)
pn_prog_proc_wait ==
  /\ waiting # NULL
  /\ LET p == processes[waiting]
     IN \/ /\ ~pn_proc_running(p) \/ Waitable(p) = {}
           /\ UNCHANGED <<processes, children>>
        \/ \E c \in Waitable(p) :
             /\ pn_proc_running(p) /\ c.st = "dead"
             /\ children' = children \ {c}
             /\ processes' = [processes EXCEPT ![waiting] = pn_proc_exited(@, c.status)]
  /\ waiting' = IF waiting + 1 < program.nprocs THEN waiting + 1 ELSE NULL
  /\ UNCHANGED <<program, asked, self>>

Next ==
  \/ \E offer \in Offers : pn_prog_set(offer.option, offer.value, offer.sized)
  \/ pn_prog_start \/ pn_prog_signal \/ pn_prog_wait \/ pn_prog_proc_wait
  \/ \E c \in children, status \in Statuses : ChildExits(c, status)

Spec == Init /\ [][Next]_vars

(* A caller in pn_prog_wait goes on when it can.  Children need not end.    *)
FairSpec == Spec /\ WF_vars(pn_prog_proc_wait)
-----------------------------------------------------------------------------
Credentials == [uid : Nat, gid : Nat, nice : Int]
Child == [pid : Pids, owner : Nat, as : SUBSET Credentials,
          st : {"alive", "termed", "dead"}, status : Statuses \cup {NULL}]

TypeOK ==
  /\ DOMAIN program = {"name", "command", "args", "nprocs", "is_running",
                       "uid", "gid", "nice", "ionice"}
  /\ program.nprocs \in Int /\ program.is_running \in BOOLEAN
  /\ program.uid \in Ids /\ program.gid \in Ids /\ program.nice \in Int
  /\ processes \in [Instances -> Process]
  /\ \A c \in children : c \in Child /\ (c.st = "dead" => c.status \in Statuses)
  /\ waiting \in Instances \cup {NULL}
  /\ self \in DaemonIds /\ DOMAIN asked = program_options

(* Every child is named by the record of its instance, so that signals and  *)
(* waits reach it: the records are never replaced while there are children, *)
(* although is_running is the only thing that guards them.                  *)
ChildrenAreKnown ==
  \A c \in children : c.owner \in Instances /\ processes[c.owner].pid = c.pid

\* A pid names one child, and one instance.
PidsAreDistinct ==
  /\ \A c, d \in children : c.pid = d.pid => c = d
  /\ \A i, j \in Instances :
       processes[i].pid = processes[j].pid => i = j \/ processes[i].pid \notin Pids

(* There are children only of a program that is running, of instances not   *)
(* yet waited for; and if no fork failed the children are all that is left. *)
WaitedInOrder ==
  /\ \A c \in children : program.is_running /\ processes[c.owner].state = "starting"
  /\ waiting # NULL => program.is_running /\ \A c \in children : waiting <= c.owner
  /\ \A i \in Instances :
       program.is_running =>
         \/ processes[i].state = "exited" \/ (\E c \in children : c.owner = i)
         \/ \E j \in Instances : processes[j].pid = ForkFailed

\* An id is stored as the last call that named or numbered it left it.
StoredAsAsked(id, name, number, database, own) ==
  IF asked[name] # NULL THEN id \in Lookup(database, asked[name])
  ELSE id = IF asked[number] # NULL THEN asked[number] ELSE own

(* The records and the kernel's children agree, and the ids with what was   *)
(* asked for, whatever is set, started, signalled and waited for, and       *)
(* whichever forks fail.                                                    *)
Inv ==
  /\ TypeOK
  /\ ChildrenAreKnown
  /\ PidsAreDistinct
  /\ WaitedInOrder
  /\ StoredAsAsked(program.uid, "USER", "UID", Users, self.uid)
  /\ StoredAsAsked(program.gid, "GROUP", "GID", Groups, self.gid)

ReadAs(o, value) == pn_prog_get(o) = [result |-> "PN_OK", value |-> value]

(* pn_prog_get tells what was last set, whatever was set besides, ids by    *)
(* name and calls that were refused included.  Of NICE this is said only as *)
(* long as IONICE was not set, see PrioritiesReadBack.                      *)
ReadBack ==
  \A o \in DOMAIN Answered \ {"IONICE"} :
    asked[o] # NULL /\ (o = "NICE" => asked["IONICE"] = NULL) => ReadAs(o, asked[o])

New(c) == \A d \in children : d.pid # c.pid
Gone(c) == \A d \in children' : d.pid # c.pid

\* id is what the caller asked for by name or by number, else the daemon's.
IdIsAsked(id, name, number, database, own) ==
  IF asked[name] # NULL
  THEN asked[name] \in DOMAIN database /\ id = database[asked[name]]
  ELSE id = IF asked[number] # NULL THEN asked[number] ELSE own

AsAsked(c) ==
  \A as \in c.as :
    /\ IdIsAsked(as.uid, "USER", "UID", Users, self.uid)
    /\ IdIsAsked(as.gid, "GROUP", "GID", Groups, self.gid)

(* A command runs only as the user and group last asked for: with a name    *)
(* that was not found, which pn_prog_set accepts, it does not run at all.   *)
RunsAsAsked == [][\A c \in children' : New(c) => AsAsked(c)]_vars

RootsChild(c) ==
  self.uid = 0 /\ NoId \notin {program.uid, program.gid} /\ program.nice >= 0 => c.as # {}

(* A daemon that is root can run a command as any user and group whose ids  *)
(* were given or found, unless the niceness is to be lowered.               *)
RootCanStart == [][\A c \in children' : New(c) => RootsChild(c)]_vars

\* A wait tells how the instance's own child ended; that of another is told
\* only of an instance whose fork failed.
TellsOwn ==
  \A c \in children : Gone(c) => c.owner = waiting \/ processes[waiting].pid = ForkFailed

\* When pn_prog_wait returns no child is left, although the waits for
\* instances whose fork failed took those of others; and every instance has
\* exited if no fork failed.
MeansEnded ==
  waiting # NULL /\ waiting' = NULL =>
    /\ children' = {}
    /\ \/ \E i \in Instances : processes[i].pid = ForkFailed
       \/ \A i \in Instances : processes'[i].state = "exited"

(* What a wait reports of an instance is true of it, and what it means that *)
(* pn_prog_wait returned, also after forks failed; but of an instance whose *)
(* own fork failed the end of another's child may be reported.              *)
WaitIsTrue == [][TellsOwn /\ MeansEnded]_vars

(* Once all the children are dead pn_prog_wait returns, also when there are *)
(* fewer of them than instances.                                            *)
WaitReturns == waiting # NULL /\ (\A c \in children : c.st = "dead") ~> waiting = NULL

-----------------------------------------------------------------------------
(* Statements of the repository that the code does not keep.                *)

(* program.h gives a program two priorities, "the nice level" and "the      *)
(* ionice level": each is read as it was last set.                          *)
PrioritiesReadBack ==
  \A o \in {"NICE", "IONICE"} : asked[o] # NULL => ReadAs(o, asked[o])
=============================================================================
