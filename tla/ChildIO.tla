------------------------------ MODULE ChildIO ------------------------------
(***************************************************************************)
(* How the daemon relays what its children print: the pipes made by        *)
(* pn_proc_start (src/process.c), the ev_io watchers of pn_proc_watch_io,  *)
(* and child_io_cb, which reads until the pipe is dry or at its end        *)
(* (src/procnanny.c).                                                      *)
(*                                                                         *)
(* The death of a process, the end of its output and its restart come in   *)
(* any order: a process the child left behind ("heir") may hold the pipes  *)
(* open long after the child is gone.  child_io_cb is not one step: the    *)
(* writers run while it reads.                                             *)
(*                                                                         *)
(* Of the data only the number of chunks in a pipe is kept.                *)
(***************************************************************************)
EXTENDS Naturals, FiniteSets, FiniteSetsExt

CONSTANTS
  Instances,
  MaxFd,     \* descriptors are 1 .. MaxFd, numbered from the lowest free one
  Addrs,     \* heap addresses calloc() can return for an ev_io
  NULL,
  Routes,    \* where dup2(pipe_stdout[2], 2) can leave descriptor 2
  MaxRuns,   \* bound: starts of an instance
  Capacity   \* chunks a pipe holds

Streams == {"stdout", "stderr"}

\* The element is one past the array: any value can be read.  It may be a
\* descriptor of either pipe, or none that leads to the daemon's pipes.
AnyRoute == {"stdout", "stderr", "elsewhere"}

ASSUME RoutesAssumption == Routes \subseteq AnyRoute
ASSUME AddrAssumption == NULL \notin Addrs
ASSUME CapacityAssumption ==
  MaxFd \in Nat /\ MaxRuns \in Nat /\ Capacity \in Nat \ {0}

Fds == 1 .. MaxFd

Runs == 1 .. MaxRuns
Pipe == [proc : Instances, run : Runs, stream : Streams]
NoPipe == [proc |-> NULL]

VARIABLES
  run,        \* the number of starts of every instance
  up,         \* the instances whose child was not reaped
  route,      \* of every instance and run: where descriptor 2 of the child leads
  holders,    \* per pipe: who has the descriptor of that name open in that run
  buffer,     \* the number of chunks in every pipe
  fds,        \* the daemon's descriptor table: the pipe read from
  io,         \* libev: the active ev_io watchers
  child_io,   \* procdata->child_io of every instance
  reading     \* the watcher child_io_cb was invoked for, or NULL

vars == <<run, up, route, holders, buffer, fds, io, child_io, reading>>

Watcher == [at : Addrs, fd : Fds, proc : Instances]

FreeFds == {f \in Fds : fds[f] = NoPipe}

\* The kernel hands out the lowest free descriptor: the n-th of a row.
NthFree(n) ==
  CHOOSE f \in FreeFds : Cardinality({g \in FreeFds : g < f}) = n - 1

\* Three pipes in a row, stdin first, each with its read end first; all but
\* the read ends of the last two are closed again.
PipeFds == [s \in Streams |-> IF s = "stdout" THEN NthFree(3) ELSE NthFree(5)]

FreeAddrs == Addrs \ {w.at : w \in io}

\* The processes that hold a write end of pipe k, by whatever name.
Writers(k) ==
  LET err == holders[[k EXCEPT !.stream = "stderr"]]
  IN (IF k.stream = "stdout" THEN holders[k] ELSE {})
       \cup (IF route[<<k.proc, k.run>>] = k.stream THEN err ELSE {})

Init ==
  /\ run = [i \in Instances |-> 0]
  /\ up = {}
  /\ route = [x \in Instances \X Runs |-> "elsewhere"]
  /\ holders = [k \in Pipe |-> {}]
  /\ buffer = [k \in Pipe |-> 0]
  /\ fds = [f \in Fds |-> NoPipe]
  /\ io = {}
  /\ child_io = [i \in Instances |-> [s \in Streams |-> NULL]]
  /\ reading = NULL

-----------------------------------------------------------------------------
(* Mutant: the slots of an instance are filled once, as if they were kept   *)
(* from run to run.                                                         *)
pn_proc_watch_io_KeepsSlots(i, f, a) ==
  /\ io' = io \cup {[at |-> a[s], fd |-> f[s], proc |-> i] : s \in Streams}
  /\ child_io' = [child_io EXCEPT ![i] =
                    [s \in Streams |-> IF @[s] = NULL THEN a[s] ELSE @[s]]]

(* Two new watchers; the slots forget those of the run before, which may    *)
(* still be active.                                                         *)
pn_proc_watch_io(i, f, a) ==
  /\ io' = io \cup {[at |-> a[s], fd |-> f[s], proc |-> i] : s \in Streams}
  /\ child_io' = [child_io EXCEPT ![i] = a]

(* The part of start_process that makes the pipes and watches them.  pipe() *)
(* is taken to succeed, which needs six free descriptors.  The daemon keeps *)
(* the read ends, the child the write ends it duplicated.                   *)
start_process(i) ==
  /\ reading = NULL
  /\ i \notin up /\ run[i] < MaxRuns
  /\ Cardinality(FreeFds) >= 6
  /\ LET r == run[i] + 1
         k(s) == [proc |-> i, run |-> r, stream |-> s]
         f == PipeFds
     IN \E a \in [Streams -> FreeAddrs], to \in Routes :
          /\ a["stdout"] # a["stderr"]
          /\ run' = [run EXCEPT ![i] = r]
          /\ up' = up \cup {i}
          /\ route' = [route EXCEPT ![<<i, r>>] = to]
          /\ holders' = [x \in Pipe |-> IF x \in {k(s) : s \in Streams}
                                        THEN {"child"} ELSE holders[x]]
          /\ fds' = [x \in Fds |-> IF \E s \in Streams : f[s] = x
                                   THEN k(CHOOSE s \in Streams : f[s] = x) ELSE fds[x]]
          /\ pn_proc_watch_io(i, f, a)
  /\ UNCHANGED <<buffer, reading>>

-----------------------------------------------------------------------------
(* External: a process of a run prints on one of its streams.               *)
ProcessWrites(k) ==
  /\ holders[k] # {}
  /\ \E p \in Pipe :
       /\ p = IF k.stream = "stdout" THEN k ELSE [k EXCEPT !.stream = route[<<k.proc, k.run>>]]
       /\ \E f \in Fds : fds[f] = p
       /\ buffer[p] < Capacity
       /\ buffer' = [buffer EXCEPT ![p] = @ + 1]
  /\ UNCHANGED <<run, up, route, holders, fds, io, child_io, reading>>

(* External: the child leaves a process behind that shares its descriptors. *)
ChildForks(i) ==
  /\ i \in up
  /\ holders' = [k \in Pipe |-> IF k.proc = i /\ k.run = run[i] /\ "child" \in holders[k]
                                THEN holders[k] \cup {"heir"} ELSE holders[k]]
  /\ UNCHANGED <<run, up, route, buffer, fds, io, child_io, reading>>

(* External: a process closes one of the two descriptors.                   *)
ProcessCloses(k, who) ==
  /\ who \in holders[k]
  /\ holders' = [holders EXCEPT ![k] = @ \ {who}]
  /\ UNCHANGED <<run, up, route, buffer, fds, io, child_io, reading>>

(* The child exits and child_proc_cb is told, which closes nothing; the     *)
(* restart follows as start_process.                                        *)
ChildExits(i) ==
  /\ reading = NULL
  /\ i \in up
  /\ up' = up \ {i}
  /\ holders' = [k \in Pipe |-> IF k.proc = i /\ k.run = run[i]
                                THEN holders[k] \ {"child"} ELSE holders[k]]
  /\ UNCHANGED <<run, route, buffer, fds, io, child_io, reading>>

-----------------------------------------------------------------------------
\* read() would not return EAGAIN.
Readable(k) == buffer[k] > 0 \/ Writers(k) = {}

(* Mutant: what is not the stdout watcher is taken for the stderr one.      *)
ioname_TwoWay(w) ==
  IF w.at = child_io[w.proc]["stdout"] THEN "stdout" ELSE "stderr"

(* The name of the stream is found by comparing the watcher's address.      *)
ioname(w) ==
  IF w.at = child_io[w.proc]["stdout"] THEN "stdout"
  ELSE IF w.at = child_io[w.proc]["stderr"] THEN "stderr" ELSE "unknown"

(* libev invokes the callback of a watcher whose descriptor is readable.    *)
child_io_cb(w) ==
  /\ reading = NULL
  /\ Readable(fds[w.fd])
  /\ reading' = w
  /\ UNCHANGED <<run, up, route, holders, buffer, fds, io, child_io>>

(* read() > 0: the data goes out as an event of that name, and the loop     *)
(* reads on.                                                                *)
publish_output ==
  /\ reading # NULL
  /\ LET k == fds[reading.fd]
     IN buffer[k] > 0 /\ buffer' = [buffer EXCEPT ![k] = @ - 1]
  /\ UNCHANGED <<run, up, route, holders, fds, io, child_io, reading>>

(* Mutants: the watcher is not stopped; the descriptor is not closed; an    *)
(* empty pipe is taken for one at its end; one without writers for one that *)
(* was read; the loop goes on with the freed watcher.                       *)
end_of_file_StaysWatched ==
  /\ reading # NULL
  /\ buffer[fds[reading.fd]] = 0 /\ Writers(fds[reading.fd]) = {}
  /\ fds' = [fds EXCEPT ![reading.fd] = NoPipe]
  /\ reading' = NULL
  /\ UNCHANGED <<run, up, route, holders, buffer, io, child_io>>

end_of_file_StaysOpen ==
  /\ reading # NULL
  /\ buffer[fds[reading.fd]] = 0 /\ Writers(fds[reading.fd]) = {}
  /\ io' = io \ {reading}
  /\ reading' = NULL
  /\ UNCHANGED <<run, up, route, holders, buffer, fds, child_io>>

end_of_file_WhenEmpty ==
  /\ reading # NULL
  /\ buffer[fds[reading.fd]] = 0
  /\ io' = io \ {reading}
  /\ fds' = [fds EXCEPT ![reading.fd] = NoPipe]
  /\ reading' = NULL
  /\ UNCHANGED <<run, up, route, holders, buffer, child_io>>

end_of_file_HangUp ==
  /\ reading # NULL
  /\ Writers(fds[reading.fd]) = {}
  /\ io' = io \ {reading}
  /\ fds' = [fds EXCEPT ![reading.fd] = NoPipe]
  /\ reading' = NULL
  /\ UNCHANGED <<run, up, route, holders, buffer, child_io>>

end_of_file_ReadsOn ==
  /\ reading # NULL
  /\ buffer[fds[reading.fd]] = 0 /\ Writers(fds[reading.fd]) = {}
  /\ io' = io \ {reading}
  /\ fds' = [fds EXCEPT ![reading.fd] = NoPipe]
  /\ UNCHANGED <<run, up, route, holders, buffer, child_io, reading>>

(* read() = 0: stop, close, free.  The slot keeps the freed address.        *)
end_of_file ==
  /\ reading # NULL
  /\ buffer[fds[reading.fd]] = 0 /\ Writers(fds[reading.fd]) = {}
  /\ io' = io \ {reading}
  /\ fds' = [fds EXCEPT ![reading.fd] = NoPipe]
  /\ reading' = NULL
  /\ UNCHANGED <<run, up, route, holders, buffer, child_io>>

(* read() = -1, EAGAIN: back to the loop.                                   *)
would_block ==
  /\ reading # NULL
  /\ ~Readable(fds[reading.fd])
  /\ reading' = NULL
  /\ UNCHANGED <<run, up, route, holders, buffer, fds, io, child_io>>

Next ==
  \/ \E i \in Instances : start_process(i) \/ ChildForks(i) \/ ChildExits(i)
  \/ \E k \in Pipe : ProcessWrites(k)
  \/ \E k \in Pipe, who \in {"child", "heir"} : ProcessCloses(k, who)
  \/ \E w \in io : child_io_cb(w)
  \/ publish_output
  \/ end_of_file
  \/ would_block

Spec == Init /\ [][Next]_vars

(* The daemon runs on inside a callback.  Between callbacks libev serves    *)
(* every watcher found readable before it polls again, so a pipe that is    *)
(* readable again and again is read.                                        *)
Fairness ==
  /\ WF_vars(publish_output \/ end_of_file \/ would_block)
  /\ \A k \in Pipe : SF_vars(\E w \in io : fds[w.fd] = k /\ child_io_cb(w))

FairSpec == Spec /\ Fairness

-----------------------------------------------------------------------------
Started(k) == k.run <= run[k.proc]
Open(k)    == \E f \in Fds : fds[f] = k

TypeOK ==
  /\ run \in [Instances -> 0 .. MaxRuns]
  /\ up \subseteq Instances
  /\ route \in [Instances \X Runs -> AnyRoute]
  /\ holders \in [Pipe -> SUBSET {"child", "heir"}]
  /\ buffer \in [Pipe -> 0 .. Capacity]
  /\ fds \in [Fds -> Pipe \cup {NoPipe}]
  /\ io \subseteq Watcher
  /\ child_io \in [Instances -> [Streams -> Addrs \cup {NULL}]]
  /\ reading \in io \cup {NULL}

(* Descriptor numbers and addresses are reused, and watchers of several     *)
(* runs of one instance are active together.  Even so every open descriptor *)
(* has exactly one watcher, which belongs to the instance whose pipe it is: *)
(* nothing is closed twice, watched after it was closed, or leaked.         *)
WatchersOwnFds ==
  /\ \A f \in Fds : fds[f] # NoPipe <=> \E w \in io : w.fd = f
  /\ \A w, v \in io : w.fd = v.fd \/ w.at = v.at => w = v
  /\ \A w \in io : w.proc = fds[w.fd].proc
  /\ \A f, g \in Fds : fds[f] = fds[g] /\ fds[f] # NoPipe => f = g

(* No output is thrown away: a pipe is closed only when nothing is left in  *)
(* it and nobody can write to it any more, whether its process died long    *)
(* ago or was started again since.                                          *)
ClosedWhenDry ==
  \A k \in Pipe : Started(k) /\ ~Open(k) => buffer[k] = 0 /\ Writers(k) = {}

(* The slots are compared with addresses of freed watchers in them.  Still  *)
(* what the current run prints is announced by the pipe it came by, and     *)
(* what is left of an earlier run never as output of the current one.       *)
SourceIsThePipe ==
  reading # NULL =>
    LET k == fds[reading.fd]
    IN ioname(reading) = IF k.run = run[k.proc] THEN k.stream ELSE "unknown"

(* The slots of an instance hold the watchers of its current run that are   *)
(* still active, and never one that is left of an earlier run: an address   *)
(* in a slot may be freed and handed out again, but only to a watcher of    *)
(* another instance or by the start that overwrites the slots.              *)
SlotsAreCurrent ==
  \A w \in io :
    LET k == fds[w.fd]
    IN /\ Started(k)
       /\ \A s \in Streams :
            w.at = child_io[k.proc][s] <=> k.run = run[k.proc] /\ k.stream = s

(* The inductive invariant.                                                 *)
IInv == TypeOK /\ WatchersOwnFds /\ ClosedWhenDry /\ SlotsAreCurrent

(* Once a pipe has no writers its descriptor returns to the pool, provided  *)
(* child_io_cb gets through its loop again and again; one that is never     *)
(* caught up with keeps the whole daemon.                                   *)
EndedPipesAreClosed ==
  []<>(reading = NULL) =>
    \A k \in Pipe : (Started(k) /\ Writers(k) = {}) ~> ~Open(k)

(* Under the same proviso everything that is printed is published.          *)
PrintedIsPublished ==
  []<>(reading = NULL) =>
    \A k \in Pipe : []<>(buffer[k] = 0)

-----------------------------------------------------------------------------
(* Statements of the repository that the code does not keep.                *)

(* pn_proc_start: descriptor 2 of the child is made to "redirect stderr".   *)
(* Once the daemon has closed the pipe for it no process of that run has    *)
(* its standard error open.                                                 *)
StderrIsRedirected ==
  \A k \in Pipe : Started(k) /\ ~Open(k) => holders[k] = {}
=============================================================================
