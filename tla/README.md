# procnanny, specified

procnanny supervises programs: it starts them, watches them, starts them again
when they exit, relays what they print and answers requests about them. This
directory holds TLA+ modules that model its code, TLC configurations that check
them on small instances, and theorems that TLAPS proves for every instance.

Paths below are relative to the repository (`src/...` is the C daemon's
directory, `web/` the web UI, `node/` the older node.js version); `PROJECT.json`
has the exact lines each definition stands for.

## 1. The system

### Parts, their state, their operations

| part | code | state | operations | modelled |
|---|---|---|---|---|
| supervision core | `src/process.c`, `src/procnanny.c` | `process_t` records (state, pid, exit status, flap count), one `ev_child` and one run timer or restart timer per instance | `start_process`, `child_proc_cb`, `child_timer_cb`, `running_state_timer_cb`, `pn_proc_signal` | `ProcessState`, `Supervisor`; promises: `Babysitter`, `Lifecycle` |
| child output | `src/process.c:67-150`, `src/procnanny.c:88-167, 352-374` | pipes, descriptors, `ev_io` watchers, the slots `procdata->child_io` | `pn_proc_watch_io`, `child_io_cb`, `publish_output` | `ChildIO` |
| request socket | `src/pn_api.c` | ZeroMQ REP socket, its descriptor in the loop | `rpc_cb`, `rpc_receive`, `rpc_handle` | `RpcSocket` |
| API handlers | `src/api/*.c`, `src/msgpack_helpers.c` | none of their own | `restart`, `status`, `create`, `dance`, errors; `obj_get` | `Api` (replies), `Supervisor` (effects of restart and create) |
| event publication | `src/procnanny.c:169-260, 376-392` | PUB socket | `publish_proc_event`, `pn_proc_state_cb` | `EventStream` |
| program options, whole programs | `src/program.c`, `src/process.c:83-178` | `program_t`, its array of processes | `pn_prog_init`, `set`, `get`, `start`, `wait`, `signal`; `pn_proc_wait`; the child between `fork()` and `execvp()` | `Program` |
| user and group lookup | `src/pn_util.c` | none | `pn_util_uid`, `pn_util_gid` | `Program` |
| web UI server | `web/procnanny.coffee`, `web/lib/interface.coffee` | one SUB socket, listeners of the clients that ever connected | relay of events; status pages | `EventStream` (the relay) |
| web UI page | `web/public/js/procnanny.coffee` | handlers, classes of page elements | `connect`, `event`, `eventify` | `EventStream` |
| node.js version | `node/lib/program.coffee`, `node/lib/nanny.coffee`, `node/controllers/` | per program: `@_state`, `@child`, `@start_timer` | `start`, `stop`, `restart`, `exited`, `shutdown` | `NodeProgram` |
| scripts, `runner.sh`, vendored packages | | | | no |

The C daemon is one thread around a libev loop: every callback runs to its end
before the next one. What is concurrent are the children (which exit, fork,
print and close descriptors at any time), the kernel (which reuses pids and
descriptors), the heap (which reuses addresses the code compares), the clients,
and the order in which libev delivers what happened. The parts meet in the
`process_t` record: the API handlers read and signal what the supervision core
writes, and the output watchers hold a pointer to it across restarts.

### What is hard here

* An exit races the run timer, which may have expired already. The callback that
  comes second must not undo the first.
* `running_state_timer` is freed and left dangling after every early exit
  (`src/procnanny.c:284-288`), and the heap may put the next timer there.
* `process->pid` is kept after the child was reaped, for the two seconds of the
  restart delay, while the kernel may give the pid to another child or to a
  process the daemon knows nothing of; requests signal whatever has it.
* The pipes of a run live as long as anybody holds their write ends, so watchers
  of several runs of one instance are active together, over descriptors and
  addresses that are reused.
* The child's output is read in a loop that ends only when the pipe is dry.
* The REP socket demands that requests and replies alternate, and its descriptor
  is edge triggered: one event may stand for several requests.
* A reply's header is packed before, and by another condition than, its entries.
* A move to "exited" may move to "backoff" inside itself, and each of the two
  publishes what it left; the last event must be the one that is true.
* Events are sent once, over two links that break, to pages whose handlers
  double with every disconnection and past listeners that are never removed.
* Options of a program share fields, one of them replaces the array of records
  that children are known by, and a name whose lookup failed is accepted.
* `pn_proc_wait` gives `waitpid()` the recorded pid, which is -1 after a failed
  `fork()` and then means any child.
* In the node.js version requests arrive between the death of a child and the
  event that announces it, and what happens on that event depends on the last one.

`PROJECT.json` lists these as hazards, each with its line and the properties
that would notice.

## 2. The modules

### ProcessState and Supervisor: the supervision core

`ProcessState` holds the record and the pure functions on it
(`pn_proc_move_state`, `pn_proc_exited`). `Supervisor` has one action per
callback or handler that touches the records:

| action | code |
|---|---|
| `start(i)` | the loop over the instances in `start()`; the libev loop runs only after it (`LoopRunning`) |
| `api_request_create(i)` | the create request: a program of one instance, not in `pn->programs` |
| `child_timer_cb(t)` | the restart delay is over: `start_process` |
| `running_state_timer_cb(t)` | `minimum_run_duration` is over: RUNNING |
| `child_proc_cb(w, c)` | libev reaped `c`: stop the run timer, EXITED, `restart_child` |
| `api_request_restart(T)` | SIGTERM to what the records of `T` name |
| `ChildExits(c, s)` | external: the kernel ends a child |

State outside the records: `children` is the kernel's table, `watchers` and
`timers` are libev's, and `timerPtr` is `running_state_timer`, an address that
may dangle. A timer may fire at any moment while it is active, which covers
every order of expiry, reaping and callbacks: `ev_timer_stop` also withdraws an
expiry that is still queued. `fork()` may fail. Durations are not modelled.

What it must do: each instance has one child at a time (`OneIncarnation`); a
started instance always has a child to be reaped or exactly one restart timer
(`NeverLost`); a reaped child runs its own instance's callback although pids are
reused (`ReapFindsOwner`); the dangling pointer is never followed to somebody
else's timer (`NoDanglingTimer`); "starting" and "running" mean there is a child
(`UpIsBacked`, part of `IInv`); "process wasn't running" is said only when it is true
(`NotRunningReplyIsTrue`); the flap count counts just the exits that beat the
run timer (`FlapsAreShortRuns`); every death is answered by a new start and
every start is settled (`DeathLeadsToRestart`, `StartIsSettled`).

`Babysitter` is the abstract promise: per instance only what the daemon believes
and what is true of the child. `Supervisor` maps its tables onto it
(`B == INSTANCE Babysitter WITH ...`) and is checked and proved to implement it.

`Lifecycle` is the other promise: how the records alone move. `Supervisor`
implements it too, whatever its timers, pids and watchers do, and `EventStream`
is built on it, so what is said there of events holds of the daemon's.

A restart request (`RestartStaysInside`) reaches nobody outside the instances it
names, but for the one case the code has: see section 5.

### ChildIO: output of the children

State: which process holds which write end (the child, and an heir it may leave
behind), the fill of each pipe, the daemon's descriptor table with the kernel's
lowest-free rule, the active `ev_io` watchers by address, and the slots. The
callback is not atomic: `child_io_cb` begins, `publish_output`, `end_of_file`
and `would_block` are one `read()` each, and the writers run in between. The
descriptor the child's standard error ends on is any of the values the
out-of-bounds element in `src/process.c:91` can have.

Properties: one watcher per descriptor and no descriptor closed twice or leaked
(`WatchersOwnFds`); a pipe is closed only when it is dry and nobody can write to
it (`ClosedWhenDry`); output carries the name of its pipe, and "unknown" exactly
when it is left over from an earlier run (`SourceIsThePipe`); `IInv` is these
and what the slots have to do with the watchers (section 4); pipes at their end
are closed and output is published, provided the read loop comes to an end again
and again (`EndedPipesAreClosed`, `PrintedIsPublished`).

### Api and RpcSocket: requests and replies

`Api` computes, from a request, from `pn->programs` and from the set of
instances for which `pn_proc_signal` succeeds (`reached`), the reply as the
sequence of msgpack headers and scalars in the order they are packed, and the
instances whose recorded pid gets SIGTERM.

`RpcSocket` puts it behind the socket: clients send and wait, the descriptor
becomes readable, `rpc_cb` takes one request at most. Whom `kill()` reaches is
decided there (`Reached`), from the pids in the records (`pid`) and from the
kernel's side: whose process has a pid (`holder`: an instance's, or an
outsider's), and which processes the daemon may not signal (`immune`). A start
records its pid, or -1 after a failed `fork()`, and nothing clears it
(`ProcessStarts`, `ForkFails`); pids of reaped processes go to other instances
and to outsiders (`OutsiderComes`). `signalled` are the pids of the processes
that were sent SIGTERM. The table of requests crosses methods, program names
(exact, beginnings, unknown, missing, of another type) and instance numbers (in
and out of range, wrapped around, of another type). The integer width is a
constant, three bits in the runs, so that the wrap to -1 is reached.

Properties: the reply to a well-posed request is one msgpack object
(`RepliesAreObjects`); a restart reply names every instance asked for and tells
what became of its recorded pid (`RestartReplyIsTrue`): for "true" that pid was
signalled, and its owner is the instance's own process, or, if the instance has
none, whoever was given it; for "process wasn't running" the instance has no
process, or one the daemon may not signal; and no other pid was signalled; a request that was not answered is in the queue
or is the one the socket owes a reply for (`EveryRequestIsSomewhere`, part of `Inv`); a request
alone is answered (`AloneIsAnswered`); a backlog is served as long as events
arrive (`BacklogIsServed`). The proviso of the last is what the code gives: one
request is taken per event (`src/pn_api.c:48`), so the last of a backlog waits
for the next arrival.

### EventStream: from a change of state to a web page

| action | code |
|---|---|
| `start`, `child_timer_cb`, `running_state_timer_cb`, `child_proc_cb` | a move of `Lifecycle` and the events it publishes, in the order of the nested calls |
| `Subscribes`, `LinkBreaks` | external: the SUB socket connects, loses its connection |
| `event` | the web server receives a message and calls every listener |
| `new_socketio_client(p)`, `connect(p)`, `Reload(p)` | a page connects, is disconnected (and registers its handlers again), is loaded anew |
| `receive(p)` | every handler registered on the page handles a message |

Nothing is acknowledged, so the properties say what an event is worth when it
arrives. `gap` and `lost` are history variables: the instances whose last change
was lost before the relay, and on the way to a page. The last event of an
instance that was sent tells the state it is in, and a start tells how the run
before it ended (`LastEventIsTrue`, which takes the nil code of an exit as the
code has it, see section 5); a page that missed nothing of an instance,
or will still receive a later event, shows its state once all has arrived
(`PageShowsState`); if the instance comes to rest, the page comes to show it
(`PagesCatchUp`). `IInv` is what keeps these true (section 4). Handlers that run several times and listeners of clients that
are gone do no harm to what is shown. A page that connects anew shows nothing of
an instance until its next event: no snapshot is asked for.

### Program: options, and programs as a whole

`src/program.h` as a caller of the library has it: `pn_prog_set` and
`pn_prog_get` over the fields of `program_t`, `pn_prog_start`, `pn_prog_signal`,
and `pn_prog_wait` as one step per instance, blocked while the child lives. The
child's side of `pn_proc_start` is `Identity`: the user, group and niceness the
command gets, or nothing when the child aborts first. The caller is one thread
and starts a program again only after waiting for it: a second start would leave
the children of the first unknown, which the guard `children = {}` excludes. It
sets `state_cb` to NULL, which `pn_prog_init` does not. The daemon is root, or
has a user and a group of its own (`self`); a lookup of a name (`Lookup`) may
fail although somebody has it, for the entry may not fit the 255 bytes of
`src/pn_util.c`.

`Inv`: the records and the kernel's children agree (`ChildrenAreKnown`: records
are never replaced while there are children, although `is_running` is all that
guards them), and so do the ids and what was asked for. `ReadBack`: what was set
is read back, whatever else was set since, of all options but `IONICE` and, as
long as that was not set, of `NICE` (section 5). `RunsAsAsked`: a command runs
as the user and group last asked for or not at all, also when a lookup failed.
`RootCanStart`: the order of `setgid`, `setuid` and `nice` keeps from root no
user and group whose ids were given or found, unless the niceness is to be
lowered. `WaitIsTrue`: what a wait reports is about the instance's own child
unless the instance's own `fork()` failed, which then is told how another's
child ended; nobody is left when `pn_prog_wait` returns, although such waits take
any child. And it returns (`WaitReturns`).

### NodeProgram: the node.js version

One action per web request, per timer, per exit event, and `ParseConfig` and
`Shutdown` of Nanny. A child that has ended stays `@child` until its event is
handled. `OwnerIsParent`: no process escapes `stop()`, and an exit event never
clears a younger child. `OneTimer`: the handle in `start_timer`, which is never
cleared, is good enough to cancel by. `StateIsTrue`, `LastRequestWins`: the
state shown is the real one and the last request is obeyed, whatever was under
way, except that a start that finds the program stopping is
lost (`node/lib/program.coffee:57`). `asked` is a history variable for the last
request; nothing depends on it. With fairness, stop ends a program for good
(`StopTakesEffect`) and what is to come back does (`ComesBack`).

## 3. The runs

| run | instance | what it shows |
|---|---|---|
| `supervisor_safety` | 2 listed instances and 1 created, 3 pids, 4 timer addresses, failing forks, symmetry on pids and addresses | the invariants above, the inductive invariant `IInv`, the action properties and both refinements |
| `supervisor_liveness` | 2 instances, 3 pids, 3 addresses, forks succeed | liveness |
| `childio` | 2 runs of an instance, 8 descriptors, 3 watcher addresses, descriptor 2 redirected as intended or leading elsewhere | all properties of ChildIO |
| `rpc_replies` | 1 client, 2 instances, 2 pids, failing forks, outsiders, processes beyond reach, the whole table of requests, symmetry on pids | replies |
| `rpc_backlog` | 3 clients, 1 instance, 1 pid, four kinds of message | the queue, the debt and the edge trigger |
| `node_program` | 2 programs, 3 processes, 2 timer handles | all properties of NodeProgram |
| `event_stream` | 1 instance, 2 pages, 2 connections in all, 2 messages on each link | all properties of EventStream |
| `program_options` | 13 offers to `pn_prog_set`, daemon as root and as a user and group that differ, up to 2 instances, 2 pids, failing forks and lookups | all properties of Program |
| `flaps_back_off`, `stderr_is_redirected`, `success_or_eagain`, `priorities_read_back` | | see section 5 |

Why the bounds are enough. Two listed instances let one interfere with another,
the created one makes the third that a request cannot name. Three pids are one
per instance; a pid is reused after any exit. Four addresses are what
three timers need, and the one made before the old one is freed; an address freed
on an early exit may or may not come back at once. `FlapMax` is 1 and
`FlapBound` 2: a starting child does not exit once the count is 2, and a count
above the limit is reached, which is all the code distinguishes. Two runs of
one instance are what shares a `proc_data`; 8 descriptors are the six that
`pipe()` needs at the second start beside the two that the first may still hold;
a capacity of one chunk distinguishes dry from not; three addresses are those of
the two watchers of a run beside one left over, the fewest with which an address
comes back while an older watcher lives. Four watchers at once, and the route
that makes descriptor 2 the pipe of standard output, are left to the proofs,
which are for all. Two pids for two instances let a stale pid be free, be the
other instance's, or be an outsider's while the other instance has the second.
With two clients one is left behind by an event that served the other; the third is the
arrival that gets it served. Two handles are the
fewest with which `setTimeout()` always returns one that is not the last; the
bounds of NodeProgram cut nothing but the number of processes that are not yet
announced.

In EventStream the instances share nothing but the queues, and the properties
speak of one at a time; two pages tell whether a message reaches the one and not
the other, two connections let a listener outlive its client. Two messages are
what one move publishes at most (`start`: "new" and "starting"; a flapping exit:
"backoff" and "exited"). The callback of the program may be set from the
beginning, as in a created program, or not, as before main's first start.
`FlapMax` 1 lets an instance exit below, at and above
the limit. The one status is a signal without a name; ordinary codes take the
same path. The offers of Program have, for each pair of options that share a
field, a value that is found and one that is not, every sign of niceness, and
sizes that do not fit.

Deadlock is checked everywhere but in ChildIO, where an instance has `MaxRuns`
runs and the last one may end.

### Fairness

* Supervisor: weak fairness, per instance, of the start-up and of the three
  callbacks: `ev_run` never returns and invokes an active watcher that has
  something to report. Nothing is assumed of children or clients.
* ChildIO: weak fairness of the loop inside the callback, strong fairness of the
  callback per pipe: libev serves everything found readable before it polls
  again, so the watcher of a pipe that is readable again and again is served.
  Writers are not assumed to stop; the properties carry the proviso instead.
* RpcSocket: weak fairness of `rpc_cb` and of a client reading its reply.
* EventStream: weak fairness of the web server's receiving and of each page's;
  nothing of the daemon, the links or the users. `PagesCatchUp` carries the
  proviso that the page stays connected and lost nothing of the last change.
* Program: weak fairness of a wait that can go on. Children need not end.
* NodeProgram: weak fairness of timers and exit events (the event loop runs) and
  of the end of a process that was sent SIGTERM. A program that ignores SIGTERM
  is not covered: the code never sends SIGKILL.

## 4. What is proved

`SupervisorProofs`, for any sets of instances, pids and addresses, any wait
statuses, any `FlapMax`, and forks that may fail. The assumptions are the
ASSUMEs of `ProcessState` and `Supervisor`: the special values are not pids or
addresses, listed and created instances are disjoint.

* `Invariance`: `Spec => []IInv`. The properties speak of one instance at a
  time; none of them is inductive. What keeps them is how the five tables refer
  to each other, and that is `IInv`: children and records name each other
  (`ChildrenMatchRecords`), so do watchers and children
  (`WatchersMatchChildren`), and each instance has the one timer its state calls
  for, its pointer designating it while it starts (`TimersMatchStates`). One
  lemma per action; `StartProcess` is shared by the three actions that start.
  The delicate step is `PointerIsOwn`: while an instance has a child, the
  pointer is NULL or designates its run timer, so what `child_proc_cb` frees is
  its own.
* `TypeCorrect`, `OneChild`, `ReapCorrect`, `NoBadFree`, `NothingLost`,
  `UpIsTrue`, `RepliesTrue`: the safety properties, each from `IInv`.
* `FlapsCountShortRuns`: the action property, from `IInv` and from what each
  action does to the count and to the run timer.
* `RestartInside`: what a restart request can hit, from the children and records
  naming each other.
* `MovesAreLifecycle`: `Spec => L!Spec`. The map forgets the pid, so each action
  is a move of `Lifecycle` for its instance, and requests are stutters.
* `Implementation`: `Spec => B!Spec`. Initial states map to the initial state,
  and each action to one action of Babysitter for its instance, except
  `api_request_restart`, which is a stutter.

`ProgramProofs`, for any options within their types, any number of instances
and any forks and lookups that fail: `Inv` of Program is inductive (`ProgramInvariance`).
It says that a pid names one child and one instance, that there are children
only of a running program and of instances not yet waited for, and that the
stored ids are what the last call asked for, or -1 where its lookup failed. From it follow `ChildrenKnown`,
`WaitsAreTrue`, `RunAsAsked` and `RootStarts`. The step that needs care is the
wait (`OneWait`): it leaves its instance without a child whichever child it
reaped. `WhatWasSetIsRead` proves `ReadBack` as it is stated above: a call
overwrites the one field of its option, which is the field of another option
only where the two ask for the same id, and of `IONICE`, which is excepted.
What a start and an exit make of a record is proved once, in
`ProcessStateProofs`, for this module, for the supervisor and for the events.

`NodeProgramProofs`, for any programs, processes and handles (at least two):
the conjunction `Inv` of its invariants is inductive (`NodeInvariance`).
`OneTimer` needs `StateIsTrue` to know that a program with a child has no timer,
`StateIsTrue` needs `OwnerIsParent` to know that an exit event is about the
present child, and what requests achieve follows from these. `NodeTypes` is its
type invariant.

`ChildIOProofs`, for any instances, runs, descriptors, addresses and chunks and
every route of descriptor 2: `IInv` of ChildIO is inductive (`RelayInvariance`),
and `WatchersOwn`, `NoOutputLost` and `OutputIsNamed` follow. Beside the
properties themselves it needs `SlotsAreCurrent`. The slots of an instance are
compared with the addresses of watchers, and addresses are reused; what saves
the comparison is that a slot equals the address of an active watcher of the
instance only if that watcher belongs to the current run. A start is where it
could break (`StartInv`): it keeps two of six descriptors that were free and two
free addresses, overwrites the slots, and leaves the watchers of the run before
it in place. `NthLeast` shows that the lowest free descriptors exist, as many
as there are free ones. `OutputIsNamed` is an action property and follows from
`SlotsAreCurrent` before the step.

`RpcSocketProofs`, for any finite set of clients and any requests, programs,
instances, pids and widths: `Inv` (`RequestInvariance`) says that the clients that
wait are those in the queue, each once, and the one a reply is owed to; so the
queue is never longer than there are clients (`QueueIsShort`). It also says that
the process of an instance has the pid in its record (`PidsAreRecorded`), which
is one way only: the recorded pid may be anybody's.
`RepliesUnpack` and `RestartRepliesAreTrue` are about what the handlers pack.
`Missing(m, s)` is the number of objects still to come after the sequence `s`;
the lemmas show that it composes over concatenations (`MissingConcat`), that
each part of a reply takes it down by what the part was announced as
(`MissingParts`, `ResultsAreEntries`, `ProgramStatusIsOneEntry`), and so that
each handler ends at 0. `RepliesAreObjects` speaks of replies received long
ago, while processes came and went: a reply is computed once and stays
(`RepliesComeFromTheHandler`). For restarts the results of a concatenation are
those of its parts (`ResultsOfConcat`), down to the one result of one instance
(`OneResult`), which says "true" exactly if `kill()` reached its recorded pid;
`PidsAreRecorded` makes that the instance's own process if it has one.

`EventStreamProofs`, for any instances, pages, statuses and bounds. Nothing in
the properties is inductive: they say what follows from messages on two links,
and a message is only as true as the state it left. `IInv`
(`StreamInvariance`) has, for each instance:

* the record keeps of the last end what a later event will tell of it
  (`RecordsAreTrue`);
* unless its last change was lost before the relay (`gap`), the last event on
  the way to the web server is true (`StreamIsTrue`);
* a page that lost nothing of it, when no event of it is before the relay any
  more, has the truth as its last message, or shows it (`PageIsTrue`), also
  while it is not connected;
* a connection is among the listeners, so the relay reaches every connected page
  (`ConnectionsAreListeners`).

`LastUpdateDecides` is the lemma about pages: after any sequence of messages
an element has the one class that the last of them names, or those it had, so
that a handler that runs `n` times does no harm. `DaemonInv` is shared by the
moves of the daemon, each of which is one of `Lifecycle`. `LastEventsAreTrue`
and `PagesShowTheState` are the properties.

`Induction` has induction and definition by recursion over the natural numbers
in terms of sets and functions. The library states them with operator
parameters, which the provers cannot instantiate; they are proved again from its
theorem that a well-founded relation has minimal elements. Every recursive
function the models use (`Missing`, `Concat`, `Updated`) is reasoned about
through `RecursionUpto` and `InductionUpto`.

Assumptions on constants, beyond special values being distinct from ordinary
ones: the clients are finitely many; a reply is never the value that stands for
none; no process ends by signal 0, which the record could not tell from an
ordinary exit and the kernel has not.

Only model-checked: liveness under fairness, which is out of the prover's reach
(`DeathLeadsToRestart`, `StartIsSettled`, `EndedPipesAreClosed`,
`PrintedIsPublished`, `AloneIsAnswered`, `BacklogIsServed`, `StopTakesEffect`,
`ComesBack`, `PagesCatchUp`, `WaitReturns`). Every invariant, action property
and refinement that a passing run checks is also a theorem.

## 5. Where the code departs from what the repository says

Each has a run that TLC ends with a counterexample.

* `flaps_back_off`: a process that flaps more than `flap_max` times is to go to
  BACKOFF; `pn_proc_move_state` does so in a nested call and then overwrites it,
  and it is restarted at the ordinary pace (`src/process.c:36-46`).
* `stderr_is_redirected`: `dup2(pipe_stdout[2], 2)` reads past the array; the
  stderr pipe is at its end from the start (`src/process.c:91`).
* `success_or_eagain`: a message msgpack cannot unpack is received and not
  replied to; every later `zmq_recv` fails and the API is dead
  (`src/pn_api.c:83`).
* `priorities_read_back`: `src/program.h:90-91` gives a program a nice and an
  ionice level; `pn_prog_set` stores `PROGRAM_IONICE` as the niceness, so the
  ionice level reads 0 and the niceness is lost (`src/program.c:118`).

Also met, and not given a run of their own:

* In the restart delay the record keeps the pid of the child that was reaped; if
  another instance, or a process that is none of the daemon's, has been given
  it, a restart request terminates that one and reports "true" for an instance
  that has no process (`src/process.c:206`; `RestartStaysInside` and
  `RestartReplyIsTrue` name exactly this case). An instance whose process the
  daemon may not signal is reported as not running, for `EPERM` is not told from
  `ESRCH` (`src/process.c:211`).
* The reply to a restart request that names no known program, several, or an
  instance out of range is not one msgpack object: the map of results announces
  one program whatever is found, and the map of a program one instance or all
  (`src/api/restart.c:24, 31, 34`). `RepliesAreObjects` is about the other
  requests (`WellPosed`).
* After a failed `fork()` the instance is declared "running" when its run timer
  expires, has no child, and is never started again (`src/process.c:80`); the
  exceptions in `UpIsBacked` and `NeverLost` name it.
* Programs made by the create request are not in `pn->programs` and no request
  finds them (`src/api/create.c:100`).
* Output left over from an earlier run is published with source "unknown"
  (`src/procnanny.c:98`, stated by `SourceIsThePipe`).
* A status request for one program of several announces them all
  (`src/api/status.c:32-40`), which is why `WellPosed` excludes it; `obj_get`
  takes the first entry whose key is the beginning of the name asked for
  (`src/msgpack_helpers.c:22`).
* The event of an exit carries a nil code although the comment above the code
  lists the exit status (`src/procnanny.c:177-181`, `:208`); the status arrives
  with the events of the next start.
* The name of a user or group whose lookup fails is accepted with `PN_OK`; the
  children then abort (`src/program.c:102`). A niceness of -1 makes every child
  abort, and so does any negative one for another user than root, because
  `nice()` comes after `setuid()` and its result is taken for an error
  (`src/process.c:132`). `PROGRAM_LIMIT_FILES` is accepted and ignored.
  Reading `PROGRAM_USER` gives `PN_OK` and no value; the other options that
  cannot be read give `PN_OPTION_INVALID` (`src/program.c:157-181`).
* `pn_prog_wait` takes the end of another instance's child for that of an
  instance whose `fork()` failed (`src/process.c:163`); `WaitIsTrue` excepts it.
* The node.js version loses a start that finds the program stopping, above.

## 6. Assumptions and limits

* ZeroMQ: the descriptor of the REP socket is certain to become readable when a
  request arrives in an empty queue, and may or may not when others wait;
  reading `ZMQ_EVENTS` makes it unreadable. That is the contract of an edge
  triggered descriptor.
* The macro `msgpack_pack_string` (`src/msgpack_helpers.h:6`) appends a string
  again with length -1 when no length is given; the append is taken to fail.
* `pipe()` and memory allocation succeed. Memory is modelled by addresses that
  are reused, not by layout.
* In Supervisor the failures of the child between `fork()` and `execvp()` are
  one more way for it to exit; Program has what they depend on.
* Supervisor has no processes but those of the daemon, all of which it may
  signal. `RpcSocket` has outsiders, to whom pids are given, and processes that
  `kill()` is refused for.
* Program: the caller waits before it starts again and set `state_cb` to NULL
  (above); the daemon's own niceness is 0, and only root may lower it.
  Supplementary groups, which the code leaves alone, are not modelled. The
  daemon starts instances by `start_process` and sets no option afterwards, so
  what would become of its children then is not asked.
* EventStream: a subscription that comes up receives everything published from
  then on, in order, until its connection breaks; the same holds of a page.
* Not modelled: durations, the text of logs, command lines, resource limits
  (declared in `src/process.h`, used by no code); printing of records and of
  msgpack objects; the rendering of status pages; the listeners and "program-*"
  events of the node.js web interface; `runner.sh` and the two command line
  clients, which keep no state and whose requests are among the inputs of
  RpcSocket.
* The runs' own limits (`FlapBound`, `MaxRuns`, `MaxFd`, `Capacity`,
  `IntBits`, `QueueBound`, `MaxConnections`)
  are constants of the modules and named there. `FlapBound` holds children back
  in the model; the proofs are for every value of it.

## 7. Plan

Everything of the daemon that keeps state has its module, and every safety
property that is checked is proved. What would add something:

1. An abstract specification for RpcSocket, a server that takes requests and
   answers each once with a reply true at that moment, and the refinement.
2. The same for NodeProgram: what was asked for and whether there is a process.
3. Supervisor and RpcSocket composed, so that the pids that requests find in the
   records are those of the supervisor's starts. RpcSocket lets them be recorded,
   reaped and given away at any moment, which allows more.
