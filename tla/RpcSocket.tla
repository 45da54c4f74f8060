----------------------------- MODULE RpcSocket -----------------------------
(***************************************************************************)
(* The request socket of the daemon (src/pn_api.c): rpc_cb is invoked when *)
(* the descriptor of a ZeroMQ REP socket becomes readable, takes one       *)
(* request from the socket, and replies.                                   *)
(*                                                                         *)
(* Two rules of the library decide what clients get.  A REP socket takes   *)
(* no request while a reply is owed.  Its descriptor is edge triggered: it *)
(* is made readable when a request arrives where none was waiting, and     *)
(* asking for the events makes it unreadable, whatever is left in the      *)
(* queue.                                                                  *)
(*                                                                         *)
(* kill() is given the pid in the record of an instance, which is still    *)
(* there when the process is gone; who has the pid now is for the kernel   *)
(* to know.                                                                *)
(***************************************************************************)
EXTENDS Api, FiniteSets

CONSTANTS
  Clients,
  Requests,   \* what clients send
  Garbage,    \* a message msgpack cannot unpack
  Pids,       \* what fork() returns when it succeeds
  NoPid,      \* the pid of a record that was never started
  ForkFailed, \* the pid of a record whose fork() failed
  Outsider,   \* whoever has a pid and is no instance of pn->programs
  NULL

Messages == Requests \cup {Garbage}

ASSUME ClientAssumption ==
  /\ NULL \notin Clients \cup Messages /\ Garbage \notin Requests
  /\ IsFiniteSet(Clients)

\* A reply is always some message.
ASSUME ReplyAssumption ==
  \A m \in Requests, reached \in SUBSET Instances : rpc_reply(m, reached) # NULL

ASSUME PidAssumption ==
  /\ NoPid \notin Pids /\ ForkFailed \notin Pids
  /\ Outsider \notin Instances /\ NULL \notin Instances \cup {Outsider}

VARIABLES
  sent,      \* the request every client waits for the reply of, or NULL
  received,  \* the reply every client got, or NULL
  queue,     \* the socket: clients whose request was not received yet
  owing,     \* the socket: the client whose request was received, or NULL
  readable,  \* the descriptor of the socket, as libev sees it
  pid,       \* the pid in the record of every instance of pn->programs
  holder,    \* the kernel: whose process has the pid, reaped ones apart; or NULL
  immune,    \* the kernel: pids of processes the daemon may not signal
  signalled  \* pids of processes that were sent SIGTERM

kernel == <<holder, immune>>
socket == <<sent, received, queue, owing, readable>>
vars == <<socket, pid, kernel, signalled>>

Init ==
  /\ sent = [c \in Clients |-> NULL]
  /\ received = [c \in Clients |-> NULL]
  /\ queue = <<>>
  /\ owing = NULL
  /\ readable = FALSE
  /\ pid = [x \in Instances |-> NoPid]
  /\ holder = [q \in Pids |-> NULL]
  /\ immune = {}
  /\ signalled = {}

-----------------------------------------------------------------------------
(* External: a client, which waits for the reply before it asks again.      *)
ClientSends(c, m) ==
  /\ sent[c] = NULL
  /\ sent' = [sent EXCEPT ![c] = m]
  /\ queue' = Append(queue, c)
  /\ readable' \in IF queue = <<>> THEN {TRUE} ELSE {readable, TRUE}
  /\ UNCHANGED <<received, owing, pid, kernel, signalled>>

ClientReceives(c) ==
  /\ received[c] # NULL
  /\ sent' = [sent EXCEPT ![c] = NULL]
  /\ received' = [received EXCEPT ![c] = NULL]
  /\ UNCHANGED <<queue, owing, readable, pid, kernel, signalled>>

Held == {q \in Pids : holder[q] # NULL}

HasProcess(x) == \E q \in Pids : holder[q] = x

(* Of the supervision core, which Supervisor models, what a request can     *)
(* tell: a start records the pid fork() returned, which stays in the record *)
(* when the child is reaped.  A failed fork() is never followed by another  *)
(* start.                                                                   *)
ProcessStarts(x, q) ==
  /\ ~HasProcess(x) /\ pid[x] # ForkFailed
  /\ q \notin Held
  /\ pid' = [pid EXCEPT ![x] = q]
  /\ holder' = [holder EXCEPT ![q] = x]
  /\ UNCHANGED <<socket, immune, signalled>>

ForkFails(x) ==
  /\ ~HasProcess(x)
  /\ pid' = [pid EXCEPT ![x] = ForkFailed]
  /\ UNCHANGED <<socket, kernel, signalled>>

(* External: the kernel gives a pid away, to the child of a program made by *)
(* a create request too, and a process ends, whoever's it was.              *)
OutsiderComes(q) ==
  /\ q \notin Held
  /\ holder' = [holder EXCEPT ![q] = Outsider]
  /\ UNCHANGED <<socket, pid, immune, signalled>>

ProcessEnds(q) ==
  /\ q \in Held
  /\ holder' = [holder EXCEPT ![q] = NULL]
  /\ immune' = immune \ {q}
  /\ signalled' = signalled \ {q}
  /\ UNCHANGED <<socket, pid>>

(* External: a process changes to a user whose processes the daemon may not *)
(* signal (or was of such a user from the start).                           *)
ChangesUser(q) ==
  /\ q \in Held
  /\ immune' = immune \cup {q}
  /\ UNCHANGED <<socket, pid, holder, signalled>>

-----------------------------------------------------------------------------
(* Mutant: the result of kill() is ignored.                                 *)
Reached_Unchecked == {x \in Instances : pid[x] \in Pids}

(* Where pn_proc_signal succeeds: the pid in the record is one, and kill()  *)
(* finds a process that has it and may be signalled.  A zombie still has    *)
(* its pid.                                                                 *)
Reached == {x \in Instances : pid[x] \in Held \ immune}

(* Mutant: what cannot be dispatched is ignored, as the log says it is.     *)
rpc_handle_Ignores(c) ==
  IF sent[c] = Garbage \/ Method(sent[c]) = <<>>
  THEN owing' = c /\ UNCHANGED <<received, signalled>>
  ELSE /\ received' = [received EXCEPT ![c] = rpc_reply(sent[c], Reached)]
       /\ signalled' = signalled \cup {pid[x] : x \in Terminated(sent[c], Reached)}
       /\ owing' = NULL

(* Without a reply when the message cannot be unpacked.                     *)
rpc_handle(c) ==
  IF sent[c] = Garbage THEN owing' = c /\ UNCHANGED <<received, signalled>>
  ELSE /\ received' = [received EXCEPT ![c] = rpc_reply(sent[c], Reached)]
       /\ signalled' = signalled \cup {pid[x] : x \in Terminated(sent[c], Reached)}
       /\ owing' = NULL

\* zmq_recv fails with EFSM instead of EAGAIN.
OutOfStep == owing # NULL

(* Mutants: a request that finds a reply owed is dropped; the newest        *)
(* request is taken.                                                        *)
rpc_receive_Drops ==
  IF queue = <<>> THEN UNCHANGED <<received, queue, owing, signalled>>
  ELSE /\ queue' = Tail(queue)
       /\ IF OutOfStep THEN UNCHANGED <<received, owing, signalled>>
          ELSE rpc_handle(Head(queue))

rpc_receive_Newest ==
  IF OutOfStep \/ queue = <<>> THEN UNCHANGED <<received, queue, owing, signalled>>
  ELSE /\ queue' = Front(queue)
       /\ rpc_handle(Last(queue))

(* One request at most is taken, and only by a socket that owes no reply.   *)
rpc_receive ==
  IF OutOfStep \/ queue = <<>> THEN UNCHANGED <<received, queue, owing, signalled>>
  ELSE /\ queue' = Tail(queue)
       /\ rpc_handle(Head(queue))

(* The test for ZMQ_POLLIN never succeeds ("zmqevents & ZMQ_POLLIN == 0" is *)
(* "zmqevents & 0"), so a request is always tried for.                      *)
rpc_cb ==
  /\ readable
  /\ readable' = FALSE
  /\ rpc_receive
  /\ UNCHANGED <<sent, pid, kernel>>

Next ==
  \/ \E c \in Clients, m \in Messages : ClientSends(c, m)
  \/ \E c \in Clients : ClientReceives(c)
  \/ \E x \in Instances : ForkFails(x) \/ \E q \in Pids : ProcessStarts(x, q)
  \/ \E q \in Pids : OutsiderComes(q) \/ ProcessEnds(q) \/ ChangesUser(q)
  \/ rpc_cb

Spec == Init /\ [][Next]_vars

(* libev invokes the callback of a readable descriptor; a client reads its  *)
(* reply.                                                                   *)
Fairness == WF_vars(rpc_cb) /\ \A c \in Clients : WF_vars(ClientReceives(c))

FairSpec == Spec /\ Fairness

-----------------------------------------------------------------------------
Waiting == {c \in Clients : sent[c] # NULL /\ received[c] = NULL}

TypeOK ==
  /\ sent \in [Clients -> Messages \cup {NULL}]
  /\ DOMAIN received = Clients
  /\ \A c \in Clients : received[c] # NULL => sent[c] # NULL
  /\ queue \in Seq(Clients) /\ Len(queue) <= Cardinality(Clients)
  /\ owing \in Clients \cup {NULL}
  /\ readable \in BOOLEAN
  /\ pid \in [Instances -> Pids \cup {NoPid, ForkFailed}]
  /\ holder \in [Pids -> Instances \cup {Outsider, NULL}]
  /\ signalled \subseteq Held /\ immune \subseteq Held

(* Garbage in the socket, events without a request, requests without an     *)
(* event: through all of it a request that was not answered is in exactly   *)
(* one place, the queue or the debt, and an answered one in none.           *)
EveryRequestIsSomewhere ==
  /\ IsInjective(queue)
  /\ Waiting = Range(queue) \cup ({owing} \ {NULL})
  /\ owing \notin Range(queue)

(* The pid of an instance that has a process is in its record.              *)
PidsAreRecorded == \A q \in Pids : holder[q] \in Instances => pid[holder[q]] = q

(* Clients, queue and debt agree with each other, and pids with processes.  *)
Inv == TypeOK /\ EveryRequestIsSomewhere /\ PidsAreRecorded

(* What somebody who knows pn->programs asks: restart names one program and *)
(* all or one of its instances, status names none or what all begin with.   *)
WellPosed(obj) ==
  LET name == obj_get(obj, program, "raw")
      inst == InstanceField(obj)
  IN /\ Method(obj) = restart /\ Got(name) =>
          /\ Cardinality(Named(name)) = 1
          /\ \A p \in Named(name) : inst \in -1 .. Programs[p].nprocs - 1
     /\ Method(obj) = status /\ Got(name) => Named(name) = DOMAIN Programs

Answered(c) == sent[c] \in Requests /\ received[c] # NULL

(* The headers of a reply are packed before its contents, by a condition    *)
(* that is not the one the contents are selected by.  For a well-posed      *)
(* request they agree: the client unpacks one object and nothing is left    *)
(* over, whatever processes kill() reaches.                                 *)
RepliesAreObjects ==
  \A c \in Clients : Answered(c) /\ WellPosed(sent[c]) => IsOneObject(received[c])

\* The instances a reply has the given result for.
ResultFor(reply, text) ==
  {reply[n].number : n \in
     {k \in DOMAIN reply \ {Len(reply)} :
        "number" \in DOMAIN reply[k] /\ reply[k + 1] = Scalar(text)}}

\* A step that answers a request for a restart of one program.
RestartAnswered(c) ==
  /\ ~Answered(c) /\ Answered(c)' /\ Method(sent[c]) = restart
  /\ Got(obj_get(sent[c], program, "raw")) /\ WellPosed(sent[c])

(* What the answer says of the instances asked for, all of which it names.  *)
(* The processes of those it reports true for are sent SIGTERM, and where   *)
(* such an instance has no process it is whoever has its old pid now.  No   *)
(* other process is.  The rest have no process, or one the daemon may not   *)
(* signal.                                                                  *)
AnswerIsTrue(c) ==
  LET p    == CHOOSE q \in Named(obj_get(sent[c], program, "raw")) : TRUE
      inst == InstanceField(sent[c])
      hit  == {<<p, i>> : i \in ResultFor(received'[c], "true")}
      miss == {<<p, i>> : i \in ResultFor(received'[c], NotRunning)}
  IN /\ hit \cup miss = {x \in Instances : x[1] = p /\ (inst = -1 \/ inst = x[2])}
     /\ signalled' = signalled \cup {pid[x] : x \in hit}
     /\ \A x \in hit : pid[x] \in Held \ immune /\ (HasProcess(x) => holder[pid[x]] = x)
     /\ \A x \in miss : HasProcess(x) => holder[pid[x]] = x /\ pid[x] \in immune

(* A restart request reaches every process it is meant for, reports of      *)
(* every instance asked for what kill() did, and signals nothing else than  *)
(* what has a pid these instances were last given.                          *)
RestartReplyIsTrue == [][\A c \in Clients : RestartAnswered(c) => AnswerIsTrue(c)]_vars

NoGarbage == \A c \in Clients : sent[c] # Garbage

(* A request that is alone is answered: it was announced, and nothing the   *)
(* daemon did before can have left the socket out of step.                  *)
AloneIsAnswered ==
  [](NoGarbage /\ Cardinality(Waiting) <= 1) =>
    \A c \in Clients : c \in Waiting ~> c \notin Waiting

(* A request that waited with others is answered as long as more arrive:    *)
(* every event serves the one that waited longest.                          *)
BacklogIsServed ==
  ([]NoGarbage /\ []<>readable) =>
    \A c \in Clients : c \in Waiting ~> c \notin Waiting

-----------------------------------------------------------------------------
(* Statements of the repository that the code does not keep.                *)

(* rpc_receive: "zmq_recv: expected success or EAGAIN".  rpc_cb is about to *)
(* be invoked and the socket owes no reply.                                 *)
SuccessOrEAGAIN == readable => ~OutOfStep
=============================================================================
