---------------------------- MODULE EventStream ----------------------------
(***************************************************************************)
(* How a change of state reaches a web page: pn_proc_state_cb publishes it *)
(* on a ZeroMQ PUB socket (src/procnanny.c), the web server relays what    *)
(* its SUB socket receives to every client that ever connected             *)
(* (web/procnanny.coffee, web/lib/interface.coffee), and the page marks    *)
(* its element of the instance (web/public/js/procnanny.coffee).           *)
(*                                                                         *)
(* Nothing is acknowledged or asked for again.  What is published while    *)
(* the subscription is down is lost for everybody, what is relayed while a *)
(* page is disconnected is lost for that page.                             *)
(*                                                                         *)
(* Events of output are left out: pages ignore them.  The "state" field of *)
(* an event repeats its name.                                              *)
(***************************************************************************)
EXTENDS Lifecycle, Sequences, FiniteSets

CONSTANTS
  Pages,
  NULL,
  FlapBound,       \* bound: a starting child does not exit beyond this flap_count
  QueueBound,      \* bound: messages on their way, on each of the two links
  MaxConnections   \* bound: connections of all pages together

ASSUME StreamAssumption ==
  /\ NULL \notin Statuses /\ Statuses \subseteq WaitStatus
  /\ \A s \in Statuses : s.signaled => s.value # 0   \* there is no signal 0
  /\ FlapBound \in Nat /\ QueueBound \in Nat /\ MaxConnections \in Nat

VARIABLES
  state_cb,      \* whether program->state_cb is set
  subscribed,    \* whether the SUB socket is connected to the PUB socket
  eventstream,   \* messages on their way to the SUB socket
  listeners,     \* the clients @emitter calls
  page,          \* what every page knows
  ended,         \* history: how every instance last ended
  gap,           \* history: instances whose last change was lost before the relay
  lost           \* history: per page, instances whose last relayed event was lost

vars == <<proc, state_cb, subscribed, eventstream, listeners, page, ended, gap, lost>>
history == <<ended, gap, lost>>
web == <<subscribed, listeners, page>>

Classes == {"starting", "exited", "running"}

(* conn counts the connections the page had, up tells whether the last one  *)
(* lives, inbox is what is on its way on it; shown are the classes of the   *)
(* elements, handlers how often each handler is registered.                 *)
NewPage == [conn |-> 0, up |-> FALSE, inbox |-> <<>>, handlers |-> 1,
            shown |-> [i \in Instances |-> {}]]

InitStream ==
  /\ Init
  /\ state_cb \in BOOLEAN
  /\ subscribed = FALSE
  /\ eventstream = <<>>
  /\ listeners = {}
  /\ page = [p \in Pages |-> NewPage]
  /\ ended = [i \in Instances |-> NULL]
  /\ gap = {}
  /\ lost = [p \in Pages |-> {}]

-----------------------------------------------------------------------------
(* The daemon.                                                              *)

(* The table of names has the signals 1 to 31; NULL is "unknown".           *)
SignalName(signal) == IF signal \in 1 .. 31 THEN signal ELSE NULL

(* The last two fields.  NULL is nil: an exit does not tell its own status, *)
(* it is told with the events of the next start.                            *)
Outcome(p) ==
  IF p.state \in {"exited", "backoff"} THEN [code |-> NULL]
  ELSE IF p.exit_signal = 0 THEN [code |-> p.exit_status]
  ELSE [signal |-> SignalName(p.exit_signal)]

publish_proc_event(i, p) == [instance |-> i, event |-> p.state, outcome |-> Outcome(p)]

(* Mutant: the outer call of pn_proc_move_state publishes first.            *)
pn_proc_state_cb_OuterFirst(i, from, to) ==
  <<publish_proc_event(i, to)>> \o
  IF Flapping(from, to.state)
  THEN <<publish_proc_event(i, [to EXCEPT !.state = "backoff"])>> ELSE <<>>

(* What one move publishes.  The nested move of a flapping process is       *)
(* published before the move that overwrites it.                            *)
pn_proc_state_cb(i, from, to) ==
  IF Flapping(from, to.state)
  THEN <<publish_proc_event(i, [to EXCEPT !.state = "backoff"]), publish_proc_event(i, to)>>
  ELSE <<publish_proc_event(i, to)>>

(* The PUB socket keeps nothing for a subscriber that is not there.         *)
zmq_send(i, events) ==
  IF subscribed
  THEN /\ Len(eventstream) + Len(events) <= QueueBound
       /\ eventstream' = eventstream \o events
       /\ gap' = gap \ {i}
  ELSE /\ gap' = gap \cup {i}
       /\ UNCHANGED eventstream

(* A created program has its callback from the beginning (api/create.c:105).*)
(* That of main's program is set by the first start_process: the "new" of   *)
(* the instance started first is not published.                             *)
start(i) ==
  /\ Begin(i)
  /\ LET new == pn_proc_move_state(proc[i], "new")
     IN zmq_send(i, (IF state_cb THEN pn_proc_state_cb(i, proc[i], new) ELSE <<>>)
                      \o pn_proc_state_cb(i, new, proc'[i]))
  /\ state_cb' = TRUE
  /\ UNCHANGED <<web, ended, lost>>

child_timer_cb(i) ==
  /\ Restart(i)
  /\ zmq_send(i, pn_proc_state_cb(i, proc[i], proc'[i]))
  /\ UNCHANGED <<web, state_cb, ended, lost>>

running_state_timer_cb(i) ==
  /\ Settle(i)
  /\ zmq_send(i, pn_proc_state_cb(i, proc[i], proc'[i]))
  /\ UNCHANGED <<web, state_cb, ended, lost>>

child_proc_cb(i, status) ==
  /\ End(i, status)
  /\ proc[i].state = "starting" => proc[i].flap_count < FlapBound
  /\ zmq_send(i, pn_proc_state_cb(i, proc[i], proc'[i]))
  /\ ended' = [ended EXCEPT ![i] = status]
  /\ UNCHANGED <<web, state_cb, lost>>

-----------------------------------------------------------------------------
(* External: the subscription is made, and made again after the connection  *)
(* broke; of what was on its way only the beginning arrives.                *)
Subscribes ==
  /\ ~subscribed
  /\ subscribed' = TRUE
  /\ UNCHANGED <<proc, state_cb, eventstream, listeners, page, history>>

InstancesIn(events) == {events[n].instance : n \in DOMAIN events}

LinkBreaks ==
  /\ subscribed
  /\ subscribed' = FALSE
  /\ \E n \in 0 .. Len(eventstream) :
       /\ eventstream' = SubSeq(eventstream, 1, n)
       /\ gap' = gap \cup InstancesIn(SubSeq(eventstream, n + 1, Len(eventstream)))
  /\ UNCHANGED <<proc, state_cb, listeners, page, ended, lost>>

-----------------------------------------------------------------------------
(* The web server.                                                          *)

(* A client: a new listener, which stays when the client is gone.           *)
new_socketio_client(p) ==
  /\ ~page[p].up /\ Cardinality(listeners) < MaxConnections
  /\ page' = [page EXCEPT ![p].conn = @ + 1, ![p].up = TRUE]
  /\ listeners' = listeners \cup {<<p, page[p].conn + 1>>}
  /\ UNCHANGED <<proc, state_cb, subscribed, eventstream, history>>

\* The listener of the page's present connection is the one that reaches it.
Reached(p) == page[p].up /\ <<p, page[p].conn>> \in listeners

(* Mutant: the event is emitted to one listener only.                       *)
event_Once ==
  /\ eventstream # <<>>
  /\ \A p \in Pages : Len(page[p].inbox) < QueueBound
  /\ LET m == Head(eventstream)
         first == CHOOSE p \in Pages : Reached(p) \/ ~\E q \in Pages : Reached(q)
     IN /\ page' = [p \in Pages |-> IF p = first /\ Reached(p)
                                    THEN [page[p] EXCEPT !.inbox = Append(@, m)] ELSE page[p]]
        /\ lost' = [p \in Pages |-> IF Reached(p) THEN lost[p] \ {m.instance}
                                    ELSE lost[p] \cup {m.instance}]
  /\ eventstream' = Tail(eventstream)
  /\ UNCHANGED <<proc, state_cb, subscribed, listeners, ended, gap>>

(* A message is received and emitted to every listener.                     *)
event ==
  /\ eventstream # <<>>
  /\ \A p \in Pages : Len(page[p].inbox) < QueueBound
  /\ LET m == Head(eventstream)
     IN /\ page' = [p \in Pages |-> IF Reached(p)
                                    THEN [page[p] EXCEPT !.inbox = Append(@, m)] ELSE page[p]]
        /\ lost' = [p \in Pages |-> IF Reached(p) THEN lost[p] \ {m.instance}
                                    ELSE lost[p] \cup {m.instance}]
  /\ eventstream' = Tail(eventstream)
  /\ UNCHANGED <<proc, state_cb, subscribed, listeners, ended, gap>>

-----------------------------------------------------------------------------
(* The page.                                                                *)

dispatch == {"running", "starting", "exited", "new"}

(* Mutant: each class is removed where it was thought to follow.            *)
eventify_InOrder(shown, name) ==
  CASE name = "starting" -> (shown \ {"exited"}) \cup {"starting"}
    [] name = "exited"   -> (shown \ {"running"}) \cup {"exited"}
    [] name = "running"  -> (shown \ {"starting"}) \cup {"running"}
    [] OTHER             -> shown

(* The classes of an element after an event.                                *)
eventify(shown, name) ==
  CASE name = "starting" -> (shown \ {"exited", "running"}) \cup {"starting"}
    [] name = "exited"   -> (shown \ {"starting", "running"}) \cup {"exited"}
    [] name = "running"  -> (shown \ {"starting", "exited"}) \cup {"running"}
    [] OTHER             -> shown

update_program(shown, m) ==
  IF m.event \in dispatch THEN [shown EXCEPT ![m.instance] = eventify(@, m.event)]
  ELSE shown

\* The classes after a sequence of messages.
Updated(shown, messages) ==
  LET after[n \in 0 .. Len(messages)] ==
        IF n = 0 THEN shown ELSE update_program(after[n - 1], messages[n])
  IN after[Len(messages)]

(* The message is handled by every handler registered for it.               *)
receive(p) ==
  /\ page[p].inbox # <<>>
  /\ LET handled == [n \in 1 .. page[p].handlers |-> Head(page[p].inbox)]
     IN page' = [page EXCEPT ![p].inbox = Tail(@), ![p].shown = Updated(@, handled)]
  /\ UNCHANGED <<proc, state_cb, subscribed, eventstream, listeners, history>>

(* Mutant: what was on its way when the connection broke is handled later.  *)
connect_KeepsInbox(p) ==
  /\ page[p].up
  /\ page' = [page EXCEPT ![p].up = FALSE, ![p].handlers = 2 * @]
  /\ UNCHANGED <<proc, state_cb, subscribed, eventstream, listeners, history>>

(* The connection breaks: every "disconnect" handler registers all three    *)
(* handlers once more, and what was on its way is lost.                     *)
connect(p) ==
  /\ page[p].up
  /\ page' = [page EXCEPT ![p].up = FALSE, ![p].handlers = 2 * @, ![p].inbox = <<>>]
  /\ lost' = [lost EXCEPT ![p] = @ \cup InstancesIn(page[p].inbox)]
  /\ UNCHANGED <<proc, state_cb, subscribed, eventstream, listeners, ended, gap>>

(* The page is loaded again: no element has a class.                        *)
Reload(p) ==
  /\ page' = [page EXCEPT ![p] = [NewPage EXCEPT !.conn = page[p].conn]]
  /\ lost' = [lost EXCEPT ![p] = Instances]
  /\ UNCHANGED <<proc, state_cb, subscribed, eventstream, listeners, ended, gap>>

NextStream ==
  \/ \E i \in Instances : start(i) \/ child_timer_cb(i) \/ running_state_timer_cb(i)
  \/ \E i \in Instances, status \in Statuses : child_proc_cb(i, status)
  \/ Subscribes \/ LinkBreaks \/ event
  \/ \E p \in Pages : new_socketio_client(p) \/ receive(p) \/ connect(p) \/ Reload(p)

SpecStream == InitStream /\ [][NextStream]_vars

(* The web server handles the messages it received, and pages theirs.       *)
(* Nothing is assumed of the daemon, the links or the users.                *)
Fairness == WF_vars(event) /\ \A p \in Pages : WF_vars(receive(p))

FairSpec == SpecStream /\ Fairness

-----------------------------------------------------------------------------
Message == [instance : Instances, event : ProcessStates \ {"zero"},
            outcome : [code : Int \cup {NULL}] \cup [signal : (1 .. 31) \cup {NULL}]]

Page == [conn : 0 .. MaxConnections, up : BOOLEAN, inbox : Seq(Message), handlers : Nat \ {0},
         shown : [Instances -> SUBSET Classes]]

TypeOK ==
  /\ proc \in [Instances -> Process]
  /\ state_cb \in BOOLEAN /\ subscribed \in BOOLEAN
  /\ eventstream \in Seq(Message) /\ Len(eventstream) <= QueueBound
  /\ listeners \subseteq Pages \X (1 .. MaxConnections)
  /\ page \in [Pages -> Page] /\ \A p \in Pages : page[p].inbox # <<>> => page[p].up
  /\ ended \in [Instances -> Statuses \cup {NULL}]
  /\ gap \subseteq Instances /\ lost \in [Pages -> SUBSET Instances]

LastOf(i, events) ==
  CHOOSE n \in DOMAIN events :
    events[n].instance = i /\ \A l \in DOMAIN events : events[l].instance = i => l <= n

EndOf(status) ==
  IF status = NULL THEN [code |-> 0]
  ELSE IF status.signaled THEN [signal |-> SignalName(status.value)]
  ELSE [code |-> status.value]

(* A subscriber that believes the last event it was sent of an instance is  *)
(* right: it is the state the instance is in, also where "backoff" was      *)
(* passed through on the way, and a start tells how the run before it ended. *)
LastEventIsTrue ==
  \A i \in InstancesIn(eventstream) \ gap :
    LET m == eventstream[LastOf(i, eventstream)]
    IN /\ m.event = proc[i].state
       /\ m.event # "exited" => m.outcome = EndOf(ended[i])

\* The page when everything on its way to it is handled.
Settled(p) == Updated(page[p].shown, page[p].inbox \o eventstream)

ClassOf(state) == IF state = "zero" THEN {} ELSE {state}

(* A connected page that missed nothing of an instance shows its state once *)
(* what is on its way has arrived, and one that did is put right by the     *)
(* next event: reconnections, handlers that run several times and           *)
(* listeners of clients that are gone do no harm to what is shown.          *)
PageShowsState ==
  \A p \in Pages, i \in Instances :
    page[p].up /\ i \notin gap /\ (i \in lost[p] => i \in InstancesIn(eventstream))
      => Settled(p)[i] = ClassOf(proc[i].state)

\* The connections of a page are the first ones of its listeners.
ConnectionsAreListeners ==
  /\ IsFiniteSet(listeners) /\ Cardinality(listeners) <= MaxConnections
  /\ \A p \in Pages : {p} \X (1 .. page[p].conn) \subseteq listeners

\* What the process record keeps of the last end.
IsRecorded(p, end) ==
  /\ end = NULL => p.exit_status = 0 /\ p.exit_signal = 0
  /\ end # NULL => IF end.signaled THEN p.exit_signal = end.value
                   ELSE p.exit_signal = 0 /\ p.exit_status = end.value

RecordsAreTrue ==
  \A i \in Instances :
    proc[i].state \in {"zero"} \cup Classes /\ IsRecorded(proc[i], ended[i])

IsLast(n, i, events) ==
  /\ n \in DOMAIN events /\ events[n].instance = i
  /\ \A l \in DOMAIN events : events[l].instance = i => l <= n

\* The last event of i in a sequence is true.
Tells(events, i, state, end) ==
  \A n \in DOMAIN events :
    IsLast(n, i, events) => /\ events[n].event = state
                            /\ events[n].event # "exited" => events[n].outcome = EndOf(end)

StreamIsTrue ==
  \A i \in Instances : i \notin gap => Tells(eventstream, i, proc[i].state, ended[i])

(* The last message of i a page has yet to handle tells the state, or       *)
(* there is none and the page shows it.                                     *)
Knows(pg, i, state) ==
  /\ \A n \in DOMAIN pg.inbox : IsLast(n, i, pg.inbox) => pg.inbox[n].event = state
  /\ i \notin InstancesIn(pg.inbox) => pg.shown[i] = ClassOf(state)

\* So does every page that missed nothing of an instance the relay is done with.
PageIsTrue ==
  \A p \in Pages, i \in Instances :
    i \notin gap /\ i \notin lost[p] /\ i \notin InstancesIn(eventstream)
      => Knows(page[p], i, proc[i].state)

(* The inductive invariant behind the two properties above: what page,      *)
(* stream, record and the histories of what was lost have to do with each   *)
(* other, also for a page that is not connected.                            *)
IInv ==
  /\ TypeOK
  /\ ConnectionsAreListeners
  /\ RecordsAreTrue
  /\ StreamIsTrue
  /\ PageIsTrue

(* If an instance comes to rest while the page is connected, and no event   *)
(* of the last change was lost, the page comes to show it.                  *)
PagesCatchUp ==
  \A p \in Pages, i \in Instances, s \in Classes :
    <>[](proc[i].state = s /\ page[p].up /\ i \notin gap /\ i \notin lost[p])
      => <>[](page[p].shown[i] = {s})
=============================================================================
