---------------------------- MODULE PluginEvents ----------------------------
(***************************************************************************)
(* What happens to a lease event after the handler has emitted it:         *)
(* plugin.Registry starts one goroutine per event and plugin, the auditlog *)
(* plugin writes it to a file, the dashboard plugin broadcasts it to the   *)
(* channels of the open /events streams, and the shutdown of the process   *)
(* stops the plugins in reverse order while all of this is going on.       *)
(*                                                                         *)
(* The plugins are those of the "ui" command: auditlog, then dashboard.    *)
(* Lease events come from handlers and reapers in any order; what they say *)
(* is not modelled.                                                        *)
(***************************************************************************)
EXTENDS Naturals, Sequences, Functions

CONSTANTS
    Events,     \* the lease events that are emitted
    Streams,    \* the browsers; each requests /events once
    Capacity    \* the capacity of a stream's channel, 32 in the code

ASSUME CapacityAssumption == Capacity \in Nat \ {0}

VARIABLES
    audit,      \* the auditlog goroutine of each event
    dash,       \* the dashboard goroutine of each event
    todo,       \* the channels that goroutine has still to try
    clients,    \* Dashboard.clients
    queue,      \* the channel of each stream
    sse,        \* the handleSSE goroutine of each stream
    left,       \* the browsers that have closed the connection
    main,       \* the main goroutine: serving, in a plugin's OnShutdown, after the last
                \* one, or exited; in the dashboard's, the deadline may be over
    \* History: the events a stream is not owed (any more), because they were
    \* written to it, found its channel full, or were broadcast before it
    \* subscribed.
    settled

tasks == <<audit, dash, todo>>
streams == <<clients, queue, sse, left>>
vars == <<tasks, streams, main, settled>>

Init ==
    /\ audit = [e \in Events |-> "none"]
    /\ dash = [e \in Events |-> "none"]
    /\ todo = [e \in Events |-> {}]
    /\ clients = {}
    /\ queue = [s \in Streams |-> <<>>]
    /\ sse = [s \in Streams |-> "away"]
    /\ left = {}
    /\ main = "serving"
    /\ settled = [s \in Streams |-> {}]

-----------------------------------------------------------------------------
(* Registry.EmitLeaseEvent starts a goroutine for each plugin.  That of the *)
(* auditlog writes one line under the plugin's mutex; once OnShutdown has    *)
(* closed the file the write fails.                                          *)

EmitLeaseEvent(e) ==
    /\ audit[e] = "none"
    /\ audit' = [audit EXCEPT ![e] = "ready"]
    /\ dash' = [dash EXCEPT ![e] = "ready"]
    /\ UNCHANGED <<todo, streams, main, settled>>

WriteLine(e) ==
    /\ audit[e] = "ready"
    /\ audit' = [audit EXCEPT ![e] = IF main = "closed" THEN "failed" ELSE "written"]
    /\ UNCHANGED <<dash, todo, streams, main, settled>>

-----------------------------------------------------------------------------
(* The dashboard's broadcast holds the read lock of Dashboard.mu; subscribe  *)
(* and unsubscribe take the write lock.  A writer that waits keeps new       *)
(* readers out.                                                              *)

Broadcasting == {e \in Events : dash[e] = "sending"}
WriterWaits == \E s \in Streams : sse[s] \in {"subscribing", "unsubscribing"}

BroadcastStart(e) ==
    /\ dash[e] = "ready" /\ ~WriterWaits
    /\ dash' = [dash EXCEPT ![e] = "sending"]
    /\ todo' = [todo EXCEPT ![e] = clients]
    /\ UNCHANGED <<audit, streams, main, settled>>

\* Faulty: the room is counted one too high.
DeliverOneTooMany(e, s) ==
    /\ Len(queue[s]) <= Capacity
    /\ queue' = [queue EXCEPT ![s] = Append(@, e)]
    /\ UNCHANGED settled

Deliver(e, s) ==
    /\ Len(queue[s]) < Capacity
    /\ queue' = [queue EXCEPT ![s] = Append(@, e)]
    /\ UNCHANGED settled

Drop(e, s) ==
    /\ Len(queue[s]) = Capacity
    /\ settled' = [settled EXCEPT ![s] = @ \cup {e}]
    /\ UNCHANGED queue

\* Faulty: the send has no default case and waits for room.
TrySendBlocking(e, s) == Deliver(e, s)

TrySend(e, s) == Deliver(e, s) \/ Drop(e, s)

BroadcastTo(e, s) ==
    /\ dash[e] = "sending" /\ s \in todo[e]
    /\ TrySend(e, s)
    /\ todo' = [todo EXCEPT ![e] = @ \ {s}]
    /\ UNCHANGED <<audit, dash, clients, sse, left, main>>

BroadcastEnd(e) ==
    /\ dash[e] = "sending" /\ todo[e] = {}
    /\ dash' = [dash EXCEPT ![e] = "done"]
    /\ UNCHANGED <<audit, todo, streams, main, settled>>

-----------------------------------------------------------------------------
(* handleSSE.  A browser connects while the dashboard accepts connections;   *)
(* "subscribing" and "unsubscribing" is where the handler waits for the lock *)
(* and "writing" where it waits for the browser to read.                     *)

Goto(s, from, to) == sse[s] = from /\ sse' = [sse EXCEPT ![s] = to]

Connect(s) ==
    /\ main = "serving"
    /\ Goto(s, "away", "subscribing")
    /\ UNCHANGED <<tasks, clients, queue, left, main, settled>>

\* Faulty: the map is written without the lock.
SubscribeUnlocked(s) ==
    /\ Goto(s, "subscribing", "waiting")
    /\ clients' = clients \cup {s}
    /\ settled' = [settled EXCEPT ![s] = {e \in Events : dash[e] = "done"}]
    /\ UNCHANGED <<tasks, queue, left, main>>

Subscribe(s) ==
    /\ Broadcasting = {}
    /\ Goto(s, "subscribing", "waiting")
    /\ clients' = clients \cup {s}
    /\ settled' = [settled EXCEPT ![s] = {e \in Events : dash[e] = "done"}]
    /\ UNCHANGED <<tasks, queue, left, main>>

\* select: the next event of the channel, or the heartbeat of the ticker.
Take(s) ==
    /\ queue[s] # <<>>
    /\ Goto(s, "waiting", "writing")
    /\ queue' = [queue EXCEPT ![s] = Tail(@)]
    /\ settled' = [settled EXCEPT ![s] = @ \cup {Head(queue[s])}]
    /\ UNCHANGED <<tasks, clients, left, main>>

Heartbeat(s) ==
    /\ Goto(s, "waiting", "writing")
    /\ UNCHANGED <<tasks, clients, queue, left, main, settled>>

Written(s) ==
    /\ Goto(s, "writing", "waiting")
    /\ UNCHANGED <<tasks, clients, queue, left, main, settled>>

\* select: the context of the request is done.
Return(s) ==
    /\ s \in left
    /\ Goto(s, "waiting", "unsubscribing")
    /\ UNCHANGED <<tasks, clients, queue, left, main, settled>>

Unsubscribe(s) ==
    /\ Broadcasting = {}
    /\ Goto(s, "unsubscribing", "gone")
    /\ clients' = clients \ {s}
    /\ UNCHANGED <<tasks, queue, left, main, settled>>

\* The browser goes away, at any time.
Leave(s) ==
    /\ sse[s] # "away" /\ s \notin left
    /\ left' = left \cup {s}
    /\ UNCHANGED <<tasks, clients, queue, sse, main, settled>>

-----------------------------------------------------------------------------
(* serve: a signal or a failed server ends the select; Registry.Shutdown     *)
(* then stops the dashboard, which was registered last, and the auditlog,    *)
(* under one context of five seconds.  http.Server.Shutdown waits for the    *)
(* open requests and does not cancel them.                                   *)

StartShutdown ==
    /\ main = "serving"
    /\ main' = "dashboard"
    /\ UNCHANGED <<tasks, streams, settled>>

Expire ==
    /\ main = "dashboard"
    /\ main' = "overdue"
    /\ UNCHANGED <<tasks, streams, settled>>

RequestsEnded == \A s \in Streams : sse[s] \in {"away", "gone"}

\* Faulty: the dashboard is stopped with a context that has no deadline.
DashboardShutdownNoDeadline ==
    /\ main \in {"dashboard", "overdue"} /\ RequestsEnded
    /\ main' = "auditlog"
    /\ UNCHANGED <<tasks, streams, settled>>

DashboardShutdown ==
    /\ \/ main = "dashboard" /\ RequestsEnded
       \/ main = "overdue"
    /\ main' = "auditlog"
    /\ UNCHANGED <<tasks, streams, settled>>

AuditShutdown ==
    /\ main = "auditlog"
    /\ main' = "closed"
    /\ UNCHANGED <<tasks, streams, settled>>

\* serve and main return, and every goroutine ends.
Exit ==
    /\ main = "closed"
    /\ main' = "exited"
    /\ UNCHANGED <<tasks, streams, settled>>

-----------------------------------------------------------------------------

Broadcast(e) ==
    BroadcastStart(e) \/ BroadcastEnd(e) \/ \E s \in Streams : BroadcastTo(e, s)

Plugins(e) == EmitLeaseEvent(e) \/ WriteLine(e) \/ Broadcast(e)

HandleSSE(s) ==
    \/ Connect(s) \/ Subscribe(s) \/ Take(s) \/ Heartbeat(s) \/ Written(s)
    \/ Return(s) \/ Unsubscribe(s) \/ Leave(s)

Shutdown == StartShutdown \/ Expire \/ DashboardShutdown \/ AuditShutdown \/ Exit

Next ==
    /\ main # "exited"
    /\ \/ \E e \in Events : Plugins(e)
       \/ \E s \in Streams : HandleSSE(s)
       \/ Shutdown

Spec == Init /\ [][Next]_vars

\* A goroutine of the server that can go on does so, whatever the others do;
\* select takes a ready case at random, so a done context is not passed over
\* for ever.  Nothing is assumed of the browsers that are still connected,
\* nor that an event or a signal ever comes.
Alive(A) == main # "exited" /\ A

Fairness ==
    /\ \A e \in Events :
          /\ WF_vars(Alive(WriteLine(e)))
          /\ WF_vars(Alive(Broadcast(e)))
    /\ \A s \in Streams :
          /\ WF_vars(Alive(Subscribe(s) \/ Unsubscribe(s) \/ (s \in left /\ Written(s))))
          /\ SF_vars(Alive(Return(s)))
    /\ WF_vars(Alive(Expire))
    /\ WF_vars(Alive(DashboardShutdown \/ AuditShutdown \/ Exit))

FairSpec == Spec /\ Fairness

-----------------------------------------------------------------------------
(* Properties *)

EventTypeOK ==
    /\ audit \in [Events -> {"none", "ready", "written", "failed"}]
    /\ dash \in [Events -> {"none", "ready", "sending", "done"}]
    /\ todo \in [Events -> SUBSET Streams]
    /\ clients \subseteq Streams
    /\ queue \in [Streams -> Seq(Events)]
    /\ \A s \in Streams : Len(queue[s]) <= Capacity
    /\ sse \in [Streams -> {"away", "subscribing", "waiting", "writing", "unsubscribing", "gone"}]
    /\ left \subseteq Streams
    /\ main \in {"serving", "dashboard", "overdue", "auditlog", "closed", "exited"}
    /\ settled \in [Streams -> SUBSET Events]

\* broadcast and subscribe: a stream that is open has got, or has waiting in
\* its channel, every event whose broadcast ended after it subscribed, but for
\* those that found its channel full.
NothingMissed ==
    \A s \in clients, e \in Events :
        dash[e] = "done" => e \in settled[s] \cup Range(queue[s])

\* EmitLeaseEvent: whatever the browsers do, each plugin is done with every
\* event in the end; a stream that nobody reads holds up no other.  (Time and
\* again all that was emitted is done with: what is done stays so.)
EventsHandled ==
    []<>(\/ main = "exited"
         \/ \A e \in Events : audit[e] # "none" =>
                 audit[e] \in {"written", "failed"} /\ dash[e] = "done")

\* handleSSE: the channel of a browser that has left is taken out of the map,
\* also when other browsers stay and read nothing.
DepartedForgotten ==
    []<>(\/ main = "exited"
         \/ \A s \in left : sse[s] = "gone" /\ s \notin clients)

\* Registry.Shutdown ends, although the requests of the streams do not.
ShutdownEnds == []<>(main \in {"serving", "exited"})

=============================================================================
