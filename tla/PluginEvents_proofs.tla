------------------------ MODULE PluginEvents_proofs ------------------------
(***************************************************************************)
(* Proofs about PluginEvents, for any events, streams and capacity: types, *)
(* and that an open stream misses no event but for a full channel.         *)
(*                                                                         *)
(* NothingMissed speaks of broadcasts that have ended; the invariant       *)
(* Delivered also speaks of the channels that a broadcast still going on   *)
(* has already tried.                                                      *)
(***************************************************************************)
EXTENDS PluginEvents, SequenceTheorems, TLAPS

\* The broadcast of e has passed the channel of s.
Passed(e, s) == dash[e] = "done" \/ (dash[e] = "sending" /\ s \notin todo[e])

Delivered ==
    \A s \in clients, e \in Events :
        Passed(e, s) => e \in settled[s] \cup Range(queue[s])

EventInv == EventTypeOK /\ Delivered

-----------------------------------------------------------------------------
LEMMA RangeAppend ==
    ASSUME NEW S, NEW q \in Seq(S), NEW x \in S
    PROVE  /\ Append(q, x) \in Seq(S)
           /\ Len(Append(q, x)) = Len(q) + 1
           /\ Range(Append(q, x)) = Range(q) \cup {x}
<1>1. /\ Append(q, x) \in Seq(S)
      /\ Len(Append(q, x)) = Len(q) + 1
      /\ \A i \in 1 .. Len(q) : Append(q, x)[i] = q[i]
      /\ Append(q, x)[Len(q) + 1] = x
      /\ DOMAIN Append(q, x) = 1 .. Len(q) + 1
      /\ DOMAIN q = 1 .. Len(q)
      /\ Len(q) \in Nat
  OBVIOUS
<1>2. 1 .. Len(q) + 1 = (1 .. Len(q)) \cup {Len(q) + 1}
  BY <1>1
<1> QED
  BY <1>1, <1>2 DEF Range

LEMMA RangeTail ==
    ASSUME NEW S, NEW q \in Seq(S), q # <<>>
    PROVE  /\ Head(q) \in S
           /\ Tail(q) \in Seq(S)
           /\ Len(Tail(q)) = Len(q) - 1
           /\ Range(q) \subseteq {Head(q)} \cup Range(Tail(q))
<1>1. /\ Len(q) \in Nat \ {0}
      /\ Head(q) = q[1] /\ Head(q) \in S
      /\ Tail(q) \in Seq(S)
      /\ Len(Tail(q)) = Len(q) - 1
      /\ DOMAIN q = 1 .. Len(q)
      /\ DOMAIN Tail(q) = 1 .. Len(q) - 1
      /\ \A i \in 1 .. Len(q) - 1 : Tail(q)[i] = q[i + 1]
  OBVIOUS
<1>2. ASSUME NEW i \in 1 .. Len(q)
      PROVE  q[i] \in {Head(q)} \cup Range(Tail(q))
  <2>1. CASE i = 1
    BY <2>1, <1>1
  <2>2. CASE i # 1
    <3>1. i - 1 \in DOMAIN Tail(q) /\ q[i] = Tail(q)[i - 1]
      BY <2>2, <1>1
    <3> QED
      BY <3>1 DEF Range
  <2> QED
    BY <2>1, <2>2
<1> QED
  BY <1>1, <1>2 DEF Range

-----------------------------------------------------------------------------
LEMMA InitEvents == Init => EventInv
<1> SUFFICES ASSUME Init PROVE EventInv
  OBVIOUS
<1>1. <<>> \in Seq(Events) /\ Len(<<>>) = 0
  OBVIOUS
<1>2. \A s \in Streams : queue[s] = <<>>
  BY DEF Init
<1>3. EventTypeOK
  <2>1. queue \in [Streams -> Seq(Events)]
    BY <1>1 DEF Init
  <2>2. \A s \in Streams : Len(queue[s]) <= Capacity
    BY <1>1, <1>2, CapacityAssumption
  <2> QED
    BY <2>1, <2>2 DEF Init, EventTypeOK
<1>4. Delivered
  BY DEF Init, Delivered
<1> QED
  BY <1>3, <1>4 DEF EventInv

\* A goroutine that moves on: the handlers of the streams keep their place in
\* the map, the channels and what was written.
LEMMA NoDelivery ==
    ASSUME EventInv, EventTypeOK', clients' \subseteq clients,
           UNCHANGED <<dash, todo, queue, settled>>
    PROVE  Delivered'
BY DEF EventInv, Delivered, Passed

LEMMA StepEvents ==
    ASSUME EventInv, [Next]_vars
    PROVE  EventInv'
<1> USE DEF EventInv
<1>1. ASSUME NEW e \in Events, EmitLeaseEvent(e)
      PROVE  EventInv'
  <2>1. EventTypeOK'
    BY <1>1 DEF EmitLeaseEvent, EventTypeOK, streams
  <2>2. Delivered'
    BY <1>1 DEF EmitLeaseEvent, EventTypeOK, Delivered, Passed, streams
  <2> QED
    BY <2>1, <2>2
<1>2. ASSUME NEW e \in Events, WriteLine(e)
      PROVE  EventInv'
  <2>1. EventTypeOK'
    BY <1>2 DEF WriteLine, EventTypeOK, streams
  <2> QED
    BY <1>2, <2>1, NoDelivery DEF WriteLine, streams
<1>3. ASSUME NEW e \in Events, BroadcastStart(e)
      PROVE  EventInv'
  <2>1. EventTypeOK'
    BY <1>3 DEF BroadcastStart, EventTypeOK, streams
  <2>2. Delivered'
    BY <1>3 DEF BroadcastStart, EventTypeOK, Delivered, Passed, streams
  <2> QED
    BY <2>1, <2>2
<1>4. ASSUME NEW e \in Events, BroadcastEnd(e)
      PROVE  EventInv'
  <2>1. EventTypeOK'
    BY <1>4 DEF BroadcastEnd, EventTypeOK, streams
  <2>2. Delivered'
    BY <1>4 DEF BroadcastEnd, EventTypeOK, Delivered, Passed, streams
  <2> QED
    BY <2>1, <2>2
<1>5. ASSUME NEW e \in Events, NEW s \in Streams, BroadcastTo(e, s)
      PROVE  EventInv'
  <2>1. EventTypeOK' /\ (\A t \in Streams : /\ settled[t] \subseteq settled'[t]
                                            /\ Range(queue[t]) \subseteq Range(queue'[t]))
                     /\ e \in settled'[s] \cup Range(queue'[s])
    <3>1. CASE Deliver(e, s)
      <4>1. queue[s] \in Seq(Events)
        BY DEF EventTypeOK
      <4>2. /\ queue' = [queue EXCEPT ![s] = Append(queue[s], e)]
            /\ Len(queue[s]) < Capacity
            /\ UNCHANGED <<settled, audit, dash, clients, sse, left, main>>
            /\ todo' = [todo EXCEPT ![e] = @ \ {s}]
        BY <1>5, <3>1 DEF BroadcastTo, Deliver
      <4>3. /\ Append(queue[s], e) \in Seq(Events)
            /\ Len(Append(queue[s], e)) = Len(queue[s]) + 1
            /\ Range(Append(queue[s], e)) = Range(queue[s]) \cup {e}
        BY <4>1, RangeAppend
      <4>4. \A t \in Streams : queue'[t] = IF t = s THEN Append(queue[s], e) ELSE queue[t]
        BY <4>2 DEF EventTypeOK
      <4>5. queue' \in [Streams -> Seq(Events)]
        BY <4>2, <4>3 DEF EventTypeOK
      <4>6. \A t \in Streams : Len(queue'[t]) <= Capacity
        BY <4>1, <4>2, <4>3, <4>4, CapacityAssumption DEF EventTypeOK
      <4>7. EventTypeOK'
        BY <4>2, <4>5, <4>6 DEF EventTypeOK
      <4> QED
        BY <4>2, <4>3, <4>4, <4>7
    <3>2. CASE Drop(e, s)
      BY <1>5, <3>2 DEF BroadcastTo, Drop, EventTypeOK
    <3> QED
      BY <1>5, <3>1, <3>2 DEF BroadcastTo, TrySend
  <2>2. /\ clients' = clients /\ dash' = dash
        /\ \A f \in Events, t \in Streams :
              (f # e \/ t # s) => (t \in todo'[f] <=> t \in todo[f])
    BY <1>5 DEF BroadcastTo, EventTypeOK
  <2>3. ASSUME NEW t \in clients', NEW f \in Events, Passed(f, t)'
        PROVE  f \in settled'[t] \cup Range(queue'[t])
    <3>1. t \in clients /\ t \in Streams
      BY <2>2 DEF EventTypeOK
    <3>2. CASE f = e /\ t = s
      BY <3>2, <2>1
    <3>3. CASE f # e \/ t # s
      <4>1. Passed(f, t)
        BY <3>1, <3>3, <2>2, <2>3 DEF Passed
      <4> QED
        BY <4>1, <3>1, <2>1 DEF Delivered
    <3> QED
      BY <3>2, <3>3
  <2> QED
    BY <2>1, <2>3 DEF Delivered
<1>6. ASSUME NEW s \in Streams, Subscribe(s)
      PROVE  EventInv'
  <2>1. EventTypeOK'
    BY <1>6 DEF Subscribe, Goto, EventTypeOK, tasks
  <2>2. ASSUME NEW t \in clients', NEW e \in Events, Passed(e, t)'
        PROVE  e \in settled'[t] \cup Range(queue'[t])
    <3>1. /\ Passed(e, t) /\ dash[e] # "sending" /\ UNCHANGED queue
          /\ settled' = [settled EXCEPT ![s] = {f \in Events : dash[f] = "done"}]
          /\ clients' = clients \cup {s}
      BY <1>6, <2>2 DEF Subscribe, Broadcasting, Passed, tasks
    <3>2. CASE t = s
      BY <3>1, <3>2 DEF Passed, EventTypeOK
    <3>3. CASE t # s
      BY <3>1, <3>3 DEF Delivered, EventTypeOK
    <3> QED
      BY <3>2, <3>3
  <2> QED
    BY <2>1, <2>2 DEF Delivered
<1>7. ASSUME NEW s \in Streams, Take(s)
      PROVE  EventInv'
  <2>1. queue[s] \in Seq(Events) /\ queue[s] # <<>>
    BY <1>7 DEF Take, EventTypeOK
  <2>2. /\ Head(queue[s]) \in Events
        /\ Tail(queue[s]) \in Seq(Events)
        /\ Len(Tail(queue[s])) = Len(queue[s]) - 1
        /\ Range(queue[s]) \subseteq {Head(queue[s])} \cup Range(Tail(queue[s]))
    BY <2>1, RangeTail
  <2>3. /\ queue' = [queue EXCEPT ![s] = Tail(queue[s])]
        /\ settled' = [settled EXCEPT ![s] = settled[s] \cup {Head(queue[s])}]
        /\ sse' = [sse EXCEPT ![s] = "writing"]
        /\ UNCHANGED <<tasks, clients, left, main>>
    BY <1>7 DEF Take, Goto
  <2>4. queue' \in [Streams -> Seq(Events)]
    BY <2>2, <2>3 DEF EventTypeOK
  <2>5. \A t \in Streams : Len(queue'[t]) <= Capacity
    <3>1. \A t \in Streams : queue'[t] = IF t = s THEN Tail(queue[s]) ELSE queue[t]
      BY <2>3 DEF EventTypeOK
    <3>2. Len(queue[s]) \in Nat /\ Len(queue[s]) <= Capacity
      BY <2>1 DEF EventTypeOK
    <3>3. Len(Tail(queue[s])) <= Capacity
      BY <3>2, <2>2, CapacityAssumption
    <3>4. \A t \in Streams : Len(queue[t]) <= Capacity
      BY DEF EventTypeOK
    <3> QED
      BY <3>1, <3>3, <3>4
  <2>6. EventTypeOK'
    BY <2>2, <2>3, <2>4, <2>5 DEF EventTypeOK, tasks
  <2>7. \A t \in Streams : settled[t] \cup Range(queue[t]) \subseteq settled'[t] \cup Range(queue'[t])
    <3>1. \A t \in Streams : /\ queue'[t] = IF t = s THEN Tail(queue[s]) ELSE queue[t]
                             /\ settled'[t] = IF t = s THEN settled[s] \cup {Head(queue[s])} ELSE settled[t]
      BY <2>3 DEF EventTypeOK
    <3>2. ASSUME NEW t \in Streams
          PROVE  settled[t] \cup Range(queue[t]) \subseteq settled'[t] \cup Range(queue'[t])
      <4>1. CASE t = s
        BY <3>1, <4>1, <2>2
      <4>2. CASE t # s
        BY <3>1, <4>2
      <4> QED
        BY <4>1, <4>2
    <3> QED
      BY <3>2
  <2>8. Delivered'
    BY <2>3, <2>7 DEF Delivered, Passed, tasks, EventTypeOK
  <2> QED
    BY <2>6, <2>8
<1>8. ASSUME NEW s \in Streams,
             Connect(s) \/ Heartbeat(s) \/ Written(s) \/ Return(s) \/ Unsubscribe(s) \/ Leave(s)
      PROVE  EventInv'
  <2>1. EventTypeOK'
    <3>1. CASE Connect(s)
      BY <3>1 DEF Connect, Goto, EventTypeOK, tasks
    <3>2. CASE Heartbeat(s)
      BY <3>2 DEF Heartbeat, Goto, EventTypeOK, tasks
    <3>3. CASE Written(s)
      BY <3>3 DEF Written, Goto, EventTypeOK, tasks
    <3>4. CASE Return(s)
      BY <3>4 DEF Return, Goto, EventTypeOK, tasks
    <3>5. CASE Unsubscribe(s)
      BY <3>5 DEF Unsubscribe, Goto, EventTypeOK, tasks
    <3>6. CASE Leave(s)
      BY <3>6 DEF Leave, Goto, EventTypeOK, tasks
    <3> QED BY <1>8, <3>1, <3>2, <3>3, <3>4, <3>5, <3>6
  <2>2. clients' \subseteq clients /\ UNCHANGED <<dash, todo, queue, settled>>
    BY <1>8 DEF Connect, Heartbeat, Written, Return, Unsubscribe, Leave, tasks
  <2> QED
    BY <2>1, <2>2, NoDelivery
<1>9. CASE Shutdown
  <2>1. EventTypeOK'
    BY <1>9 DEF Shutdown, StartShutdown, Expire, DashboardShutdown, AuditShutdown, Exit,
                EventTypeOK, tasks, streams
  <2>2. clients' \subseteq clients /\ UNCHANGED <<dash, todo, queue, settled>>
    BY <1>9 DEF Shutdown, StartShutdown, Expire, DashboardShutdown, AuditShutdown, Exit, tasks, streams
  <2> QED
    BY <2>1, <2>2, NoDelivery
<1>10. CASE UNCHANGED vars
  <2>1. EventTypeOK'
    BY <1>10 DEF EventTypeOK, vars, tasks, streams
  <2> QED
    BY <1>10, <2>1, NoDelivery DEF vars, tasks, streams
<1> QED
  BY <1>1, <1>2, <1>3, <1>4, <1>5, <1>6, <1>7, <1>8, <1>9, <1>10 DEF Next, Plugins, Broadcast, HandleSSE

-----------------------------------------------------------------------------
\* Goroutines, streams, channels and the history stay well typed, and no
\* channel holds more than its capacity (EmitLeaseEvent, broadcast, handleSSE).
THEOREM EventTypeCorrect == Spec => []EventTypeOK
<1>1. EventInv => EventTypeOK
  BY DEF EventInv
<1> QED
  BY <1>1, InitEvents, StepEvents, PTL DEF Spec

\* broadcast and subscribe, for any number of events and streams: an open
\* stream has got every event broadcast since it subscribed, or has it in its
\* channel, or had a full channel when the event came.
THEOREM StreamMissesNothing == Spec => []NothingMissed
<1>1. EventInv => NothingMissed
  BY DEF EventInv, Delivered, Passed, NothingMissed
<1> QED
  BY <1>1, InitEvents, StepEvents, PTL DEF Spec

=============================================================================
