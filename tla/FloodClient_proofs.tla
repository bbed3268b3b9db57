-------------------------- MODULE FloodClient_proofs --------------------------
(***************************************************************************)
(* Proofs about FloodClient for every number of exchanges, transaction     *)
(* numbers and room in a channel.                                          *)
(*                                                                         *)
(* ReportsAcked is not inductive.  A client reads types that are not those *)
(* of the replies it holds, so what protects it is that nothing else of    *)
(* its own can be under way when it waits for its ACK: one DISCOVER has    *)
(* one answer, and the client has taken it.                                *)
(***************************************************************************)
EXTENDS FloodClient, FiniteSetTheorems, SequenceTheorems, TLAPS

\* A reply is handed to the client that has its number, and a request carries
\* the number of its sender.
Routed ==
    /\ reader.to # Nil => reader.pkt # Nil /\ reader.pkt.xid = xid[reader.to]
    /\ \A c \in Clients : \A i \in DOMAIN chan[c] : chan[c][i].xid = xid[c]
    /\ \A m \in requests : m.xid = xid[m.from]

\* What dora reads has been written.
Written ==
    \A c \in Clients :
        /\ pc[c] = "request" => offer[c] \in Packets
        /\ pc[c] \in {"leave", "report", "done"} => answer[c] \in Answers

OwnRequests(c) == {m \in requests : m.xid = xid[c]}
OwnReplies(c)  == {r \in replies : r.xid = xid[c]}
InHand(c)      == reader.pkt # Nil /\ reader.pkt.xid = xid[c]

\* Nothing with the number of c is under way.
Quiet(c) ==
    /\ OwnRequests(c) = {}
    /\ OwnReplies(c) = {}
    /\ ~InHand(c)
    /\ chan[c] = <<>>

\* One message with the number of c is under way, at most: the DISCOVER or its
\* answer.
Alone(c) ==
    /\ \A m, n \in OwnRequests(c) : m = n
    /\ \A r, q \in OwnReplies(c) : r = q
    /\ OwnRequests(c) # {} => OwnReplies(c) = {} /\ ~InHand(c) /\ chan[c] = <<>>
    /\ OwnReplies(c) # {} => ~InHand(c) /\ chan[c] = <<>>
    /\ InHand(c) => chan[c] = <<>>
    /\ Len(chan[c]) <= 1

\* The address of a reply is none, or one acknowledged to c.
Settled(c, r) == r.yiaddr = Zero \/ (r.yiaddr = c /\ c \in acked)

\* What is under way with the number of c says nothing that is not settled.
AllSettled(c) ==
    /\ \A m \in OwnRequests(c) : m.type = "request"
    /\ \A r \in OwnReplies(c) : Settled(c, r)
    /\ InHand(c) => Settled(c, reader.pkt)
    /\ \A i \in DOMAIN chan[c] : Settled(c, chan[c][i])

Exchange(c) ==
    /\ pc[c] \in {"start", "discover", "request"} => Quiet(c)
    /\ pc[c] = "offer" => Alone(c)
    /\ pc[c] = "ack" => AllSettled(c)

FloodInv ==
    /\ FloodTypeOK
    /\ Subscribed
    /\ Routed
    /\ Written
    /\ \A c \in Clients : OwnXid(c) => Exchange(c)
    /\ ReportsAcked

-----------------------------------------------------------------------------
(* Counting *)

Done == {c \in Clients : pc[c] = "done"}

\* The exchanges that have reported are those before the step: it moves one that
\* has not to a place where it still has not.
LEMMA SameDone ==
    ASSUME FloodTypeOK, NEW c \in Clients, NEW s, pc[c] # "done", s # "done",
           pc' = [pc EXCEPT ![c] = s]
    PROVE  Done' = Done
BY DEF Done, FloodTypeOK

LEMMA OneMoreDone ==
    ASSUME FloodTypeOK, NEW c \in Clients, pc[c] # "done", pc' = [pc EXCEPT ![c] = "done"]
    PROVE  Cardinality(Done') = Cardinality(Done) + 1
<1>1. Done' = Done \cup {c} /\ c \notin Done
  BY DEF Done, FloodTypeOK
<1>2. IsFiniteSet(Done)
  BY FloodAssumption, FS_Subset DEF Done
<1> QED
  BY <1>1, <1>2, FS_AddElement

-----------------------------------------------------------------------------
(* The buffer of readLoop *)

LEMMA StalePacket ==
    ASSUME NEW p \in Packets
    PROVE  Stale(p) \in Packets /\ Stale(p).xid = p.xid /\ Stale(p).yiaddr = p.yiaddr
<1>1. FALSE \in BOOLEAN
  OBVIOUS
<1>2. [p EXCEPT !.fresh = FALSE] \in Packets
  BY <1>1 DEF Packets
<1>3. [p EXCEPT !.fresh = FALSE].xid = p.xid /\ [p EXCEPT !.fresh = FALSE].yiaddr = p.yiaddr
  BY DEF Packets
<1> QED
  BY <1>2, <1>3 DEF Stale

\* What Read does to a channel: the replies in it keep number and address.
LEMMA StaleChannel ==
    ASSUME NEW s \in Seq(Packets)
    PROVE  LET t == [i \in DOMAIN s |-> Stale(s[i])] IN
           /\ t \in Seq(Packets)
           /\ Len(t) = Len(s)
           /\ DOMAIN t = DOMAIN s
           /\ s = <<>> => t = <<>>
           /\ \A i \in DOMAIN s : t[i].xid = s[i].xid /\ t[i].yiaddr = s[i].yiaddr
<1> DEFINE t == [i \in DOMAIN s |-> Stale(s[i])]
<1>1. Len(s) \in Nat /\ DOMAIN s = 1 .. Len(s) /\ \A i \in 1 .. Len(s) : s[i] \in Packets
  BY LenProperties
<1>2. t \in [1 .. Len(s) -> Packets]
  BY <1>1, StalePacket
<1>3. t \in Seq(Packets) /\ DOMAIN t = 1 .. Len(s)
  BY <1>1, <1>2, SeqDef
<1>4. \A i \in DOMAIN s : t[i].xid = s[i].xid /\ t[i].yiaddr = s[i].yiaddr
  BY <1>1, StalePacket
<1> HIDE DEF t
<1>5. Len(t) = Len(s)
  BY <1>1, <1>3, LenProperties
<1>6. s = <<>> => t = <<>>
  BY <1>3, <1>5, EmptySeq
<1> QED
  BY <1>1, <1>3, <1>4, <1>5, <1>6 DEF t

-----------------------------------------------------------------------------
(* readLoop *)

LEMMA ReadInv == FloodInv /\ Read => FloodInv'
<1> SUFFICES ASSUME FloodInv, Read
             PROVE  FloodInv'
  OBVIOUS
<1> USE DEF FloodInv
<1>1. /\ reader.pkt = Nil /\ reader'.to = Nil /\ replies' \subseteq replies
      /\ reader' \in [pkt : Packets \cup {Nil}, to : Clients \cup {Nil}]
      /\ reader'.pkt # Nil =>
            \E r \in replies : /\ replies' = replies \ {r}
                              /\ reader'.pkt.xid = r.xid /\ reader'.pkt.yiaddr = r.yiaddr
  <2>1. CASE UNCHANGED <<replies, reader>>
    BY <2>1 DEF Read, Routed, FloodTypeOK
  <2>2. ASSUME NEW r \in replies, replies' = replies \ {r},
               reader' = [pkt |-> Parsed(r), to |-> Nil]
        PROVE  /\ reader'.to = Nil /\ replies' \subseteq replies
               /\ reader' \in [pkt : Packets \cup {Nil}, to : Clients \cup {Nil}]
               /\ replies' = replies \ {r}
               /\ reader'.pkt.xid = r.xid /\ reader'.pkt.yiaddr = r.yiaddr
    <3>1. TRUE \in BOOLEAN
      OBVIOUS
    <3>2. r \in Replies
      BY DEF FloodTypeOK
    <3>3. Parsed(r) \in Packets /\ Parsed(r).xid = r.xid /\ Parsed(r).yiaddr = r.yiaddr
      BY <3>1, <3>2 DEF Parsed, Replies, Packets
    <3> QED
      BY <2>2, <3>3 DEF Read
  <2> QED
    BY <2>1, <2>2 DEF Read
<1>2. ASSUME NEW c \in Clients
      PROVE  /\ chan'[c] \in Seq(Packets)
             /\ Len(chan'[c]) = Len(chan[c])
             /\ DOMAIN chan'[c] = DOMAIN chan[c]
             /\ chan[c] = <<>> => chan'[c] = <<>>
             /\ \A i \in DOMAIN chan[c] : /\ chan'[c][i].xid = chan[c][i].xid
                                          /\ chan'[c][i].yiaddr = chan[c][i].yiaddr
  <2>1. chan'[c] = [i \in DOMAIN chan[c] |-> Stale(chan[c][i])] /\ chan[c] \in Seq(Packets)
    BY DEF Read, FloodTypeOK
  <2> QED
    BY <2>1, StaleChannel
<1>3. \A c \in Clients : /\ offer'[c] \in Packets \cup {Nil}
                         /\ offer[c] \in Packets => offer'[c] \in Packets
  BY StalePacket DEF Read, FloodTypeOK, Stale
<1>4. FloodTypeOK'
  <2>1. chan' \in [Clients -> Seq(Packets)] /\ offer' \in [Clients -> Packets \cup {Nil}]
    BY <1>2, <1>3 DEF Read
  <2>2. \A c \in Clients : Len(chan'[c]) <= ChannelSize
    BY <1>2 DEF FloodTypeOK
  <2> QED
    BY <1>1, <2>1, <2>2 DEF FloodTypeOK, Read, summary
<1>5. Subscribed'
  BY DEF Subscribed, Read, Waiting, OwnXid
<1>6. Routed'
  <2>1. reader'.to = Nil
    BY <1>1
  <2>2. ASSUME NEW c \in Clients, NEW i \in DOMAIN chan'[c]
        PROVE  chan'[c][i].xid = xid'[c]
    BY <1>2, <2>2 DEF Routed, Read
  <2>3. \A m \in requests' : m.xid = xid'[m.from]
    BY DEF Routed, Read
  <2> QED
    BY <2>1, <2>2, <2>3 DEF Routed
<1>7. Written'
  BY <1>3 DEF Written, Read
<1>8. ASSUME NEW c \in Clients, OwnXid(c)'
      PROVE  Exchange(c)'
  <2>1. OwnXid(c) /\ Exchange(c) /\ pc'[c] = pc[c] /\ xid' = xid
    BY <1>8 DEF OwnXid, Read
  <2>2. /\ OwnRequests(c)' = OwnRequests(c)
        /\ OwnReplies(c)' \subseteq OwnReplies(c)
        /\ InHand(c)' => \E r \in OwnReplies(c) : /\ OwnReplies(c)' = OwnReplies(c) \ {r}
                                                 /\ reader'.pkt.yiaddr = r.yiaddr
        /\ ~InHand(c)
    BY <1>1 DEF OwnRequests, OwnReplies, InHand, Read
  <2>3. Quiet(c) => Quiet(c)'
    BY <1>2, <2>2 DEF Quiet
  <2>4. Alone(c) => Alone(c)'
    BY <1>2, <2>2 DEF Alone
  <2>5. AllSettled(c) => AllSettled(c)'
    <3> SUFFICES ASSUME AllSettled(c)
                 PROVE  AllSettled(c)'
      OBVIOUS
    <3>1. \A i \in DOMAIN chan[c]' : Settled(c, chan[c][i])'
      <4>1. acked' = acked
        BY DEF Read
      <4>2. \A i \in DOMAIN chan[c] : Settled(c, chan[c][i])
        BY DEF AllSettled
      <4> QED BY <1>2, <4>1, <4>2 DEF Settled
    <3>2. InHand(c)' => Settled(c, reader.pkt)'
      BY <2>2 DEF AllSettled, Settled, Read
    <3> QED
      BY <2>2, <3>1, <3>2 DEF AllSettled, Settled, Read
  <2> QED
    BY <2>1, <2>3, <2>4, <2>5 DEF Exchange
<1>9. ReportsAcked'
  BY DEF ReportsAcked, Read, OwnXid
<1> QED
  BY <1>4, <1>5, <1>6, <1>7, <1>8, <1>9

LEMMA LookupInv == FloodInv /\ Lookup => FloodInv'
<1> SUFFICES ASSUME FloodInv, Lookup
             PROVE  FloodInv'
  OBVIOUS
<1> USE DEF FloodInv
<1>1. reader.pkt \in Packets /\ reader.pkt.xid \in Xids
  BY DEF Lookup, FloodTypeOK, Packets
<1>2. \/ reader' = [pkt |-> Nil, to |-> Nil]
      \/ /\ waiters[reader.pkt.xid] \in Clients
         /\ reader'.pkt = reader.pkt /\ reader'.to = waiters[reader.pkt.xid]
         /\ reader' \in [pkt : Packets \cup {Nil}, to : Clients \cup {Nil}]
  BY <1>1 DEF Lookup, NoReader, FloodTypeOK
<1>3. FloodTypeOK'
  <2>1. reader' \in [pkt : Packets \cup {Nil}, to : Clients \cup {Nil}]
    BY <1>2
  <2> QED
    BY <2>1 DEF FloodTypeOK, Lookup, server, summary
<1>4. Subscribed'
  BY DEF Subscribed, Lookup, Waiting, OwnXid
<1>5. Routed'
  BY <1>1, <1>2 DEF Routed, Lookup, server, Subscribed
<1>6. Written'
  BY DEF Written, Lookup
<1>7. ASSUME NEW c \in Clients, OwnXid(c)'
      PROVE  Exchange(c)'
  <2>1. OwnXid(c) /\ Exchange(c) /\ pc'[c] = pc[c] /\ chan'[c] = chan[c]
    BY <1>7 DEF OwnXid, Lookup
  <2>2. /\ OwnRequests(c)' = OwnRequests(c)
        /\ OwnReplies(c)' = OwnReplies(c)
        /\ InHand(c)' => InHand(c) /\ reader'.pkt = reader.pkt
    BY <1>2 DEF OwnRequests, OwnReplies, InHand, Lookup, server
  <2>3. Quiet(c) => Quiet(c)'
    BY <2>1, <2>2 DEF Quiet
  <2>4. Alone(c) => Alone(c)'
    BY <2>1, <2>2 DEF Alone
  <2>5. AllSettled(c) => AllSettled(c)'
    BY <2>1, <2>2 DEF AllSettled, Settled, Lookup, server
  <2> QED
    BY <2>1, <2>3, <2>4, <2>5 DEF Exchange
<1>8. ReportsAcked'
  BY DEF ReportsAcked, Lookup, OwnXid, server
<1> QED
  BY <1>3, <1>4, <1>5, <1>6, <1>7, <1>8

LEMMA DeliverInv == FloodInv /\ Deliver => FloodInv'
<1> SUFFICES ASSUME FloodInv, Deliver
             PROVE  FloodInv'
  OBVIOUS
<1> USE DEF FloodInv
<1> DEFINE b == reader.to
           p == reader.pkt
<1>1. b \in Clients /\ p \in Packets /\ p # Nil /\ p.xid = xid[b]
  BY DEF Deliver, FloodTypeOK, Routed
<1>2. reader' = [pkt |-> Nil, to |-> Nil] /\ xid' = xid /\ pc' = pc /\ acked' = acked
  BY DEF Deliver, NoReader, server
<1>3. \A c \in Clients \ {b} : chan'[c] = chan[c]
  BY <1>1 DEF Deliver, FloodTypeOK
<1>4. /\ chan[b] \in Seq(Packets)
      /\ \/ chan'[b] = chan[b]
         \/ chan'[b] = Append(chan[b], p) /\ Len(chan[b]) < ChannelSize
  BY <1>1 DEF Deliver, FloodTypeOK
<1> HIDE DEF b, p
<1>5. /\ chan'[b] \in Seq(Packets)
      /\ Len(chan'[b]) <= ChannelSize
      /\ Len(chan'[b]) <= Len(chan[b]) + 1
      /\ \A i \in DOMAIN chan'[b] : chan'[b][i] = p \/ (i \in DOMAIN chan[b] /\ chan'[b][i] = chan[b][i])
  <2>1. CASE chan'[b] = chan[b]
    <3>1. Len(chan[b]) \in Nat /\ Len(chan[b]) <= ChannelSize
      BY <1>1, <1>4, LenProperties DEF FloodTypeOK
    <3> QED
      BY <2>1, <3>1, <1>4
  <2>2. CASE chan'[b] = Append(chan[b], p) /\ Len(chan[b]) < ChannelSize
    <3>1. /\ chan'[b] \in Seq(Packets)
          /\ Len(chan'[b]) = Len(chan[b]) + 1
          /\ \A i \in 1 .. Len(chan[b]) : chan'[b][i] = chan[b][i]
          /\ chan'[b][Len(chan[b]) + 1] = p
      BY <1>1, <1>4, <2>2, AppendProperties
    <3>2. /\ Len(chan[b]) \in Nat /\ DOMAIN chan[b] = 1 .. Len(chan[b])
          /\ DOMAIN chan'[b] = 1 .. Len(chan'[b])
      BY <1>4, <3>1, LenProperties
    <3> QED
      BY <2>2, <3>1, <3>2, FloodAssumption
  <2> QED
    BY <1>4, <2>1, <2>2
<1>6. FloodTypeOK'
  <2>1. chan' \in [Clients -> Seq(Packets)]
    BY <1>1, <1>3, <1>5 DEF Deliver, FloodTypeOK
  <2>2. \A c \in Clients : Len(chan'[c]) <= ChannelSize
    BY <1>3, <1>5 DEF FloodTypeOK
  <2> QED
    BY <1>2, <2>1, <2>2 DEF FloodTypeOK, Deliver, server, summary
<1>7. Subscribed'
  BY DEF Subscribed, Deliver, Waiting, OwnXid
<1>8. Routed'
  <2>1. \A c \in Clients : \A i \in DOMAIN chan'[c] : chan'[c][i].xid = xid[c]
    BY <1>1, <1>3, <1>5 DEF Routed
  <2> QED
    BY <1>2, <2>1 DEF Routed, Deliver, server
<1>9. Written'
  BY DEF Written, Deliver
<1>10. ASSUME NEW c \in Clients, OwnXid(c)'
       PROVE  Exchange(c)'
  <2>1. /\ OwnXid(c) /\ Exchange(c) /\ ~InHand(c)'
        /\ OwnRequests(c)' = OwnRequests(c) /\ OwnReplies(c)' = OwnReplies(c)
    BY <1>2, <1>10 DEF OwnXid, InHand, OwnRequests, OwnReplies, Deliver, server
  <2>2. CASE c # b
    <3>1. chan'[c] = chan[c]
      BY <1>3, <2>2
    <3> QED
      BY <1>2, <2>1, <3>1 DEF Exchange, Quiet, Alone, AllSettled, Settled
  <2>3. CASE c = b
    <3>1. InHand(c)
      BY <1>1, <2>3 DEF InHand, p
    <3>2. Alone(c) => Alone(c)'
      <4> SUFFICES ASSUME Alone(c)
                   PROVE  Alone(c)'
        OBVIOUS
      <4>1. chan[c] = <<>>
        BY <3>1 DEF Alone
      <4>2. Len(chan'[c]) <= 1
        BY <1>5, <2>3, <4>1, EmptySeq
      <4>3. OwnRequests(c) = {} /\ OwnReplies(c) = {}
        BY <3>1 DEF Alone
      <4> QED
        BY <2>1, <4>2, <4>3 DEF Alone
    <3>3. AllSettled(c) => AllSettled(c)'
      BY <1>2, <1>5, <2>1, <2>3, <3>1 DEF AllSettled, Settled, p
    <3> QED
      BY <1>2, <2>1, <3>1, <3>2, <3>3 DEF Exchange, Quiet
  <2> QED
    BY <2>2, <2>3
<1>11. ReportsAcked'
  BY DEF ReportsAcked, Deliver, OwnXid, server
<1> QED
  BY <1>6, <1>7, <1>8, <1>9, <1>10, <1>11

-----------------------------------------------------------------------------
(* dora *)

\* A step in which nothing of an exchange changes.
LEMMA SameExchange ==
    ASSUME NEW c \in Clients, Exchange(c), xid' = xid, reader' = reader,
           pc'[c] = pc[c], chan'[c] = chan[c],
           OwnRequests(c)' = OwnRequests(c), OwnReplies(c)' = OwnReplies(c),
           acked \subseteq acked'
    PROVE  Exchange(c)'
<1>1. InHand(c)' <=> InHand(c)
  BY DEF InHand
<1>2. Quiet(c) => Quiet(c)'
  BY <1>1 DEF Quiet
<1>3. Alone(c) => Alone(c)'
  BY <1>1 DEF Alone
<1>4. AllSettled(c) => AllSettled(c)'
  BY <1>1 DEF AllSettled, Settled
<1> QED
  BY <1>2, <1>3, <1>4 DEF Exchange

\* A client moves on, and no message does.
LEMMA MoveExchange ==
    ASSUME FloodInv, NEW b \in Clients, NEW s,
           pc' = [pc EXCEPT ![b] = s],
           s \in {"discover", "leave", "report", "done"},
           s = "discover" => pc[b] = "start",
           UNCHANGED <<xid, chan, reader, server>>,
           NEW c \in Clients, OwnXid(c)'
    PROVE  Exchange(c)'
<1>1. OwnXid(c) /\ Exchange(c)
  BY DEF FloodInv, OwnXid
<1>2. OwnRequests(c)' = OwnRequests(c) /\ OwnReplies(c)' = OwnReplies(c)
  BY DEF OwnRequests, OwnReplies, server
<1>3. CASE c # b
  <2>1. pc'[c] = pc[c]
    BY <1>3 DEF FloodInv, FloodTypeOK
  <2> QED
    BY <1>1, <1>2, <2>1, SameExchange DEF server
<1>4. CASE c = b
  <2>1. pc'[c] = s
    BY <1>4 DEF FloodInv, FloodTypeOK
  <2>2. Quiet(c) => Quiet(c)'
    BY <1>2 DEF Quiet, InHand
  <2> QED
    BY <1>1, <1>4, <2>1, <2>2 DEF Exchange
<1> QED
  BY <1>3, <1>4

LEMMA SubscribeInv == ASSUME FloodInv, NEW b \in Clients, subscribe(b) PROVE FloodInv'
<1> USE DEF FloodInv
<1>1. pc' = [pc EXCEPT ![b] = "discover"] /\ pc[b] = "start"
  BY DEF subscribe, Goto
<1>2. waiters' = [waiters EXCEPT ![xid[b]] = b] /\ xid[b] \in Xids /\ xid' = xid
  BY DEF subscribe, FloodTypeOK
<1>3. FloodTypeOK'
  <2>1. pc' \in [Clients -> {"start", "discover", "offer", "request", "ack",
                             "leave", "report", "done"}]
    BY <1>1 DEF FloodTypeOK
  <2>2. Done' = Done
    BY <1>1, SameDone
  <2>3. waiters' \in [Xids -> Clients \cup {Nil}]
    BY <1>2 DEF FloodTypeOK
  <2> QED
    BY <2>1, <2>2, <2>3 DEF FloodTypeOK, subscribe, server, summary, Done
<1>4. Subscribed'
  BY <1>1, <1>2 DEF Subscribed, Waiting, OwnXid, FloodTypeOK
<1>5. Routed'
  BY DEF Routed, subscribe, server
<1>6. Written'
  BY <1>1 DEF Written, FloodTypeOK, subscribe
<1>7. \A c \in Clients : OwnXid(c)' => Exchange(c)'
  BY <1>1, MoveExchange DEF subscribe
<1>8. ReportsAcked'
  BY DEF ReportsAcked, subscribe, OwnXid, server
<1> QED
  BY <1>3, <1>4, <1>5, <1>6, <1>7, <1>8

LEMMA UnsubscribeInv == ASSUME FloodInv, NEW b \in Clients, unsubscribe(b) PROVE FloodInv'
<1> USE DEF FloodInv
<1>1. pc' = [pc EXCEPT ![b] = "report"] /\ pc[b] = "leave"
  BY DEF unsubscribe, Goto
<1>2. waiters' = [waiters EXCEPT ![xid[b]] = Nil] /\ xid[b] \in Xids /\ xid' = xid
  BY DEF unsubscribe, FloodTypeOK
<1>3. FloodTypeOK'
  <2>1. pc' \in [Clients -> {"start", "discover", "offer", "request", "ack",
                             "leave", "report", "done"}]
    BY <1>1 DEF FloodTypeOK
  <2>2. Done' = Done
    BY <1>1, SameDone
  <2>3. waiters' \in [Xids -> Clients \cup {Nil}]
    BY <1>2 DEF FloodTypeOK
  <2> QED
    BY <2>1, <2>2, <2>3 DEF FloodTypeOK, unsubscribe, server, summary, Done
<1>4. Subscribed'
  BY <1>1, <1>2 DEF Subscribed, Waiting, OwnXid, FloodTypeOK
<1>5. Routed'
  BY DEF Routed, unsubscribe, server
<1>6. Written'
  BY <1>1 DEF Written, FloodTypeOK, unsubscribe
<1>7. \A c \in Clients : OwnXid(c)' => Exchange(c)'
  BY <1>1, MoveExchange DEF unsubscribe
<1>8. ReportsAcked'
  BY DEF ReportsAcked, unsubscribe, OwnXid, server
<1> QED
  BY <1>3, <1>4, <1>5, <1>6, <1>7, <1>8

LEMMA TimeoutInv == ASSUME FloodInv, NEW b \in Clients, Timeout(b) PROVE FloodInv'
<1> USE DEF FloodInv
<1>1. pc' = [pc EXCEPT ![b] = "leave"] /\ pc[b] \in {"offer", "ack"}
  BY DEF Timeout, Return, Goto
<1>2. answer' = [answer EXCEPT ![b] = [ip |-> Zero, err |-> "timeout"]]
  BY DEF Timeout, Return
<1>3. [ip |-> Zero, err |-> "timeout"] \in Answers
  BY DEF Answers, IPs
<1>4. FloodTypeOK'
  <2>1. pc' \in [Clients -> {"start", "discover", "offer", "request", "ack",
                             "leave", "report", "done"}]
    BY <1>1 DEF FloodTypeOK
  <2>2. Done' = Done
    BY <1>1, SameDone
  <2>3. answer' \in [Clients -> Answers \cup {Nil}]
    BY <1>2, <1>3 DEF FloodTypeOK
  <2> QED
    BY <2>1, <2>2, <2>3 DEF FloodTypeOK, Timeout, server, summary, Done
<1>5. Subscribed'
  BY <1>1 DEF Subscribed, Waiting, OwnXid, FloodTypeOK, Timeout
<1>6. Routed'
  BY DEF Routed, Timeout, server
<1>7. Written'
  BY <1>1, <1>2, <1>3 DEF Written, FloodTypeOK, Timeout
<1>8. \A c \in Clients : OwnXid(c)' => Exchange(c)'
  BY <1>1, MoveExchange DEF Timeout
<1>9. ReportsAcked'
  BY <1>2 DEF ReportsAcked, Timeout, OwnXid, server, FloodTypeOK
<1> QED
  BY <1>4, <1>5, <1>6, <1>7, <1>8, <1>9

\* A client sends m, the only message with its number if nobody shares it.
LEMMA SendExchange ==
    ASSUME FloodInv, NEW b \in Clients, NEW s, NEW m,
           pc' = [pc EXCEPT ![b] = s],
           pc[b] \in {"discover", "request"},
           s = "offer" \/ (s = "ack" /\ m.type = "request"),
           requests' = requests \cup {m}, m.xid = xid[b],
           UNCHANGED <<xid, chan, reader, replies, acked>>,
           NEW c \in Clients, OwnXid(c)'
    PROVE  Exchange(c)'
<1>1. OwnXid(c) /\ Exchange(c)
  BY DEF FloodInv, OwnXid
<1>2. OwnReplies(c)' = OwnReplies(c)
  BY DEF OwnReplies
<1>3. CASE c # b
  <2>1. pc'[c] = pc[c]
    BY <1>3 DEF FloodInv, FloodTypeOK
  <2>2. xid[b] # xid[c]
    BY <1>1, <1>3 DEF OwnXid
  <2>3. OwnRequests(c)' = OwnRequests(c)
    BY <2>2 DEF OwnRequests
  <2> QED
    BY <1>1, <1>2, <2>1, <2>3, SameExchange
<1>4. CASE c = b
  <2>1. pc'[c] = s
    BY <1>4 DEF FloodInv, FloodTypeOK
  <2>2. Quiet(c)
    BY <1>1, <1>4 DEF Exchange
  <2>3. OwnRequests(c)' = {m}
    BY <1>4, <2>2 DEF Quiet, OwnRequests
  <2>4. OwnReplies(c)' = {} /\ ~InHand(c)' /\ chan'[c] = <<>>
    BY <1>2, <2>2 DEF Quiet, InHand
  <2>5. Len(chan'[c]) <= 1 /\ DOMAIN chan'[c] = {}
    BY <2>4, EmptySeq
  <2>6. Alone(c)'
    BY <2>3, <2>4, <2>5 DEF Alone
  <2>7. s = "ack" => AllSettled(c)'
    BY <2>3, <2>4, <2>5 DEF AllSettled
  <2> QED
    BY <2>1, <2>6, <2>7 DEF Exchange
<1> QED
  BY <1>3, <1>4

LEMMA SendDiscoverInv == ASSUME FloodInv, NEW b \in Clients, SendDiscover(b) PROVE FloodInv'
<1> USE DEF FloodInv
<1> DEFINE m == [type |-> "discover", from |-> b, xid |-> xid[b], ip |-> Zero, server |-> "server"]
<1>1. pc' = [pc EXCEPT ![b] = "offer"] /\ pc[b] = "discover"
  BY DEF SendDiscover, Goto
<1>2. requests' = requests \cup {m}
  BY DEF SendDiscover
<1>3. /\ m \in [type : {"discover", "request"}, from : Clients, xid : Xids,
                ip : IPs, server : {"server", "other"}]
      /\ m.xid = xid[m.from] /\ m.xid = xid[b]
  BY DEF FloodTypeOK, IPs
<1> HIDE DEF m
<1>4. FloodTypeOK'
  <2>1. pc' \in [Clients -> {"start", "discover", "offer", "request", "ack",
                             "leave", "report", "done"}]
    BY <1>1 DEF FloodTypeOK
  <2>2. Done' = Done
    BY <1>1, SameDone
  <2> QED
    BY <1>2, <1>3, <2>1, <2>2 DEF FloodTypeOK, SendDiscover, summary, Done
<1>5. Subscribed'
  BY <1>1 DEF Subscribed, Waiting, OwnXid, FloodTypeOK, SendDiscover
<1>6. Routed'
  BY <1>2, <1>3 DEF Routed, SendDiscover
<1>7. Written'
  BY <1>1 DEF Written, FloodTypeOK, SendDiscover
<1>8. \A c \in Clients : OwnXid(c)' => Exchange(c)'
  BY <1>1, <1>2, <1>3, SendExchange DEF SendDiscover
<1>9. ReportsAcked'
  BY DEF ReportsAcked, SendDiscover, OwnXid
<1> QED
  BY <1>4, <1>5, <1>6, <1>7, <1>8, <1>9

LEMMA SendRequestInv == ASSUME FloodInv, NEW b \in Clients, SendRequest(b) PROVE FloodInv'
<1> USE DEF FloodInv
<1> PICK s \in ServerID(offer[b]) :
       requests' = requests \cup {[type |-> "request", from |-> b, xid |-> xid[b],
                                   ip |-> offer[b].yiaddr, server |-> s]}
  BY DEF SendRequest
<1> DEFINE m == [type |-> "request", from |-> b, xid |-> xid[b],
                 ip |-> offer[b].yiaddr, server |-> s]
<1>1. pc' = [pc EXCEPT ![b] = "ack"] /\ pc[b] = "request"
  BY DEF SendRequest, Goto
<1>2. requests' = requests \cup {m}
  OBVIOUS
<1>3. /\ m \in [type : {"discover", "request"}, from : Clients, xid : Xids,
                ip : IPs, server : {"server", "other"}]
      /\ m.xid = xid[m.from] /\ m.xid = xid[b] /\ m.type = "request"
  <2>1. offer[b].yiaddr \in IPs
    BY <1>1 DEF Written, Packets
  <2>2. s \in {"server", "other"}
    BY DEF ServerID
  <2> QED
    BY <2>1, <2>2 DEF FloodTypeOK
<1> HIDE DEF m
<1>4. FloodTypeOK'
  <2>1. pc' \in [Clients -> {"start", "discover", "offer", "request", "ack",
                             "leave", "report", "done"}]
    BY <1>1 DEF FloodTypeOK
  <2>2. Done' = Done
    BY <1>1, SameDone
  <2> QED
    BY <1>2, <1>3, <2>1, <2>2 DEF FloodTypeOK, SendRequest, summary, Done
<1>5. Subscribed'
  BY <1>1 DEF Subscribed, Waiting, OwnXid, FloodTypeOK, SendRequest
<1>6. Routed'
  BY <1>2, <1>3 DEF Routed, SendRequest
<1>7. Written'
  BY <1>1 DEF Written, FloodTypeOK, SendRequest
<1>8. \A c \in Clients : OwnXid(c)' => Exchange(c)'
  BY <1>1, <1>2, <1>3, SendExchange DEF SendRequest
<1>9. ReportsAcked'
  BY DEF ReportsAcked, SendRequest, OwnXid
<1> QED
  BY <1>4, <1>5, <1>6, <1>7, <1>8, <1>9

LEMMA RecvInv == ASSUME FloodInv, NEW b \in Clients, recvFromChan(b) PROVE FloodInv'
<1> USE DEF FloodInv
<1> DEFINE p == Head(chan[b])
<1>1. /\ p \in Packets /\ p.yiaddr \in IPs
      /\ p = chan[b][1] /\ 1 \in DOMAIN chan[b]
      /\ chan'[b] \in Seq(Packets)
      /\ Len(chan'[b]) = Len(chan[b]) - 1
      /\ DOMAIN chan'[b] = 1 .. Len(chan[b]) - 1
      /\ \A i \in DOMAIN chan'[b] : i + 1 \in DOMAIN chan[b] /\ chan'[b][i] = chan[b][i + 1]
      /\ Len(chan[b]) \in Nat
  <2>1. chan[b] \in Seq(Packets) /\ chan[b] # <<>> /\ chan'[b] = Tail(chan[b])
    BY DEF recvFromChan, FloodTypeOK
  <2>2. /\ p \in Packets /\ chan'[b] \in Seq(Packets)
        /\ Len(chan'[b]) = Len(chan[b]) - 1
        /\ \A i \in 1 .. Len(chan'[b]) : chan'[b][i] = chan[b][i + 1]
        /\ p = chan[b][1]
    BY <2>1, HeadTailProperties
  <2>3. /\ Len(chan[b]) \in Nat \ {0} /\ DOMAIN chan[b] = 1 .. Len(chan[b])
        /\ DOMAIN chan'[b] = 1 .. Len(chan'[b])
    BY <2>1, <2>2, LenProperties, EmptySeq
  <2> QED
    BY <2>2, <2>3 DEF Packets
<1>2. \A c \in Clients \ {b} : chan'[c] = chan[c]
  BY DEF recvFromChan, FloodTypeOK
<1>3. /\ pc[b] \in {"offer", "ack"} /\ p.xid = xid[b]
      /\ UNCHANGED <<xid, waiters, reader, server, summary>>
  BY <1>1 DEF recvFromChan, Routed
<1> DEFINE got == [ip |-> p.yiaddr, err |-> "none"]
           nak == [ip |-> Zero, err |-> "got NAK"]
<1>4. \/ /\ pc[b] = "offer" /\ pc' = [pc EXCEPT ![b] = "request"]
         /\ offer' = [offer EXCEPT ![b] = p] /\ answer' = answer
      \/ /\ pc[b] = "ack" /\ pc' = [pc EXCEPT ![b] = "leave"]
         /\ answer' = [answer EXCEPT ![b] = got]
         /\ offer' = offer
      \/ /\ pc' = [pc EXCEPT ![b] = "leave"]
         /\ answer' = [answer EXCEPT ![b] = nak]
         /\ offer' = offer
      \/ UNCHANGED <<pc, offer, answer>>
  BY DEF recvFromChan, Return, Goto
<1>5. got \in Answers /\ nak \in Answers /\ got.ip = p.yiaddr /\ nak.ip = Zero
  BY <1>1 DEF Answers, IPs
<1> HIDE DEF p, got, nak
<1>6. FloodTypeOK'
  <2>1. pc' \in [Clients -> {"start", "discover", "offer", "request", "ack",
                             "leave", "report", "done"}]
    BY <1>4 DEF FloodTypeOK
  <2>2. Done' = Done
    BY <1>3, <1>4, SameDone DEF Done
  <2>3. answer' \in [Clients -> Answers \cup {Nil}]
    BY <1>4, <1>5 DEF FloodTypeOK
  <2>4. offer' \in [Clients -> Packets \cup {Nil}]
    BY <1>1, <1>4 DEF FloodTypeOK
  <2>5. chan' \in [Clients -> Seq(Packets)]
    BY <1>1, <1>2 DEF recvFromChan, FloodTypeOK
  <2>6. \A c \in Clients : Len(chan'[c]) <= ChannelSize
    <3>1. Len(chan[b]) <= ChannelSize /\ ChannelSize \in Nat
      BY FloodAssumption DEF FloodTypeOK
    <3>2. Len(chan'[b]) <= ChannelSize
      BY <1>1, <3>1
    <3> QED
      BY <1>2, <3>2 DEF FloodTypeOK
  <2> QED
    BY <1>3, <2>1, <2>2, <2>3, <2>4, <2>5, <2>6 DEF FloodTypeOK, server, summary, Done
<1>7. Subscribed'
  <2>1. \A c \in Clients : Waiting(c)' <=> Waiting(c)
    BY <1>3, <1>4 DEF Waiting, FloodTypeOK
  <2> QED
    BY <1>3, <2>1 DEF Subscribed, OwnXid, FloodTypeOK
<1>8. Routed'
  <2>1. \A c \in Clients : \A i \in DOMAIN chan'[c] : chan'[c][i].xid = xid[c]
    BY <1>1, <1>2 DEF Routed
  <2> QED
    BY <1>3, <2>1 DEF Routed, server
<1>9. Written'
  <2> SUFFICES ASSUME NEW c \in Clients
               PROVE  /\ pc'[c] = "request" => offer'[c] \in Packets
                      /\ pc'[c] \in {"leave", "report", "done"} => answer'[c] \in Answers
    BY DEF Written
  <2>1. CASE c # b
    <3>1. pc'[c] = pc[c] /\ offer'[c] = offer[c] /\ answer'[c] = answer[c]
      BY <1>4, <2>1 DEF FloodTypeOK
    <3> QED
      BY <3>1 DEF Written
  <2>2. CASE c = b
    BY <1>1, <1>3, <1>4, <1>5, <2>2 DEF FloodTypeOK
  <2> QED
    BY <2>1, <2>2
<1>10. ASSUME NEW c \in Clients, OwnXid(c)'
       PROVE  Exchange(c)'
  <2>1. /\ OwnXid(c) /\ Exchange(c)
        /\ OwnRequests(c)' = OwnRequests(c) /\ OwnReplies(c)' = OwnReplies(c)
        /\ InHand(c)' = InHand(c)
    BY <1>3, <1>10 DEF OwnXid, OwnRequests, OwnReplies, InHand, server
  <2>2. CASE c # b
    <3>1. pc'[c] = pc[c] /\ chan'[c] = chan[c]
      BY <1>2, <1>4, <2>2 DEF FloodTypeOK
    <3> QED
      BY <1>3, <2>1, <3>1, SameExchange DEF server
  <2>3. CASE c = b
    <3>1. AllSettled(c) => AllSettled(c)'
      BY <1>1, <1>3, <2>1, <2>3 DEF AllSettled, Settled, server
    <3>2. Alone(c) => Quiet(c)'
      <4> SUFFICES ASSUME Alone(c)
                   PROVE  Quiet(c)'
        OBVIOUS
      <4>1. chan[c] # <<>>
        BY <1>1, <2>3, EmptySeq
      <4>2. chan'[c] = <<>>
        BY <1>1, <2>3, EmptySeq DEF Alone
      <4> QED
        BY <2>1, <4>1, <4>2 DEF Alone, Quiet
    <3>3. Quiet(c)' => Alone(c)'
      BY EmptySeq DEF Quiet, Alone
    <3> QED
      BY <1>3, <1>4, <2>1, <2>3, <3>1, <3>2, <3>3 DEF Exchange, FloodTypeOK
  <2> QED
    BY <2>2, <2>3
<1>11. ReportsAcked'
  <2> SUFFICES ASSUME NEW c \in Clients, OwnXid(c)', answer'[c] # Nil,
                      answer'[c].err = "none", answer'[c].ip # Zero
               PROVE  answer'[c].ip = c /\ c \in acked'
    BY DEF ReportsAcked
  <2>1. OwnXid(c) /\ acked' = acked
    BY <1>3 DEF OwnXid, server
  <2>2. CASE answer'[c] = answer[c]
    BY <2>1, <2>2 DEF ReportsAcked
  <2>3. CASE answer'[c] # answer[c]
    <3>1. c = b /\ pc[b] = "ack" /\ answer'[c].ip = p.yiaddr
      BY <1>4, <1>5, <2>3 DEF FloodTypeOK
    <3>2. Settled(c, p)
      BY <1>1, <2>1, <3>1 DEF Exchange, AllSettled
    <3> QED
      BY <2>1, <3>1, <3>2 DEF Settled
  <2> QED
    BY <2>2, <2>3
<1> QED
  BY <1>6, <1>7, <1>8, <1>9, <1>10, <1>11

-----------------------------------------------------------------------------
(* runFlood *)

LEMMA ReportInv == ASSUME FloodInv, NEW b \in Clients, Report(b) PROVE FloodInv'
<1> USE DEF FloodInv
<1>1. pc' = [pc EXCEPT ![b] = "done"] /\ pc[b] = "report"
  BY DEF Report, Goto
<1>2. /\ results' \in Seq(Answers) /\ Len(results') = Len(results) + 1
      /\ Len(results) \in Nat
  <2>1. answer[b] \in Answers
    BY <1>1 DEF Written
  <2> QED
    BY <2>1, AppendProperties, LenProperties DEF Report, FloodTypeOK
<1>3. FloodTypeOK'
  <2>1. pc' \in [Clients -> {"start", "discover", "offer", "request", "ack",
                             "leave", "report", "done"}]
    BY <1>1 DEF FloodTypeOK
  <2>2. Cardinality(Done') = Cardinality(Done) + 1
    BY <1>1, OneMoreDone
  <2>3. Len(results') + counts'.ok + counts'.fail = Cardinality(Done')
    BY <1>2, <2>2 DEF FloodTypeOK, Report, Done
  <2> QED
    BY <1>2, <2>1, <2>3 DEF FloodTypeOK, Report, server, Done
<1>4. Subscribed'
  BY <1>1 DEF Subscribed, Waiting, OwnXid, FloodTypeOK, Report
<1>5. Routed'
  BY DEF Routed, Report, server
<1>6. Written'
  BY <1>1 DEF Written, FloodTypeOK, Report
<1>7. \A c \in Clients : OwnXid(c)' => Exchange(c)'
  BY <1>1, MoveExchange DEF Report
<1>8. ReportsAcked'
  BY DEF ReportsAcked, Report, OwnXid, server
<1> QED
  BY <1>3, <1>4, <1>5, <1>6, <1>7, <1>8

\* The invariant says nothing of the summary but its types.
LEMMA SummaryInv ==
    ASSUME FloodInv, UNCHANGED <<xid, exchange, server>>, FloodTypeOK'
    PROVE  FloodInv'
<1> USE DEF FloodInv, exchange, server
<1>1. Subscribed'
  BY DEF Subscribed, Waiting, OwnXid
<1>2. Routed' /\ Written'
  BY DEF Routed, Written
<1>3. ASSUME NEW c \in Clients, OwnXid(c)'
      PROVE  Exchange(c)'
  BY <1>3, SameExchange DEF OwnXid, OwnRequests, OwnReplies
<1>4. ReportsAcked'
  BY DEF ReportsAcked, OwnXid
<1> QED
  BY <1>1, <1>2, <1>3, <1>4

LEMMA CollectInv == FloodInv /\ Collect => FloodInv'
<1> SUFFICES ASSUME FloodInv, Collect
             PROVE  FloodInv'
  OBVIOUS
<1> USE DEF FloodInv
<1>1. /\ results' \in Seq(Answers) /\ Len(results') = Len(results) - 1
      /\ Len(results) \in Nat /\ Len(results') \in Nat
  BY HeadTailProperties, LenProperties DEF Collect, FloodTypeOK
<1>2. /\ counts \in [ok : Nat, fail : Nat] /\ counts' \in [ok : Nat, fail : Nat]
      /\ counts'.ok + counts'.fail = counts.ok + counts.fail + 1
  <2>1. counts \in [ok : Nat, fail : Nat]
    BY DEF FloodTypeOK
  <2>2. \/ counts' = [counts EXCEPT !.fail = @ + 1]
        \/ counts' = [counts EXCEPT !.ok = @ + 1]
    BY DEF Collect
  <2> QED
    BY <2>1, <2>2
<1>3. FloodTypeOK'
  <2>1. Len(results') + counts'.ok + counts'.fail = Len(results) + counts.ok + counts.fail
    <3>1. /\ counts.ok \in Nat /\ counts.fail \in Nat
          /\ counts'.ok \in Nat /\ counts'.fail \in Nat
      BY <1>2
    <3> DEFINE n == Len(results)
               m == Len(results')
    <3>2. n \in Nat /\ m \in Nat /\ m = n - 1
      BY <1>1
    <3>3. counts'.ok + counts'.fail = counts.ok + counts.fail + 1
      BY <1>2
    <3> HIDE DEF n, m
    <3>4. m + counts'.ok + counts'.fail = n + counts.ok + counts.fail
      BY <3>1, <3>2, <3>3
    <3> QED
      BY <3>4 DEF n, m
  <2> QED
    BY <1>1, <1>2, <2>1 DEF FloodTypeOK, Collect, exchange, server
<1> QED
  BY <1>3, SummaryInv DEF Collect

LEMMA FinishInv == FloodInv /\ Finish => FloodInv'
<1> SUFFICES ASSUME FloodInv, Finish
             PROVE  FloodInv'
  OBVIOUS
<1>1. FloodTypeOK'
  BY DEF FloodInv, FloodTypeOK, Finish, exchange, server
<1> QED
  BY <1>1, SummaryInv DEF Finish

-----------------------------------------------------------------------------
(* The server *)

LEMMA ServeInv == ASSUME FloodInv, NEW m \in requests, Serve(m) PROVE FloodInv'
<1> USE DEF FloodInv
<1> DEFINE r(t) == [xid |-> m.xid, type |-> t, yiaddr |-> IF t = "nak" THEN Zero ELSE m.from]
<1>1. m.from \in Clients /\ m.xid \in Xids /\ m.xid = xid[m.from]
  BY DEF FloodTypeOK, Routed
<1>2. requests' = requests \ {m} /\ UNCHANGED <<xid, exchange, summary>>
  BY DEF Serve
<1>3. PICK t \in {"offer", "ack", "nak", "none"} :
         \/ /\ t = "none" /\ UNCHANGED <<replies, acked>>
         \/ /\ t = "offer" /\ m.type = "discover" /\ acked' = acked
            /\ replies' = replies \cup {r(t)}
         \/ /\ t = "ack" /\ acked' = acked \cup {m.from}
            /\ replies' = replies \cup {r(t)}
         \/ /\ t = "nak" /\ acked' = acked
            /\ replies' = replies \cup {r(t)}
  <2>1. CASE m.type = "discover" /\ Reply(m, "offer") /\ UNCHANGED acked
    BY <2>1 DEF Reply
  <2>2. CASE Reply(m, "ack") /\ acked' = acked \cup {m.from}
    BY <2>2 DEF Reply
  <2>3. CASE Reply(m, "nak") /\ UNCHANGED acked
    BY <2>3 DEF Reply
  <2>4. CASE UNCHANGED <<replies, acked>>
    BY <2>4
  <2> QED
    BY <2>1, <2>2, <2>3, <2>4 DEF Serve
<1>4. t # "none" => /\ r(t) \in Replies /\ r(t).xid = m.xid
                    /\ r(t).yiaddr = IF t = "nak" THEN Zero ELSE m.from
  BY <1>1 DEF Replies, Types, IPs
<1> HIDE DEF r
<1>5. acked \subseteq acked' /\ acked' \subseteq Clients
  BY <1>1, <1>3 DEF FloodTypeOK
<1>6. FloodTypeOK'
  <2>1. replies' \subseteq Replies
    BY <1>3, <1>4 DEF FloodTypeOK
  <2> QED
    BY <1>2, <1>5, <2>1 DEF FloodTypeOK, exchange, summary
<1>7. Subscribed'
  BY <1>2 DEF Subscribed, Waiting, OwnXid, exchange
<1>8. Routed'
  BY <1>2 DEF Routed, exchange
<1>9. Written'
  BY <1>2 DEF Written, exchange
<1>10. ASSUME NEW c \in Clients, OwnXid(c)'
       PROVE  Exchange(c)'
  <2>1. OwnXid(c) /\ Exchange(c) /\ (InHand(c)' <=> InHand(c))
    BY <1>2, <1>10 DEF OwnXid, InHand, exchange
  <2>2. CASE m.xid # xid[c]
    <3>1. OwnRequests(c)' = OwnRequests(c) /\ OwnReplies(c)' = OwnReplies(c)
      BY <1>2, <1>3, <1>4, <2>2 DEF OwnRequests, OwnReplies
    <3> QED
      BY <1>2, <1>5, <2>1, <3>1, SameExchange DEF exchange
  <2>3. CASE m.xid = xid[c]
    <3>1. m.from = c /\ m \in OwnRequests(c)
      BY <1>1, <2>1, <2>3 DEF OwnXid, OwnRequests
    <3>2. /\ OwnRequests(c)' = OwnRequests(c) \ {m}
          /\ OwnReplies(c)' \subseteq OwnReplies(c) \cup {r(t)}
          /\ t = "none" => OwnReplies(c)' = OwnReplies(c)
      BY <1>2, <1>3 DEF OwnRequests, OwnReplies
    <3>3. Alone(c) => Alone(c)'
      BY <1>2, <2>1, <3>1, <3>2 DEF Alone, exchange
    <3>4. AllSettled(c) => AllSettled(c)'
      <4> SUFFICES ASSUME AllSettled(c)
                   PROVE  AllSettled(c)'
        OBVIOUS
      <4>1. m.type = "request"
        BY <3>1 DEF AllSettled
      <4>2. t # "none" => Settled(c, r(t))'
        BY <1>3, <1>4, <3>1, <4>1 DEF Settled
      <4>3. \A q : Settled(c, q) => Settled(c, q)'
        BY <1>5 DEF Settled
      <4>4. \A q \in OwnReplies(c)' : Settled(c, q)'
        BY <3>2, <4>2, <4>3 DEF AllSettled
      <4> QED
        BY <1>2, <2>1, <3>2, <4>3, <4>4 DEF AllSettled, exchange
    <3> QED
      BY <1>2, <2>1, <3>1, <3>3, <3>4 DEF Exchange, Quiet, exchange
  <2> QED
    BY <2>2, <2>3
<1>11. ReportsAcked'
  BY <1>2, <1>5 DEF ReportsAcked, OwnXid, exchange
<1> QED
  BY <1>6, <1>7, <1>8, <1>9, <1>10, <1>11

-----------------------------------------------------------------------------
(* The invariant *)

LEMMA FloodInitInv == Init => FloodInv
<1> SUFFICES ASSUME Init
             PROVE  FloodInv
  OBVIOUS
<1>1. FloodTypeOK
  <2>1. {c \in Clients : pc[c] = "done"} = {}
    BY DEF Init
  <2>2. \A c \in Clients : chan[c] \in Seq(Packets) /\ Len(chan[c]) = 0
    BY EmptySeq DEF Init
  <2>3. chan \in [Clients -> Seq(Packets)] /\ \A c \in Clients : Len(chan[c]) <= ChannelSize
    BY <2>2, FloodAssumption DEF Init
  <2>4. results \in Seq(Answers) /\ Len(results) = 0
    BY EmptySeq DEF Init
  <2>5. Len(results) + counts.ok + counts.fail = Cardinality({c \in Clients : pc[c] = "done"})
    <3>1. Cardinality({c \in Clients : pc[c] = "done"}) = 0
      BY <2>1, FS_EmptySet
    <3>2. counts.ok = 0 /\ counts.fail = 0
      BY DEF Init
    <3> QED
      BY <2>4, <3>1, <3>2
  <2>6. counts \in [ok : Nat, fail : Nat] /\ reader \in [pkt : Packets \cup {Nil}, to : Clients \cup {Nil}]
    BY DEF Init, NoReader
  <2>7. finished \in BOOLEAN
    BY DEF Init
  <2>8. /\ pc \in [Clients -> {"start", "discover", "offer", "request", "ack",
                               "leave", "report", "done"}]
        /\ xid \in [Clients -> Xids]
        /\ offer \in [Clients -> Packets \cup {Nil}]
        /\ answer \in [Clients -> Answers \cup {Nil}]
        /\ waiters \in [Xids -> Clients \cup {Nil}]
    BY DEF Init
  <2>9. requests = {} /\ replies = {} /\ acked = {}
    BY DEF Init
  <2> QED
    BY <2>3, <2>4, <2>5, <2>6, <2>7, <2>8, <2>9 DEF FloodTypeOK
<1>2. Subscribed
  BY DEF Init, Subscribed, Waiting
<1>3. Routed
  BY DEF Init, Routed, NoReader
<1>4. Written
  BY DEF Init, Written
<1>5. \A c \in Clients : Exchange(c)
  BY DEF Init, Exchange, Quiet, OwnRequests, OwnReplies, InHand, NoReader
<1>6. ReportsAcked
  BY DEF Init, ReportsAcked
<1> QED
  BY <1>1, <1>2, <1>3, <1>4, <1>5, <1>6 DEF FloodInv

LEMMA FloodNextInv == FloodInv /\ [Next]_vars => FloodInv'
<1> SUFFICES ASSUME FloodInv, [Next]_vars
             PROVE  FloodInv'
  OBVIOUS
<1>1. ASSUME NEW c \in Clients, Runs(c) \/ recvFromChan(c) \/ Timeout(c)
      PROVE  FloodInv'
  BY <1>1, SubscribeInv, SendDiscoverInv, SendRequestInv, UnsubscribeInv, ReportInv, RecvInv,
     TimeoutInv DEF Runs
<1>2. CASE UNCHANGED vars
  <2>1. FloodTypeOK'
    BY <1>2 DEF FloodInv, FloodTypeOK, vars, exchange, server, summary
  <2> QED
    BY <1>2, <2>1, SummaryInv DEF vars
<1> QED
  BY <1>1, <1>2, ReadInv, LookupInv, DeliverInv, CollectInv, FinishInv, ServeInv DEF Next

LEMMA FloodInvariant == Spec => []FloodInv
BY FloodInitInv, FloodNextInv, PTL DEF Spec

\* Whatever the network does, the goroutines keep their types, no channel holds
\* more than its room, and the results reported, waiting or counted are as many
\* as the clients that are done.
THEOREM FloodTypeCorrect == Spec => []FloodTypeOK
<1>1. FloodInv => FloodTypeOK
  BY DEF FloodInv
<1> QED
  BY <1>1, FloodInvariant, PTL

\* However many clients there are and whatever numbers they draw, an entry of
\* the subscriptions is that of a client whose dora runs, and one that shares its
\* number with nobody keeps its entry until it returns.
THEOREM FloodSubscribed == Spec => []Subscribed
<1>1. FloodInv => Subscribed
  BY DEF FloodInv
<1> QED
  BY <1>1, FloodInvariant, PTL

\* A client that shares its number with nobody reports no address that the
\* server has not acknowledged to it, stale options notwithstanding.
THEOREM FloodReportsAcked == Spec => []ReportsAcked
<1>1. FloodInv => ReportsAcked
  BY DEF FloodInv
<1> QED
  BY <1>1, FloodInvariant, PTL

=============================================================================
