----------------------------- MODULE FloodClient -----------------------------
(***************************************************************************)
(* The flood scenario of the test client, cmd/dhcpclient/main.go: many     *)
(* DISCOVER-OFFER-REQUEST-ACK exchanges at once over one socket.  A        *)
(* goroutine, readLoop, reads every reply and hands it to the exchange     *)
(* that subscribed to its transaction number, or drops it.                 *)
(*                                                                         *)
(* readLoop has one buffer.  Parse copies the fixed header out of it, but  *)
(* an option is a slice of it: once the next reply is read, what the       *)
(* options of an earlier one say is whatever the buffer now holds at their *)
(* place, which is not even where the next reply has the same option.      *)
(*                                                                         *)
(* The server is another process: it offers each client the address that   *)
(* carries the client's name, may forget it before the REQUEST, and its    *)
(* replies are delayed and lost.                                           *)
(***************************************************************************)
EXTENDS Naturals, Sequences, FiniteSets

CONSTANTS Clients,      \* the exchanges, each with a MAC of its own
          Xids,         \* the transaction numbers they draw from
          ChannelSize,  \* room in the channel of a subscription: 4 in the code
          Zero,         \* the address 0.0.0.0
          Nil

ASSUME FloodAssumption ==
    /\ IsFiniteSet(Clients)
    /\ ChannelSize \in Nat \ {0}
    /\ Zero \notin Clients /\ Nil \notin Clients \cup {Zero}

VARIABLES xid,          \* [Clients -> Xids]
          pc,           \* where dora, or the goroutine around it, is
          chan,         \* [Clients -> the replies in its channel]
          offer,        \* the reply that dora took for its OFFER
          answer,       \* what dora returned: an address, and an error
          waiters,      \* [Xids -> the client whose channel it is, or Nil]
          reader,       \* the reply in readLoop's hands, and the channel for it
          requests,     \* messages under way to the server
          replies,      \* its replies under way
          acked,        \* the clients that it has sent an ACK
          results,      \* the channel of results
          counts,       \* the two counters of runFlood
          finished      \* has runFlood written its summary

exchange == <<pc, chan, offer, answer, waiters, reader>>
server == <<requests, replies, acked>>
summary == <<results, counts, finished>>
vars == <<xid, exchange, server, summary>>

IPs == Clients \cup {Zero}
Types == {"offer", "ack", "nak", "other"}
Replies == [xid : Xids, type : Types, yiaddr : IPs]
Packets == [xid : Xids, type : Types, yiaddr : IPs, fresh : BOOLEAN]
Answers == [ip : IPs, err : {"none", "timeout", "got NAK"}]

Parsed(r) == [xid |-> r.xid, type |-> r.type, yiaddr |-> r.yiaddr, fresh |-> TRUE]

\* The options of a packet, as they read now.
MsgType(p) == IF p.fresh THEN {p.type} ELSE Types
ServerID(p) == IF p.fresh THEN {"server"} ELSE {"server", "other"}

\* Faulty: the address is a slice of the buffer as well.
StaleAddress(p) ==
    IF p = Nil THEN Nil
    ELSE [p EXCEPT !.fresh = FALSE, !.yiaddr = CHOOSE c \in Clients : c # p.yiaddr]

\* The buffer is overwritten.
Stale(p) == IF p = Nil THEN Nil ELSE [p EXCEPT !.fresh = FALSE]

-----------------------------------------------------------------------------
(* readLoop *)

NoReader == [pkt |-> Nil, to |-> Nil]

\* What is no reply of a DHCP server overwrites the buffer too.
Read ==
    /\ reader.pkt = Nil
    /\ \/ \E r \in replies :
             /\ replies' = replies \ {r}
             /\ reader' = [pkt |-> Parsed(r), to |-> Nil]
       \/ UNCHANGED <<replies, reader>>
    /\ chan' = [c \in Clients |-> [i \in DOMAIN chan[c] |-> Stale(chan[c][i])]]
    /\ offer' = [c \in Clients |-> Stale(offer[c])]
    /\ UNCHANGED <<xid, pc, answer, waiters, requests, acked, summary>>

\* The look-up, under the mutex.
Lookup ==
    /\ reader.pkt # Nil /\ reader.to = Nil
    /\ reader' = IF waiters[reader.pkt.xid] = Nil THEN NoReader
                 ELSE [reader EXCEPT !.to = waiters[reader.pkt.xid]]
    /\ UNCHANGED <<xid, pc, chan, offer, answer, waiters, server, summary>>

\* Faulty: waits in a list of its own when the channel is full.
DeliverAlways ==
    /\ reader.to # Nil
    /\ chan' = [chan EXCEPT ![reader.to] = Append(@, reader.pkt)]
    /\ reader' = NoReader
    /\ UNCHANGED <<xid, pc, offer, answer, waiters, server, summary>>

\* A reply for which the channel has no room is dropped.
Deliver ==
    /\ reader.to # Nil
    /\ chan' = [chan EXCEPT ![reader.to] =
                  IF Len(@) < ChannelSize THEN Append(@, reader.pkt) ELSE @]
    /\ reader' = NoReader
    /\ UNCHANGED <<xid, pc, offer, answer, waiters, server, summary>>

-----------------------------------------------------------------------------
(* dora.  A send that fails ends it like a deadline that passes at once. *)

Goto(c, next) == pc' = [pc EXCEPT ![c] = next]

Return(c, ip, err) ==
    /\ Goto(c, "leave")
    /\ answer' = [answer EXCEPT ![c] = [ip |-> ip, err |-> err]]

subscribe(c) ==
    /\ pc[c] = "start"
    /\ waiters' = [waiters EXCEPT ![xid[c]] = c]
    /\ Goto(c, "discover")
    /\ UNCHANGED <<xid, chan, offer, answer, reader, server, summary>>

SendDiscover(c) ==
    /\ pc[c] = "discover"
    /\ requests' = requests \cup {[type |-> "discover", from |-> c, xid |-> xid[c],
                                   ip |-> Zero, server |-> "server"]}
    /\ Goto(c, "offer")
    /\ UNCHANGED <<xid, chan, offer, answer, waiters, reader, replies, acked, summary>>

\* recvFromChan: the type is read from the buffer as it is now.
recvFromChan(c) ==
    /\ pc[c] \in {"offer", "ack"}
    /\ chan[c] # <<>>
    /\ chan' = [chan EXCEPT ![c] = Tail(@)]
    /\ \E t \in MsgType(Head(chan[c])) :
          LET p == Head(chan[c])
              wanted == p.xid = xid[c] /\ t = pc[c]
          IN \/ /\ wanted /\ pc[c] = "offer"
                /\ offer' = [offer EXCEPT ![c] = p]
                /\ Goto(c, "request")
                /\ UNCHANGED answer
             \/ /\ wanted /\ pc[c] = "ack"
                /\ Return(c, p.yiaddr, "none")
                /\ UNCHANGED offer
             \/ /\ ~wanted /\ p.xid = xid[c] /\ t = "nak"
                /\ Return(c, Zero, "got NAK")
                /\ UNCHANGED offer
             \/ /\ ~wanted /\ ~(p.xid = xid[c] /\ t = "nak")
                /\ UNCHANGED <<pc, offer, answer>>
    /\ UNCHANGED <<xid, waiters, reader, server, summary>>

\* Faulty: one deadline, for the OFFER only.
TimeoutOfferOnly(c) ==
    /\ pc[c] = "offer"
    /\ Return(c, Zero, "timeout")
    /\ UNCHANGED <<xid, chan, offer, waiters, reader, server, summary>>

Timeout(c) ==
    /\ pc[c] \in {"offer", "ack"}
    /\ Return(c, Zero, "timeout")
    /\ UNCHANGED <<xid, chan, offer, waiters, reader, server, summary>>

\* The REQUEST goes to every server, and names one.
SendRequest(c) ==
    /\ pc[c] = "request"
    /\ \E s \in ServerID(offer[c]) :
          requests' = requests \cup {[type |-> "request", from |-> c, xid |-> xid[c],
                                      ip |-> offer[c].yiaddr, server |-> s]}
    /\ Goto(c, "ack")
    /\ UNCHANGED <<xid, chan, offer, answer, waiters, reader, replies, acked, summary>>

\* Faulty: the entry stays.
unsubscribeNothing(c) ==
    /\ pc[c] = "leave"
    /\ Goto(c, "report")
    /\ UNCHANGED <<xid, chan, offer, answer, waiters, reader, server, summary>>

\* Deletes the entry of the transaction number, whoever's it is.
unsubscribe(c) ==
    /\ pc[c] = "leave"
    /\ waiters' = [waiters EXCEPT ![xid[c]] = Nil]
    /\ Goto(c, "report")
    /\ UNCHANGED <<xid, chan, offer, answer, reader, server, summary>>

-----------------------------------------------------------------------------
(* runFlood *)

\* The channel has room for the result of every client.
Report(c) ==
    /\ pc[c] = "report"
    /\ results' = Append(results, answer[c])
    /\ Goto(c, "done")
    /\ UNCHANGED <<xid, chan, offer, answer, waiters, reader, server, counts, finished>>

\* How the line of a result ends: in the address, or in the error.
Ending(r) == IF r.err = "none" THEN r.ip ELSE r.err

Collect ==
    /\ results # <<>>
    /\ results' = Tail(results)
    /\ counts' = IF Ending(Head(results)) = "FAIL"
                 THEN [counts EXCEPT !.fail = @ + 1]
                 ELSE [counts EXCEPT !.ok = @ + 1]
    /\ UNCHANGED <<xid, exchange, server, finished>>

\* The last goroutine closes the channel, and the loop over it ends.
Finish ==
    /\ ~finished
    /\ \A c \in Clients : pc[c] = "done"
    /\ results = <<>>
    /\ finished' = TRUE
    /\ UNCHANGED <<xid, exchange, server, results, counts>>

-----------------------------------------------------------------------------
(* The server *)

Reply(m, type) ==
    replies' = replies \cup {[xid |-> m.xid, type |-> type,
                              yiaddr |-> IF type = "nak" THEN Zero ELSE m.from]}

Serve(m) ==
    /\ requests' = requests \ {m}
    /\ \/ m.type = "discover" /\ Reply(m, "offer") /\ UNCHANGED acked
       \/ /\ m.type = "request" /\ m.server = "server" /\ m.ip = m.from
          /\ Reply(m, "ack")
          /\ acked' = acked \cup {m.from}
       \/ /\ m.type = "request" /\ m.server = "server"
          /\ Reply(m, "nak")
          /\ UNCHANGED acked
       \/ UNCHANGED <<replies, acked>>
    /\ UNCHANGED <<xid, exchange, summary>>

-----------------------------------------------------------------------------
Init ==
    /\ xid \in [Clients -> Xids]
    /\ pc = [c \in Clients |-> "start"]
    /\ chan = [c \in Clients |-> <<>>]
    /\ offer = [c \in Clients |-> Nil]
    /\ answer = [c \in Clients |-> Nil]
    /\ waiters = [x \in Xids |-> Nil]
    /\ reader = NoReader
    /\ requests = {} /\ replies = {} /\ acked = {}
    /\ results = <<>> /\ counts = [ok |-> 0, fail |-> 0] /\ finished = FALSE

\* What a client's goroutine does by itself.
Runs(c) ==
    \/ subscribe(c)
    \/ SendDiscover(c)
    \/ SendRequest(c)
    \/ unsubscribe(c)
    \/ Report(c)

Next ==
    \/ Read
    \/ Lookup
    \/ Deliver
    \/ \E c \in Clients : Runs(c) \/ recvFromChan(c) \/ Timeout(c)
    \/ Collect
    \/ Finish
    \/ \E m \in requests : Serve(m)

Spec == Init /\ [][Next]_vars

\* Goroutines run and deadlines pass; nothing makes a reply arrive.
FairSpec ==
    /\ Spec
    /\ \A c \in Clients : WF_vars(Runs(c)) /\ WF_vars(Timeout(c))
    /\ WF_vars(Collect) /\ WF_vars(Finish)

-----------------------------------------------------------------------------
(* What the flood promises *)

FloodTypeOK ==
    /\ xid \in [Clients -> Xids]
    /\ pc \in [Clients -> {"start", "discover", "offer", "request", "ack",
                           "leave", "report", "done"}]
    /\ chan \in [Clients -> Seq(Packets)]
    /\ \A c \in Clients : Len(chan[c]) <= ChannelSize
    /\ offer \in [Clients -> Packets \cup {Nil}]
    /\ answer \in [Clients -> Answers \cup {Nil}]
    /\ waiters \in [Xids -> Clients \cup {Nil}]
    /\ reader \in [pkt : Packets \cup {Nil}, to : Clients \cup {Nil}]
    /\ requests \subseteq [type : {"discover", "request"}, from : Clients, xid : Xids,
                           ip : IPs, server : {"server", "other"}]
    /\ replies \subseteq Replies
    /\ acked \subseteq Clients
    /\ results \in Seq(Answers)
    /\ counts \in [ok : Nat, fail : Nat]
    /\ Len(results) + counts.ok + counts.fail = Cardinality({c \in Clients : pc[c] = "done"})
    /\ finished \in BOOLEAN

Waiting(c) == pc[c] \in {"discover", "offer", "request", "ack", "leave"}
OwnXid(c) == \A b \in Clients \ {c} : xid[b] # xid[c]

\* The table of subscriptions and the goroutines agree: an entry is that of a
\* client whose dora runs, under its number, and a client that shares its number
\* with nobody has its entry from subscribe to the deferred unsubscribe.
Subscribed ==
    /\ \A x \in Xids : waiters[x] # Nil => Waiting(waiters[x]) /\ xid[waiters[x]] = x
    /\ \A c \in Clients : OwnXid(c) /\ Waiting(c) => waiters[xid[c]] = c

\* A client whose number is its own reports no address but the one that the
\* server has acknowledged to it, although the type it reads, and the server it
\* names, may be those of another client's reply (or no such thing at all): a
\* NAK read as an ACK brings 0.0.0.0, for the address is copied and not sliced.
\* Needs a network that duplicates nothing: an OFFER that comes again passes for
\* an ACK.
ReportsAcked ==
    \A c \in Clients :
        (OwnXid(c) /\ answer[c] # Nil /\ answer[c].err = "none" /\ answer[c].ip # Zero)
        => answer[c].ip = c /\ c \in acked

\* The flood ends, with a result from every client, whatever is lost and whoever
\* deletes whose subscription.
FloodEnds ==
    <>(finished /\ counts.ok + counts.fail = Cardinality(Clients))

=============================================================================
