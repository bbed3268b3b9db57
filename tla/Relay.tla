--------------------------------- MODULE Relay ---------------------------------
(***************************************************************************)
(* Several networks behind one server: the paths a packet and its answer   *)
(* take through relays (internal/relay/relay.go), the choice of the subnet *)
(* and of the answer's destination (Server.handlePacket and sendReply,     *)
(* internal/dhcp/server.go), and the handlers (handler.go) reduced to what *)
(* they read of a packet and which address they give.                      *)
(*                                                                         *)
(* A handler is one step here and a store is a lease per address: what     *)
(* happens inside a handler is the subject of DhcpServer.  An address is   *)
(* <<network, host>>; host 0 is the relay's or the server's.               *)
(*                                                                         *)
(* Packets are lost, overtaken and, while they are under way, few: a       *)
(* client sends when there are less than Window.                           *)
(***************************************************************************)
EXTENDS Wire, FiniteSets

CONSTANTS Nets,        \* the networks
          Home,        \* the one that contains server_ip
          Own,         \* the networks whose relay is `mydhcp relay`
          Others,      \* those of them whose relay forwards to another server,
                       \* which answers the socket that a packet came from
          Upstream,    \* where the other relays forward to: a network, to its
                       \* port 67, which is the server's on Home
          Hosts,       \* the hosts of a network that its range contains
          DNS,         \* the name servers of every subnet
          Clients,     \* hardware addresses
          Static,      \* [Clients -> address of the device record, or Nil]
          Roams,       \* [Clients -> the networks that the client is plugged into]
          Flags,       \* [Clients -> the broadcast flags that the client sends]
          Window       \* bound: packets under way

Agent(n) == <<n, 0>>
Pool(n)  == {n} \X Hosts
Addresses == Nets \X Hosts
InNet(n, ip) == ip[1] = n

OtherServer == <<Home, Base - 1>>      \* option 54 of a server that is not this one

\* 0 is no network, the name servers fit an option, and the network of a relay
\* upstream has a subnet.
ASSUME RelayAssumption ==
    /\ Nets \subseteq Bytes \ {0} /\ Hosts \subseteq Bytes \ {0, Base - 1}
    /\ Home \in Nets /\ Own \subseteq Nets \ {Home}
    /\ Others \subseteq Own
    /\ Upstream \in [Nets \ ({Home} \cup Others) -> Nets \ Others]
    /\ DNS \in Seq(Addresses) /\ 2 * Len(DNS) < Base
    /\ Static \in [Clients -> Addresses \cup {Nil}]
    /\ Roams \in [Clients -> SUBSET Nets]
    /\ Flags \in [Clients -> SUBSET BOOLEAN]
    /\ Nil \notin Nets \cup Addresses \cup {Zero} \cup Clients
    /\ Window \in Nat \ {0}

VARIABLES net,      \* the packets under way
          lease,    \* [Subnets -> [Addresses -> the lease in that subnet's store]]
          client,   \* [Clients -> what the client believes]
          at        \* [Clients -> the network it is connected to]

vars == <<net, lease, client, at>>

\* The server has a subnet for each network whose packets reach it.
Subnets == Nets \ Others

Vacant == [state |-> "vacant", owner |-> Nil]   \* in the queue of the store
Absent == [state |-> "absent", owner |-> Nil]   \* nowhere in the store
LeaseOf(c, s) == [state |-> s, owner |-> c]

Leases == {Vacant, Absent} \cup [state : {"reserved", "offered", "bound"}, owner : Clients]

Holds(n, ip, c, states) == lease[n][ip].owner = c /\ lease[n][ip].state \in states

Believes(s, ip) == [st |-> s, ip |-> ip]

-----------------------------------------------------------------------------
(* Packets and where they go *)

Server     == <<"server", Home>>   \* 0.0.0.0:67 of the server
RelayAt(n) == <<"relay", n>>       \* agent_ip:67, and broadcasts to port 67 there
Other(n)   == <<"other", n>>       \* the other server, from a socket on n
Socket(n)  == <<"socket", n>>      \* a socket of one forwardToServer
Link(n)    == <<"link", n>>        \* broadcast to port 68
Host(ip)   == <<"host", ip>>       \* one host, port 68

Port67(n) == IF n = Home THEN Server ELSE RelayAt(n)

Destinations == {Server} \cup {Host(ip) : ip \in Addresses}
                \cup UNION {{RelayAt(n), Other(n), Socket(n), Link(n)} : n \in Nets}

\* A packet under way.  "from" is not part of it: the network on which the
\* client broadcast the request, Nil if it was sent to the server's address.
Datagram(to, from, pkt) == [to |-> to, from |-> from, pkt |-> pkt]

Request(c, ci, broadcast, options) ==
    [op |-> 1, hops |-> 0, broadcast |-> broadcast, ciaddr |-> ci, yiaddr |-> Zero,
     giaddr |-> Zero, chaddr |-> c, options |-> options]

\* The options a client sends: the message type, and a server and an address
\* if it names them.
RequestOptions(type, server, ip) ==
    [code \in {OptMsgType} \cup {k \in {OptServerID} : server # Nil}
                           \cup {k \in {OptRequestedIP} : ip # Nil} |->
        CASE code = OptMsgType     -> <<type>>
          [] code = OptServerID    -> server
          [] code = OptRequestedIP -> ip]

\* Those of an answer: what the client needs to use an address comes with one.
ReplyOptions(type, yi) ==
    [code \in {OptMsgType, OptServerID} \cup {k \in {OptDNS} : ~isZero(yi)} |->
        CASE code = OptMsgType  -> <<type>>
          [] code = OptServerID -> Agent(Home)
          [] code = OptDNS      -> FlattenSeq(DNS)]

\* buildReply and buildNak: flags, giaddr and chaddr are those of the request.
buildReply(req, type, yi) ==
    [op |-> 2, hops |-> 0, broadcast |-> req.broadcast, ciaddr |-> Zero, yiaddr |-> yi,
     giaddr |-> req.giaddr, chaddr |-> req.chaddr, options |-> ReplyOptions(type, yi)]

Options ==
    {RequestOptions(type, server, ip) : type \in {MsgDiscover, MsgRequest, MsgRelease, MsgInform},
         server \in {Nil, Agent(Home), OtherServer}, ip \in Addresses \cup {Nil}}
    \cup {ReplyOptions(type, yi) : type \in {MsgOffer, MsgAck, MsgNak}, yi \in Addresses \cup {Zero}}

Packets ==
    [op : {1, 2}, hops : Bytes, broadcast : BOOLEAN, ciaddr : Addresses \cup {Zero},
     yiaddr : Addresses \cup {Zero}, giaddr : {Agent(n) : n \in Nets} \cup {Zero},
     chaddr : Clients, options : Options]

Replace(m, out) == net' = (net \ {m}) \cup out

-----------------------------------------------------------------------------
(* Clients *)

Broadcast(c, pkt) ==
    /\ Cardinality(net) < Window
    /\ net' = net \cup {Datagram(Port67(at[c]), at[c], pkt)}
    /\ UNCHANGED <<lease, at>>

\* Unicast to the server, which routers take there without a relay.
ToServer(c, pkt) ==
    /\ Cardinality(net) < Window
    /\ client[c].ip[1] \in Subnets
    /\ net' = net \cup {Datagram(Server, Nil, pkt)}
    /\ UNCHANGED <<lease, at>>

\* DISCOVER; option 50 may name the address of an earlier lease.
SendDiscover(c, hint, broadcast) ==
    /\ client[c].st = "init"
    /\ Broadcast(c, Request(c, Zero, broadcast, RequestOptions(MsgDiscover, Nil, hint)))
    /\ UNCHANGED client

SendRequest(c, server, broadcast) ==
    /\ client[c].st = "offered"
    /\ Broadcast(c, Request(c, Zero, broadcast, RequestOptions(MsgRequest, server, client[c].ip)))
    /\ UNCHANGED client

\* A REQUEST for the address of an earlier lease, without an OFFER.
SendReboot(c, broadcast) ==
    /\ client[c].st = "init" /\ client[c].ip # Nil
    /\ Broadcast(c, Request(c, Zero, broadcast, RequestOptions(MsgRequest, Nil, client[c].ip)))
    /\ client' = [client EXCEPT ![c].st = "offered"]

\* A bound client renews with the server, asks any server when that does not
\* answer, asks for options, or lets its lease go.
SendRenew(c, broadcast) ==
    /\ client[c].st = "bound"
    /\ ToServer(c, Request(c, client[c].ip, broadcast, RequestOptions(MsgRequest, Nil, Nil)))
    /\ UNCHANGED client

SendRebind(c, broadcast) ==
    /\ client[c].st = "bound"
    /\ Broadcast(c, Request(c, client[c].ip, broadcast, RequestOptions(MsgRequest, Nil, Nil)))
    /\ UNCHANGED client

SendInform(c, broadcast) ==
    /\ client[c].st = "bound"
    /\ Broadcast(c, Request(c, client[c].ip, broadcast, RequestOptions(MsgInform, Nil, Nil)))
    /\ UNCHANGED client

SendRelease(c) ==
    /\ client[c].st = "bound"
    /\ ToServer(c, Request(c, client[c].ip, FALSE, RequestOptions(MsgRelease, Nil, Nil)))
    /\ client' = [client EXCEPT ![c].st = "init"]

\* The client starts again and remembers its address.
Restart(c) ==
    /\ client[c].st # "init"
    /\ client' = [client EXCEPT ![c].st = "init"]
    /\ UNCHANGED <<net, lease, at>>

\* The client is plugged in elsewhere, noticing it or not.
Move(c, n) ==
    /\ at[c] # n
    /\ at' = [at EXCEPT ![c] = n]
    /\ UNCHANGED <<net, lease, client>>

\* A reply for the client reaches the host it is on.  A host hears broadcasts
\* and what is sent to the address it has.
Hears(c, to) ==
    \/ to = Link(at[c])
    \/ client[c].st = "bound" /\ to = Host(client[c].ip) /\ at[c] = client[c].ip[1]

Receive(c, m) ==
    /\ m.pkt.op = 2 /\ m.pkt.chaddr = c /\ Hears(c, m.to)
    /\ \E o \in Readings(m.pkt.options) :
         LET type == MsgType(o)
             ip   == m.pkt.yiaddr
         IN client' = [client EXCEPT ![c] =
              CASE type = MsgOffer /\ @.st = "init"                -> Believes("offered", ip)
                [] type = MsgAck /\ @.st = "offered" /\ @.ip = ip  -> Believes("bound", ip)
                [] type = MsgNak /\ @.st # "init"                  -> Believes("init", Nil)
                [] OTHER                                           -> @]
    /\ Replace(m, {})
    /\ UNCHANGED <<lease, at>>

Lose(m) == Replace(m, {}) /\ UNCHANGED <<lease, client, at>>

-----------------------------------------------------------------------------
(* The server *)

\* ForPacket: the subnet that contains giaddr, or server_ip without one.
ForPacket(giaddr) ==
    {n \in Subnets : InNet(n, IF isZero(giaddr) THEN Agent(Home) ELSE giaddr)}

\* Faulty: broadcasts when the client asked for it, relay or not.
sendReplyFlagFirst(req) ==
    IF req.broadcast \/ (isZero(req.giaddr) /\ isZero(req.ciaddr)) THEN Link(Home)
    ELSE IF ~isZero(req.giaddr) THEN RelayAt(req.giaddr[1])
    ELSE Host(req.ciaddr)

\* Faulty: forgets that a client without an address cannot be sent to.
sendReplyNoAddress(req) ==
    IF ~isZero(req.giaddr) THEN RelayAt(req.giaddr[1])
    ELSE IF req.broadcast THEN Link(Home)
    ELSE Host(req.ciaddr)

\* sendReply: to the relay's port 67 if there is one; else a broadcast, if the
\* client asked for it or has no address yet; else the address it has.
sendReply(req) ==
    IF ~isZero(req.giaddr) THEN RelayAt(req.giaddr[1])
    ELSE IF req.broadcast \/ isZero(req.ciaddr) THEN Link(Home)
    ELSE Host(req.ciaddr)

Answer(m, reply) == Replace(m, {Datagram(sendReply(m.pkt), m.from, reply)})

\* Faulty: honours option 50 whatever network it is of.
PreferredAnyNetwork(n, c, o) ==
    IF Static[c] # Nil THEN Static[c]
    ELSE IF \E ip \in Addresses : Holds(n, ip, c, {"reserved", "offered", "bound"})
    THEN CHOOSE ip \in Addresses : Holds(n, ip, c, {"reserved", "offered", "bound"})
    ELSE RequestedIP(o)

\* The address handleDiscover tries first: of the device record, wherever the
\* device is; of the lease the store knows; or of option 50 if the subnet
\* contains it.
Preferred(n, c, o) ==
    IF Static[c] # Nil THEN Static[c]
    ELSE IF \E ip \in Addresses : Holds(n, ip, c, {"reserved", "offered", "bound"})
    THEN CHOOSE ip \in Addresses : Holds(n, ip, c, {"reserved", "offered", "bound"})
    ELSE IF RequestedIP(o) # Nil /\ InNet(n, RequestedIP(o)) THEN RequestedIP(o)
    ELSE Nil

AllocateOK(n, c, ip) ==
    lease[n][ip] \in {Vacant, Absent} \/ Holds(n, ip, c, {"reserved", "offered"})

\* Allocate takes any address that has no lease, of the subnet or not.  The
\* client's lease in the same store, of which there is one at most here, goes,
\* and its address does not return to the queue.
Allocate(n, c, ip) ==
    lease' = [lease EXCEPT ![n] =
                [i \in Addresses |-> IF i = ip THEN LeaseOf(c, "offered")
                                     ELSE IF lease[n][i].owner = c THEN Absent
                                     ELSE lease[n][i]]]

\* The addresses handleDiscover may offer: the preferred one, or any in the queue.
Offers(n, c, o) ==
    LET ip == Preferred(n, c, o)
    IN IF ip # Nil /\ AllocateOK(n, c, ip) THEN {ip}
       ELSE {i \in Addresses : lease[n][i] = Vacant}

handleDiscover(m, n, o) ==
    /\ MsgType(o) = MsgDiscover
    /\ \/ \E ip \in Offers(n, m.pkt.chaddr, o) :
             /\ Allocate(n, m.pkt.chaddr, ip)
             /\ Answer(m, buildReply(m.pkt, MsgOffer, ip))
       \/ /\ Offers(n, m.pkt.chaddr, o) = {}
          /\ Replace(m, {})
          /\ UNCHANGED lease

Wanted(req, o) == IF ~isZero(req.ciaddr) THEN req.ciaddr ELSE RequestedIP(o)

\* Renew succeeds, and the device record, if any, agrees.
RenewOK(n, c, ip) ==
    /\ ip # Nil
    /\ Static[c] \in {Nil, ip}
    /\ Holds(n, ip, c, {"offered", "bound"})

handleRequest(m, n, o) ==
    LET c == m.pkt.chaddr
        ip == Wanted(m.pkt, o)
    IN  /\ MsgType(o) = MsgRequest
        /\ \/ /\ ServerID(o) \notin {Nil, Agent(Home)}
              /\ Replace(m, {})
              /\ UNCHANGED lease
           \/ /\ ServerID(o) \in {Nil, Agent(Home)}
              /\ RenewOK(n, c, ip)
              /\ lease' = [lease EXCEPT ![n][ip].state = "bound"]
              /\ Answer(m, buildReply(m.pkt, MsgAck, ip))
           \/ /\ ServerID(o) \in {Nil, Agent(Home)}
              /\ ~RenewOK(n, c, ip)
              /\ Answer(m, buildReply(m.pkt, MsgNak, Zero))
              /\ UNCHANGED lease

\* Release queues the address in the store that had the lease.
handleRelease(m, n, o) ==
    /\ MsgType(o) = MsgRelease
    /\ lease' = IF ~isZero(m.pkt.ciaddr) /\ lease[n][m.pkt.ciaddr].owner = m.pkt.chaddr
                THEN [lease EXCEPT ![n][m.pkt.ciaddr] = Vacant] ELSE lease
    /\ Replace(m, {})

handleInform(m, n, o) ==
    /\ MsgType(o) = MsgInform
    /\ Answer(m, buildReply(m.pkt, MsgAck, Zero))
    /\ UNCHANGED lease

\* A packet reaches the server's socket; one that is not a request, or of a
\* network without a subnet, goes no further.
handlePacket(m) ==
    /\ m.to = Server
    /\ m.pkt.op = 1
    /\ \E o \in Readings(m.pkt.options), n \in ForPacket(m.pkt.giaddr) :
          \/ handleDiscover(m, n, o)
          \/ handleRequest(m, n, o)
          \/ handleRelease(m, n, o)
          \/ handleInform(m, n, o)
    /\ UNCHANGED <<client, at>>

\* The reaper ends an offer or a lease, and queues its address in that store.
Reap(n, ip) ==
    /\ lease[n][ip].state \in {"offered", "bound"}
    /\ lease' = [lease EXCEPT ![n][ip] = Vacant]
    /\ UNCHANGED <<net, client, at>>

-----------------------------------------------------------------------------
(* Relays *)

\* giaddr if it is not set, and one more hop, in a byte.
Stamped(pkt, n) ==
    [pkt EXCEPT !.giaddr = IF isZero(@) THEN Agent(n) ELSE @, !.hops = (@ + 1) % Base]

UpstreamOf(n) == IF n \in Others THEN Other(n) ELSE Port67(Upstream[n])

\* runInterface and forwardToServer: what the listening socket gets is forwarded
\* if it is a request.  The goroutine goes on to wait for an answer on the
\* socket it has forwarded from.
forwardToServer(m, n) ==
    /\ n \in Own
    /\ m.to = RelayAt(n)
    /\ Replace(m, IF m.pkt.op = 1
                  THEN {Datagram(UpstreamOf(n), m.from, Stamped(m.pkt, n))} ELSE {})
    /\ UNCHANGED <<lease, client, at>>

\* forwardToClient: what comes back on that socket, if it is a reply.  It sends
\* from agent_ip:67, where runInterface listens; should that be refused, the
\* reply is lost (Lose).
forwardToClient(m, n) ==
    /\ m.to = Socket(n)
    /\ Replace(m, IF m.pkt.op = 2
                  THEN {Datagram(IF m.pkt.broadcast \/ isZero(m.pkt.yiaddr) THEN Link(n)
                                 ELSE Host(m.pkt.yiaddr), m.from, m.pkt)} ELSE {})
    /\ UNCHANGED <<lease, client, at>>

\* A relay of another make does the same with requests and passes what is
\* sent to its address on to the client.
OtherRelay(m, n) ==
    /\ n \notin Own
    /\ m.to = RelayAt(n)
    /\ Replace(m, {IF m.pkt.op = 1 THEN Datagram(UpstreamOf(n), m.from, Stamped(m.pkt, n))
                   ELSE Datagram(Link(n), m.from, m.pkt)})
    /\ UNCHANGED <<lease, client, at>>

\* The other server answers a DISCOVER or REQUEST, to the socket it came from.
OtherAnswers(m, n) ==
    /\ m.to = Other(n)
    /\ \/ \E ip \in Pool(n), type \in {MsgOffer, MsgAck} :
             Replace(m, {Datagram(Socket(n), m.from, buildReply(m.pkt, type, ip))})
       \/ Replace(m, {Datagram(Socket(n), m.from, buildReply(m.pkt, MsgNak, Zero))})
    /\ UNCHANGED <<lease, client, at>>

-----------------------------------------------------------------------------
Init ==
    /\ net = {}
    /\ lease = [n \in Subnets |-> [ip \in Addresses |->
                  IF ~InNet(n, ip) THEN Absent
                  ELSE IF \E c \in Clients : Static[c] = ip
                  THEN LeaseOf(CHOOSE c \in Clients : Static[c] = ip, "reserved") ELSE Vacant]]
    /\ client = [c \in Clients |-> Believes("init", Nil)]
    /\ at \in [Clients -> Nets] /\ \A c \in Clients : at[c] \in Roams[c]

ClientStep(c) ==
    \/ \E b \in Flags[c] :
          \/ \E hint \in {Nil, client[c].ip} : SendDiscover(c, hint, b)
          \/ \E server \in {Agent(Home), OtherServer} : SendRequest(c, server, b)
          \/ SendReboot(c, b)
          \/ SendRenew(c, b)
          \/ SendRebind(c, b)
          \/ SendInform(c, b)
    \/ SendRelease(c)
    \/ Restart(c)
    \/ \E n \in Roams[c] : Move(c, n)
    \/ \E m \in net : Receive(c, m)

Next ==
    \/ \E c \in Clients : ClientStep(c)
    \/ \E m \in net :
          \/ Lose(m)
          \/ handlePacket(m)
          \/ \E n \in Nets \ {Home} :
                \/ forwardToServer(m, n)
                \/ forwardToClient(m, n)
                \/ OtherRelay(m, n)
                \/ OtherAnswers(m, n)
    \/ \E n \in Subnets, ip \in Addresses : Reap(n, ip)

Spec == Init /\ [][Next]_vars

-----------------------------------------------------------------------------
(* What the paths promise *)

\* Packets, leases and what clients believe are of the shapes above; in
\* particular every packet has a destination, never the address 0.0.0.0.
RelayTypeOK ==
    /\ net \subseteq [to : Destinations, from : Nets \cup {Nil}, pkt : Packets]
    /\ lease \in [Subnets -> [Addresses -> Leases]]
    /\ client \in [Clients -> [st : {"init", "offered", "bound"}, ip : Addresses \cup {Nil}]]
    /\ at \in [Clients -> Nets]

\* The address in an answer to a broadcast is one of the network where the
\* client broadcast, whichever relays the request went through, wherever its
\* client was before and whatever address of another network it named.  The one
\* exception is the static address of a device record, which handleDiscover
\* offers on any network (handler.go:69-71); once its lease there has ended, the
\* address is in the queue of that network's store, for any client.
OwnSubnet ==
    \A m \in net : (m.pkt.op = 2 /\ m.from # Nil /\ ~isZero(m.pkt.yiaddr))
                     => \/ InNet(m.from, m.pkt.yiaddr)
                        \/ \E c \in Clients : Static[c] = m.pkt.yiaddr

\* An answer to a broadcast is always on its way to the network it came from:
\* to its relay, its link, or a host on it.  The one exception is on the
\* server's own network, where no relay has left its address: there sendReply
\* trusts the address in ciaddr (server.go:133), which a moved client may have
\* brought from elsewhere, with an answer that gives no other address.
RepliesGoBack ==
    \A m \in net : (m.pkt.op = 2 /\ m.from # Nil) =>
        \/ m.to \in {RelayAt(m.from), Socket(m.from), Link(m.from)}
        \/ \E ip \in Addresses :
              /\ m.to = Host(ip)
              /\ \/ InNet(m.from, ip)
                 \/ m.from = Home /\ m.pkt.yiaddr \in {Zero, ip}

\* Every packet under way is read as it was meant, in whichever order its
\* options are written: End and pad bytes inside values, lengths and all.
Understood == \A m \in net : Readings(m.pkt.options) = {m.pkt.options}

-----------------------------------------------------------------------------
(* What design.md says of relays and the code does not do *)

\* design.md:600, "Server reply arrives addressed to `giaddr` -> forwards to
\* client per `flags` field".
ForwardsReplies ==
    [][\A m \in net, n \in Own :
          (forwardToServer(m, n) /\ m.pkt.op = 2)
          => \E r \in net' : r.pkt = m.pkt /\ r.to \in {Link(n), Host(m.pkt.yiaddr)}]_vars

=============================================================================
