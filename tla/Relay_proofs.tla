------------------------------ MODULE Relay_proofs ------------------------------
(***************************************************************************)
(* Proofs about Relay, for any networks, wiring and clients.  That a       *)
(* packet is read as it was written comes from the codec (RoundTrip of     *)
(* Wire_proofs): the options of every packet are ones that it keeps.       *)
(***************************************************************************)
EXTENDS Relay, Wire_proofs

\* A request still has no giaddr and is at the port 67 of its own network, or
\* it carries the address of the relay there and is on its way upstream.
RequestPath(m) ==
    m.pkt.op = 1 =>
        /\ m.from = Nil => /\ m.to = Server /\ m.pkt.giaddr = Zero
                           /\ MsgType(m.pkt.options) # MsgDiscover
        /\ m.from # Nil =>
              /\ \/ m.pkt.giaddr = Zero /\ m.to = Port67(m.from)
                 \/ /\ m.pkt.giaddr = Agent(m.from)
                    /\ m.from # Home
                    /\ \/ m.to \in {Server, Other(m.from)}
                       \/ \E k \in Nets \ ({Home} \cup Others) : m.to = RelayAt(k)
              /\ MsgType(m.pkt.options) = MsgDiscover => m.pkt.ciaddr = Zero

\* An address that may come with an answer on network n.
GivenOn(n, ip) == InNet(n, ip) \/ \E c \in Clients : Static[c] = ip

\* A host on network n that an answer with yi may be sent to.
HostOn(n, ip, yi) == InNet(n, ip) \/ (n = Home /\ yi \in {Zero, ip})

\* OwnSubnet and RepliesGoBack for one packet.  What comes back to a relay's
\* socket is from the other server, with an address of the network.
ReplyPath(m) ==
    m.pkt.op = 2 =>
        /\ m.to # Server /\ \A n \in Nets : m.to # Other(n)
        /\ MsgType(m.pkt.options) = MsgOffer => m.pkt.yiaddr \in Addresses
        /\ m.from # Nil =>
              /\ ~isZero(m.pkt.yiaddr) => GivenOn(m.from, m.pkt.yiaddr)
              /\ m.to = Socket(m.from) /\ ~isZero(m.pkt.yiaddr) => InNet(m.from, m.pkt.yiaddr)
              /\ \/ m.to \in {RelayAt(m.from), Socket(m.from), Link(m.from)}
                 \/ \E ip \in Addresses : m.to = Host(ip) /\ HostOn(m.from, ip, m.pkt.yiaddr)

Good(m) ==
    /\ m \in [to : Destinations, from : Nets \cup {Nil}, pkt : Packets]
    /\ RequestPath(m)
    /\ ReplyPath(m)

\* A store leases and queues addresses of its own subnet, and static ones.
LeasesHome ==
    /\ lease \in [Subnets -> [Addresses -> Leases]]
    /\ \A n \in Subnets, ip \in Addresses : lease[n][ip] # Absent => GivenOn(n, ip)

Located == at \in [Clients -> Nets]

ClientsTyped ==
    /\ client \in [Clients -> [st : {"init", "offered", "bound"}, ip : Addresses \cup {Nil}]]
    /\ \A c \in Clients : client[c].st # "init" => client[c].ip # Nil

PathInv ==
    /\ \A m \in net : Good(m)
    /\ LeasesHome
    /\ Located
    /\ ClientsTyped

-----------------------------------------------------------------------------
(* Addresses, options and packets *)

LEMMA AddressFacts ==
    /\ \A ip \in Addresses : ip[1] \in Nets /\ ~isZero(ip) /\ ip # Nil /\ Len(ip) = 2
    /\ \A n \in Nets : ~isZero(Agent(n)) /\ Agent(n)[1] = n
    /\ isZero(Zero) /\ Home \in Subnets /\ Subnets \subseteq Nets /\ Nil \notin Nets
    /\ \A n \in Subnets : n # Home => Upstream[n] \in Subnets
    /\ Nil # Zero
<1>1. 0 \notin Nets /\ Nets \subseteq Nat
  BY RelayAssumption, WireAssumption DEF Bytes
<1>2. \A ip \in Addresses : ip[1] \in Nets /\ ip # Nil /\ Len(ip) = 2
  BY RelayAssumption DEF Addresses
<1>3. \A ip \in Addresses : ~isZero(ip)
  BY <1>1, <1>2 DEF isZero, Zero
<1>4. \A n \in Nets : ~isZero(Agent(n)) /\ Agent(n)[1] = n
  BY <1>1 DEF Agent, isZero, Zero
<1>5. isZero(Zero) /\ Nil # Zero /\ Nil \notin Nets
  BY RelayAssumption DEF isZero
<1>6. Home \in Subnets /\ Subnets \subseteq Nets
  BY RelayAssumption DEF Subnets
<1>7. \A n \in Subnets : n # Home => Upstream[n] \in Subnets
  BY RelayAssumption DEF Subnets
<1> QED BY <1>2, <1>3, <1>4, <1>5, <1>6, <1>7

LEMMA RequestFacts ==
    ASSUME NEW type \in {MsgDiscover, MsgRequest, MsgRelease, MsgInform},
           NEW server \in {Nil, Agent(Home), OtherServer}, NEW ip \in Addresses \cup {Nil}
    PROVE  LET o == RequestOptions(type, server, ip)
           IN  o \in Options /\ MsgType(o) = type /\ RequestedIP(o) \in Addresses \cup {Nil}
<1> DEFINE o == RequestOptions(type, server, ip)
<1>1. o \in Options
  BY DEF Options
<1>2. OptMsgType \in DOMAIN o /\ o[OptMsgType] = <<type>>
  BY DEF RequestOptions, OptMsgType, OptServerID, OptRequestedIP
<1>3. MsgType(o) = type
  BY <1>2 DEF MsgType
<1>4. OptRequestedIP \in DOMAIN o => ip \in Addresses /\ o[OptRequestedIP] = ip
  BY DEF RequestOptions, OptMsgType, OptServerID, OptRequestedIP
<1>5. RequestedIP(o) \in Addresses \cup {Nil}
  BY <1>4 DEF RequestedIP, AddressIn
<1> QED BY <1>1, <1>3, <1>5

LEMMA ReplyFacts ==
    ASSUME NEW type \in {MsgOffer, MsgAck, MsgNak}, NEW yi \in Addresses \cup {Zero}
    PROVE  LET o == ReplyOptions(type, yi)
           IN  o \in Options /\ MsgType(o) = type /\ RequestedIP(o) = Nil
<1> DEFINE o == ReplyOptions(type, yi)
<1>1. o \in Options
  BY DEF Options
<1>2. OptMsgType \in DOMAIN o /\ o[OptMsgType] = <<type>>
  BY DEF ReplyOptions, OptMsgType, OptServerID, OptDNS
<1>3. MsgType(o) = type
  BY <1>2 DEF MsgType
<1>4. OptRequestedIP \notin DOMAIN o
  BY DEF ReplyOptions, OptMsgType, OptServerID, OptRequestedIP, OptDNS
<1>5. RequestedIP(o) = Nil
  BY <1>4 DEF RequestedIP, AddressIn
<1> QED BY <1>1, <1>3, <1>5

\* Option 50 of any packet is an address, if it is there.
LEMMA OptionsTyped ==
    ASSUME NEW o \in Options
    PROVE  RequestedIP(o) \in Addresses \cup {Nil}
  BY RequestFacts, ReplyFacts DEF Options

LEMMA RequestTyped ==
    ASSUME NEW c \in Clients, NEW ci \in Addresses \cup {Zero}, NEW b \in BOOLEAN,
           NEW o \in Options
    PROVE  Request(c, ci, b, o) \in Packets
  BY WireAssumption DEF Request, Packets, Bytes

LEMMA buildReplyTyped ==
    ASSUME NEW req \in Packets, NEW type \in {MsgOffer, MsgAck, MsgNak},
           NEW yi \in Addresses \cup {Zero}
    PROVE  buildReply(req, type, yi) \in Packets
<1>1. ReplyOptions(type, yi) \in Options
  BY ReplyFacts
<1> QED BY <1>1, WireAssumption DEF buildReply, Packets, Bytes

LEMMA StampedTyped ==
    ASSUME NEW pkt \in Packets, NEW n \in Nets
    PROVE  /\ Stamped(pkt, n) \in Packets
           /\ Stamped(pkt, n).op = pkt.op
           /\ Stamped(pkt, n).chaddr = pkt.chaddr
           /\ Stamped(pkt, n).options = pkt.options
           /\ Stamped(pkt, n).ciaddr = pkt.ciaddr
           /\ Stamped(pkt, n).giaddr = IF isZero(pkt.giaddr) THEN Agent(n) ELSE pkt.giaddr
<1>1. (pkt.hops + 1) % Base \in Bytes
  BY WireAssumption DEF Packets, Bytes
<1> QED BY <1>1 DEF Stamped, Packets

\* An address is two bytes on the wire.
LEMMA AddressBytes ==
    ASSUME NEW ip \in Addresses \cup {Agent(Home), OtherServer}
    PROVE  ip \in Seq(Bytes) /\ Len(ip) = 2
<1>1. /\ Nets \subseteq Bytes /\ Hosts \subseteq Bytes /\ Home \in Bytes
      /\ 0 \in Bytes /\ Base - 1 \in Bytes
  BY RelayAssumption, WireAssumption DEF Bytes
<1>2. \A x, y \in Bytes : <<x, y>> \in Seq(Bytes) /\ Len(<<x, y>>) = 2
  OBVIOUS
<1>3. CASE ip \in Addresses
  <2>1. ip = <<ip[1], ip[2]>> /\ ip[1] \in Bytes /\ ip[2] \in Bytes
    BY <1>1, <1>3 DEF Addresses
  <2> QED BY <1>2, <2>1
<1>4. CASE ip \in {Agent(Home), OtherServer}
  BY <1>1, <1>2, <1>4 DEF Agent, OtherServer
<1> QED BY <1>3, <1>4

LEMMA NameServers == FlattenSeq(DNS) \in Seq(Bytes) /\ Len(FlattenSeq(DNS)) < Base
<1>1. DNS \in Seq(Addresses) /\ 2 * Len(DNS) < Base
  BY RelayAssumption
<1>2. \A i \in 1 .. Len(DNS) : DNS[i] \in Seq(Bytes) /\ Len(DNS[i]) = 2
  BY <1>1, AddressBytes
<1>3. DNS \in Seq(Seq(Bytes))
  BY <1>1, <1>2
<1> QED BY <1>1, <1>2, <1>3, FlattenPairs

\* The codec keeps the options of every packet.
LEMMA OptionsWellFormed ==
    ASSUME NEW o \in Options
    PROVE  WellFormed(o)
<1>1. /\ OptMsgType \in Bytes \ {OptPad, OptEnd} /\ OptServerID \in Bytes \ {OptPad, OptEnd}
      /\ OptRequestedIP \in Bytes \ {OptPad, OptEnd} /\ OptDNS \in Bytes \ {OptPad, OptEnd}
  BY WireAssumption DEF Bytes, OptPad, OptEnd, OptMsgType, OptServerID, OptRequestedIP, OptDNS
<1>2. \A type \in 1 .. 7 : <<type>> \in Seq(Bytes) /\ Len(<<type>>) < Base
  BY WireAssumption DEF Bytes
<1>3. \A ip \in Addresses \cup {Agent(Home), OtherServer} : ip \in Seq(Bytes) /\ Len(ip) < Base
  <2>1. 2 < Base
    BY WireAssumption
  <2> QED BY <2>1, AddressBytes
<1>4. ASSUME NEW type \in {MsgDiscover, MsgRequest, MsgRelease, MsgInform},
             NEW server \in {Nil, Agent(Home), OtherServer}, NEW ip \in Addresses \cup {Nil}
      PROVE  WellFormed(RequestOptions(type, server, ip))
  <2> DEFINE r == RequestOptions(type, server, ip)
  <2>1. /\ DOMAIN r \subseteq {OptMsgType, OptServerID, OptRequestedIP}
        /\ r = [code \in DOMAIN r |-> r[code]]
    BY DEF RequestOptions
  <2>2. type \in 1 .. 7
    BY DEF MsgDiscover, MsgRequest, MsgRelease, MsgInform
  <2>3. OptMsgType \in DOMAIN r => r[OptMsgType] = <<type>>
    BY DEF RequestOptions, OptMsgType, OptServerID, OptRequestedIP
  <2>4. OptServerID \in DOMAIN r => server # Nil /\ r[OptServerID] = server
    BY DEF RequestOptions, OptMsgType, OptServerID, OptRequestedIP
  <2>5. OptRequestedIP \in DOMAIN r => ip # Nil /\ r[OptRequestedIP] = ip
    BY DEF RequestOptions, OptMsgType, OptServerID, OptRequestedIP
  <2> HIDE DEF r
  <2>6. \A code \in DOMAIN r : r[code] \in Seq(Bytes) /\ Len(r[code]) < Base
    BY <1>2, <1>3, <2>1, <2>2, <2>3, <2>4, <2>5
  <2>7. r \in [DOMAIN r -> Seq(Bytes)]
    BY <2>1, <2>6
  <2>8. WellFormed(r)
    BY <1>1, <2>1, <2>6, <2>7 DEF WellFormed
  <2> QED BY <2>8 DEF r
<1>5. ASSUME NEW type \in {MsgOffer, MsgAck, MsgNak}, NEW yi \in Addresses \cup {Zero}
      PROVE  WellFormed(ReplyOptions(type, yi))
  <2> DEFINE r == ReplyOptions(type, yi)
  <2>1. /\ DOMAIN r \subseteq {OptMsgType, OptServerID, OptDNS}
        /\ r = [code \in DOMAIN r |-> r[code]]
    BY DEF ReplyOptions
  <2>2. type \in 1 .. 7
    BY DEF MsgOffer, MsgAck, MsgNak
  <2>3. OptMsgType \in DOMAIN r => r[OptMsgType] = <<type>>
    BY DEF ReplyOptions, OptMsgType, OptServerID, OptDNS
  <2>4. OptServerID \in DOMAIN r => r[OptServerID] = Agent(Home)
    BY DEF ReplyOptions, OptMsgType, OptServerID, OptDNS
  <2>5. OptDNS \in DOMAIN r => r[OptDNS] = FlattenSeq(DNS)
    BY DEF ReplyOptions, OptMsgType, OptServerID, OptDNS
  <2> HIDE DEF r
  <2>6. \A code \in DOMAIN r : r[code] \in Seq(Bytes) /\ Len(r[code]) < Base
    BY <1>2, <1>3, NameServers, <2>1, <2>2, <2>3, <2>4, <2>5
  <2>7. r \in [DOMAIN r -> Seq(Bytes)]
    BY <2>1, <2>6
  <2>8. WellFormed(r)
    BY <1>1, <2>1, <2>6, <2>7 DEF WellFormed
  <2> QED BY <2>8 DEF r
<1> QED BY <1>4, <1>5 DEF Options

-----------------------------------------------------------------------------
(* Every packet that is sent or passed on is where it belongs *)

LEMMA DestinationFacts ==
    ASSUME NEW n \in Nets
    PROVE  /\ {Server, RelayAt(n), Other(n), Socket(n), Link(n), Port67(n)} \subseteq Destinations
           /\ \A k \in Nets : (Port67(k) = RelayAt(n) => k = n /\ k # Home)
                              /\ (Port67(k) = Server => k = Home)
                              /\ (RelayAt(k) = RelayAt(n) => k = n)
                              /\ (Socket(k) = Socket(n) => k = n)
                              /\ (Other(k) = Other(n) => k = n)
<1>1. {Server, RelayAt(n), Other(n), Socket(n), Link(n), Port67(n)} \subseteq Destinations
  BY DEF Destinations, Port67
<1>2. \A k \in Nets : (Port67(k) = RelayAt(n) => k = n /\ k # Home)
                      /\ (Port67(k) = Server => k = Home)
                      /\ (RelayAt(k) = RelayAt(n) => k = n)
                      /\ (Socket(k) = Socket(n) => k = n)
                      /\ (Other(k) = Other(n) => k = n)
  BY DEF Port67, RelayAt, Server, Socket, Other
<1> QED BY <1>1, <1>2

LEMMA BroadcastGood ==
    ASSUME NEW c \in Clients, NEW n \in Nets,
           NEW ci \in Addresses \cup {Zero}, NEW b \in BOOLEAN, NEW o \in Options,
           MsgType(o) = MsgDiscover => ci = Zero
    PROVE  Good(Datagram(Port67(n), n, Request(c, ci, b, o)))
<1> DEFINE m == Datagram(Port67(n), n, Request(c, ci, b, o))
<1>1. m \in [to : Destinations, from : Nets \cup {Nil}, pkt : Packets]
  BY RequestTyped, DestinationFacts DEF Datagram
<1>2. /\ m.to = Port67(n) /\ m.from = n /\ m.pkt.op = 1
      /\ m.pkt.giaddr = Zero /\ m.pkt.chaddr = c /\ m.pkt.ciaddr = ci /\ m.pkt.options = o
  BY DEF Datagram, Request
<1>3. n # Nil
  BY AddressFacts
<1>4. RequestPath(m)
  BY <1>2, <1>3 DEF RequestPath
<1>5. ReplyPath(m)
  BY <1>2 DEF ReplyPath
<1> QED BY <1>1, <1>4, <1>5 DEF Good

LEMMA UnicastGood ==
    ASSUME NEW c \in Clients, NEW ci \in Addresses, NEW b \in BOOLEAN,
           NEW type \in {MsgRequest, MsgRelease}
    PROVE  Good(Datagram(Server, Nil, Request(c, ci, b, RequestOptions(type, Nil, Nil))))
<1> DEFINE o == RequestOptions(type, Nil, Nil)
           m == Datagram(Server, Nil, Request(c, ci, b, o))
<1>1. o \in Options /\ MsgType(o) = type
  BY RequestFacts
<1>2. m \in [to : Destinations, from : Nets \cup {Nil}, pkt : Packets]
  BY <1>1, RequestTyped, DestinationFacts, AddressFacts DEF Datagram
<1>3. /\ m.to = Server /\ m.from = Nil /\ m.pkt.op = 1
      /\ m.pkt.giaddr = Zero /\ m.pkt.options = o
  BY DEF Datagram, Request
<1>4. MsgType(o) # MsgDiscover
  BY <1>1 DEF MsgRequest, MsgRelease, MsgDiscover
<1>5. RequestPath(m)
  BY <1>3, <1>4 DEF RequestPath
<1>6. ReplyPath(m)
  BY <1>3 DEF ReplyPath
<1> QED BY <1>2, <1>5, <1>6 DEF Good

LEMMA ForwardGood ==
    ASSUME NEW m, Good(m), m.pkt.op = 1, NEW n \in Nets \ {Home}, m.to = RelayAt(n)
    PROVE  Good(Datagram(UpstreamOf(n), m.from, Stamped(m.pkt, n)))
<1> DEFINE r == Datagram(UpstreamOf(n), m.from, Stamped(m.pkt, n))
<1>1. m.pkt \in Packets /\ m.from \in Nets \cup {Nil}
  BY DEF Good
<1>2. RelayAt(n) # Server
  BY DEF RelayAt, Server
<1>3. m.from # Nil /\ m.from \in Nets
  BY <1>1, <1>2 DEF Good, RequestPath
<1>4. UpstreamOf(n) = Other(n) \/ UpstreamOf(n) = Server
      \/ \E k \in Nets \ ({Home} \cup Others) : UpstreamOf(n) = RelayAt(k)
  BY AddressFacts DEF UpstreamOf, Port67, Subnets
<1>5. n \notin Others => UpstreamOf(n) = Server
      \/ \E k \in Nets \ ({Home} \cup Others) : UpstreamOf(n) = RelayAt(k)
  BY AddressFacts DEF UpstreamOf, Port67, Subnets
<1>6. UpstreamOf(n) \in Destinations
  BY <1>4, DestinationFacts
<1>7. r \in [to : Destinations, from : Nets \cup {Nil}, pkt : Packets]
  BY <1>1, <1>6, StampedTyped DEF Datagram
<1>8. /\ r.to = UpstreamOf(n) /\ r.from = m.from /\ r.pkt.op = 1
      /\ r.pkt.chaddr = m.pkt.chaddr /\ r.pkt.ciaddr = m.pkt.ciaddr
      /\ r.pkt.options = m.pkt.options
      /\ r.pkt.giaddr = IF isZero(m.pkt.giaddr) THEN Agent(n) ELSE m.pkt.giaddr
  BY <1>1, StampedTyped DEF Datagram
<1>9. MsgType(r.pkt.options) = MsgDiscover => r.pkt.ciaddr = Zero
  BY <1>3, <1>8 DEF Good, RequestPath
<1>10. /\ r.pkt.giaddr = Agent(r.from) /\ r.from # Home
       /\ \/ r.to \in {Server, Other(r.from)}
          \/ \E k \in Nets \ ({Home} \cup Others) : r.to = RelayAt(k)
  <2>1. CASE m.pkt.giaddr = Zero /\ m.to = Port67(m.from)
    <3>1. m.from = n
      BY <1>3, <2>1, DestinationFacts
    <3>2. isZero(m.pkt.giaddr)
      BY <2>1, AddressFacts
    <3> QED BY <1>4, <1>8, <3>1, <3>2
  <2>2. CASE /\ m.pkt.giaddr = Agent(m.from) /\ m.from # Home
             /\ \/ m.to \in {Server, Other(m.from)}
                \/ \E k \in Nets \ ({Home} \cup Others) : m.to = RelayAt(k)
    <3>1. ~isZero(m.pkt.giaddr)
      BY <1>3, <2>2, AddressFacts
    <3>2. m.to # Server /\ m.to # Other(m.from)
      BY <1>2 DEF RelayAt, Other
    <3>3. n \notin Others
      BY <2>2, <3>2, DestinationFacts
    <3> QED BY <1>5, <1>8, <2>2, <3>1, <3>3
  <2> QED BY <1>3, <2>1, <2>2 DEF Good, RequestPath
<1>11. RequestPath(r)
  BY <1>3, <1>8, <1>9, <1>10 DEF RequestPath
<1>12. ReplyPath(r)
  BY <1>8 DEF ReplyPath
<1> QED BY <1>7, <1>11, <1>12 DEF Good

\* What the server takes from its socket belongs to the subnet it is looked up in.
LEMMA SubnetOfPacket ==
    ASSUME NEW m, Good(m), m.to = Server, m.pkt.op = 1, NEW n \in ForPacket(m.pkt.giaddr)
    PROVE  /\ n \in Subnets
           /\ m.from = Nil => n = Home
           /\ m.from # Nil => n = m.from
<1>1. m.from \in Nets \cup {Nil} /\ n \in Subnets /\ n \in Nets
  BY AddressFacts DEF Good, ForPacket
<1>2. isZero(m.pkt.giaddr) => n = Home
  BY AddressFacts DEF ForPacket, InNet, Agent
<1>3. CASE m.from = Nil
  BY <1>1, <1>2, <1>3, AddressFacts DEF Good, RequestPath
<1>4. CASE m.from # Nil
  <2>1. CASE m.pkt.giaddr = Zero /\ m.to = Port67(m.from)
    BY <1>1, <1>2, <1>4, <2>1, AddressFacts, DestinationFacts
  <2>2. CASE m.pkt.giaddr = Agent(m.from)
    BY <1>1, <1>4, <2>2, AddressFacts DEF ForPacket, InNet
  <2> QED BY <1>1, <1>4, <2>1, <2>2 DEF Good, RequestPath
<1> QED BY <1>3, <1>4

LEMMA AnswerGood ==
    ASSUME NEW m, Good(m), m.to = Server, m.pkt.op = 1, NEW n \in ForPacket(m.pkt.giaddr),
           NEW type \in {MsgOffer, MsgAck, MsgNak}, NEW yi \in Addresses \cup {Zero},
           type = MsgOffer => yi \in Addresses,
           \/ yi = Zero
           \/ GivenOn(n, yi) /\ m.pkt.ciaddr \in {Zero, yi}
    PROVE  Good(Datagram(sendReply(m.pkt), m.from, buildReply(m.pkt, type, yi)))
<1> DEFINE r == Datagram(sendReply(m.pkt), m.from, buildReply(m.pkt, type, yi))
<1>1. /\ m.pkt \in Packets /\ m.from \in Nets \cup {Nil}
      /\ m.pkt.giaddr \in {Agent(k) : k \in Nets} \cup {Zero}
      /\ m.pkt.ciaddr \in Addresses \cup {Zero}
  BY DEF Good, Packets
<1>2. \A ip \in Addresses : Host(ip) \in Destinations
  BY DEF Destinations
<1>3. sendReply(m.pkt) \in Destinations
  BY <1>1, <1>2, AddressFacts, DestinationFacts DEF sendReply
<1>4. r \in [to : Destinations, from : Nets \cup {Nil}, pkt : Packets]
  BY <1>1, <1>3, buildReplyTyped DEF Datagram
<1>5. r.to = sendReply(m.pkt) /\ r.from = m.from /\ r.pkt.op = 2 /\ r.pkt.yiaddr = yi
  BY DEF Datagram, buildReply
<1>6. r.to # Server /\ \A k \in Nets : r.to # Other(k)
  <2>1. \/ r.to = RelayAt(m.pkt.giaddr[1])
        \/ r.to = Link(Home)
        \/ r.to = Host(m.pkt.ciaddr)
    BY <1>5 DEF sendReply
  <2> HIDE DEF r
  <2>2. r.to[1] \in {"relay", "link", "host"}
    BY <2>1 DEF RelayAt, Link, Host
  <2> QED
    BY <2>2 DEF Server, Other
<1>7. ASSUME m.from # Nil
      PROVE  /\ ~isZero(yi) => GivenOn(m.from, yi)
             /\ \/ r.to \in {RelayAt(m.from), Link(m.from)}
                \/ \E ip \in Addresses : r.to = Host(ip) /\ HostOn(m.from, ip, yi)
  <2>1. n = m.from
    BY <1>7, SubnetOfPacket
  <2>2. CASE m.pkt.giaddr = Agent(m.from)
    BY <1>1, <1>5, <1>7, <2>1, <2>2, AddressFacts DEF sendReply
  <2>3. CASE m.pkt.giaddr = Zero /\ m.to = Port67(m.from)
    <3>1. m.from = Home /\ isZero(m.pkt.giaddr)
      BY <1>1, <1>7, <2>3, AddressFacts, DestinationFacts
    <3>2. CASE m.pkt.broadcast \/ isZero(m.pkt.ciaddr)
      BY <1>5, <2>1, <3>1, <3>2, AddressFacts DEF sendReply
    <3>3. CASE ~(m.pkt.broadcast \/ isZero(m.pkt.ciaddr))
      <4>1. m.pkt.ciaddr \in Addresses
        BY <1>1, <3>3, AddressFacts
      <4>2. r.to = Host(m.pkt.ciaddr) /\ HostOn(m.from, m.pkt.ciaddr, yi)
        BY <1>5, <3>1, <3>3, AddressFacts DEF sendReply, HostOn
      <4> QED BY <2>1, <4>1, <4>2, AddressFacts
    <3> QED BY <3>2, <3>3
  <2> QED BY <1>1, <1>7, <2>2, <2>3 DEF Good, RequestPath
<1>8. MsgType(r.pkt.options) = type
  BY ReplyFacts DEF Datagram, buildReply
<1>9. ReplyPath(r)
  <2>1. r.to # Socket(m.from)
    BY <1>5 DEF sendReply, RelayAt, Link, Host, Socket
  <2> QED BY <1>5, <1>6, <1>7, <1>8, <2>1 DEF ReplyPath
<1>10. RequestPath(r)
  BY <1>5 DEF RequestPath
<1> QED BY <1>4, <1>9, <1>10 DEF Good

\* What a relay hands to its own side.
LEMMA DeliverGood ==
    ASSUME NEW m, Good(m), m.pkt.op = 2, NEW n \in Nets,
           NEW to \in {Link(n)} \cup {Host(ip) : ip \in Addresses},
           m.to \in {RelayAt(n), Socket(n)},
           to # Link(n) => /\ to = Host(m.pkt.yiaddr) /\ ~isZero(m.pkt.yiaddr)
                           /\ m.to = Socket(n)
    PROVE  Good(Datagram(to, m.from, m.pkt))
<1> DEFINE r == Datagram(to, m.from, m.pkt)
<1>1. m.pkt \in Packets /\ m.from \in Nets \cup {Nil} /\ m.pkt.yiaddr \in Addresses \cup {Zero}
  BY DEF Good, Packets
<1>2. to \in Destinations
  BY DestinationFacts DEF Destinations
<1>3. r.to = to /\ r.from = m.from /\ r.pkt = m.pkt
  BY DEF Datagram
<1>4. r \in [to : Destinations, from : Nets \cup {Nil}, pkt : Packets]
  BY <1>1, <1>2 DEF Datagram
<1>5. to # Server /\ \A k \in Nets : to # Other(k)
  BY DEF Server, Other, Link, Host
<1>6. m.from # Nil => m.from = n
  <2>1. \A ip : m.to # Host(ip)
    BY DEF RelayAt, Socket, Host
  <2>2. m.to # Link(m.from) /\ (m.to = RelayAt(n) => m.to # Socket(m.from))
        /\ (m.to = Socket(n) => m.to # RelayAt(m.from))
    BY DEF RelayAt, Socket, Link
  <2> QED BY <1>1, <2>1, <2>2, DestinationFacts DEF Good, ReplyPath
<1>7. m.pkt.yiaddr \in Addresses \/ isZero(m.pkt.yiaddr)
  BY <1>1, AddressFacts
<1>8. ReplyPath(r)
  <2>1. to # Socket(n)
    BY DEF Socket, Link, Host
  <2>2. m.from # Nil /\ to # Link(n) => HostOn(n, m.pkt.yiaddr, m.pkt.yiaddr)
    BY <1>6 DEF Good, ReplyPath, HostOn
  <2> QED BY <1>3, <1>5, <1>6, <1>7, <2>1, <2>2 DEF Good, ReplyPath
<1>9. RequestPath(r)
  BY <1>3 DEF RequestPath
<1> QED BY <1>4, <1>8, <1>9 DEF Good

-----------------------------------------------------------------------------
(* The handlers *)

LEMMA LeaseFacts ==
    ASSUME NEW c \in Clients, NEW s \in {"reserved", "offered", "bound"}
    PROVE  /\ LeaseOf(c, s) \in Leases /\ Vacant \in Leases /\ Absent \in Leases
           /\ LeaseOf(c, s).owner = c /\ Vacant # Absent
  BY DEF LeaseOf, Leases, Vacant, Absent

LEMMA OffersHome ==
    ASSUME LeasesHome, NEW n \in Subnets, NEW c \in Clients, NEW o \in Options,
           NEW ip \in Offers(n, c, o)
    PROVE  ip \in Addresses /\ GivenOn(n, ip)
<1>1. CASE ip \in {i \in Addresses : lease[n][i] = Vacant}
  BY <1>1 DEF LeasesHome, Vacant, Absent
<1>2. CASE ip = Preferred(n, c, o) /\ ip # Nil
  <2>1. CASE Static[c] # Nil
    BY <1>2, <2>1, RelayAssumption DEF Preferred, GivenOn
  <2>2. CASE Static[c] = Nil /\ \E i \in Addresses : Holds(n, i, c, {"reserved", "offered", "bound"})
    <3>1. ip \in Addresses /\ Holds(n, ip, c, {"reserved", "offered", "bound"})
      BY <1>2, <2>2 DEF Preferred
    <3>2. lease[n][ip] # Absent
      BY <3>1 DEF Holds, Absent
    <3> QED BY <3>1, <3>2 DEF LeasesHome
  <2>3. CASE Static[c] = Nil /\ ~\E i \in Addresses : Holds(n, i, c, {"reserved", "offered", "bound"})
    <3>1. ip = RequestedIP(o) /\ InNet(n, RequestedIP(o))
      BY <1>2, <2>3 DEF Preferred
    <3> QED BY <1>2, <3>1, OptionsTyped DEF GivenOn
  <2> QED BY <2>1, <2>2, <2>3
<1> QED BY <1>1, <1>2 DEF Offers

\* A handler that has read the packet as it was meant keeps the invariant.
LEMMA HandlersKeepPaths ==
    ASSUME PathInv, NEW m \in net, m.to = Server, m.pkt.op = 1,
           NEW n \in ForPacket(m.pkt.giaddr),
           \/ handleDiscover(m, n, m.pkt.options)
           \/ handleRequest(m, n, m.pkt.options)
           \/ handleRelease(m, n, m.pkt.options)
           \/ handleInform(m, n, m.pkt.options)
    PROVE  (\A r \in net' : Good(r)) /\ LeasesHome'
<1> DEFINE o == m.pkt.options
           c == m.pkt.chaddr
<1>1. Good(m) /\ o \in Options /\ c \in Clients /\ m.pkt.ciaddr \in Addresses \cup {Zero}
      /\ n \in Subnets
  BY SubnetOfPacket DEF PathInv, Good, Packets
<1>2. LeasesHome /\ \A r \in net : Good(r)
  BY DEF PathInv
<1>3. RequestedIP(o) \in Addresses \cup {Nil}
  BY <1>1, OptionsTyped
<1>4. Replace(m, {}) => \A r \in net' : Good(r)
  BY <1>2 DEF Replace
<1>5. ASSUME NEW type \in {MsgOffer, MsgAck, MsgNak}, NEW yi \in Addresses \cup {Zero},
             type = MsgOffer => yi \in Addresses,
             \/ yi = Zero
             \/ GivenOn(n, yi) /\ m.pkt.ciaddr \in {Zero, yi},
             Answer(m, buildReply(m.pkt, type, yi))
      PROVE  \A r \in net' : Good(r)
  <2>1. Good(Datagram(sendReply(m.pkt), m.from, buildReply(m.pkt, type, yi)))
    BY <1>1, <1>5, AnswerGood
  <2> QED BY <1>2, <1>5, <2>1 DEF Answer, Replace
<1>6. lease' = lease => LeasesHome'
  BY <1>2 DEF LeasesHome
<1>7. CASE handleDiscover(m, n, o)
  <2>1. m.from # Nil
    BY <1>1, <1>7 DEF handleDiscover, Good, RequestPath
  <2>2. m.pkt.ciaddr = Zero
    BY <1>1, <1>7, <2>1 DEF handleDiscover, Good, RequestPath
  <2>3. ASSUME NEW ip \in Offers(n, c, o), Allocate(n, c, ip),
               Answer(m, buildReply(m.pkt, MsgOffer, ip))
        PROVE  (\A r \in net' : Good(r)) /\ LeasesHome'
    <3>1. ip \in Addresses /\ GivenOn(n, ip)
      BY <1>1, <1>2, <2>3, OffersHome
    <3>2. \A r \in net' : Good(r)
      BY <1>5, <2>2, <2>3, <3>1, AddressFacts
    <3>3. LeasesHome'
      BY <1>1, <1>2, <2>3, <3>1, LeaseFacts DEF LeasesHome, Allocate
    <3> QED BY <3>2, <3>3
  <2> QED BY <1>4, <1>6, <1>7, <2>3 DEF handleDiscover
<1>8. CASE handleRequest(m, n, o)
  <2> DEFINE ip == Wanted(m.pkt, o)
  <2>1. ASSUME RenewOK(n, c, ip), lease' = [lease EXCEPT ![n][ip].state = "bound"],
               Answer(m, buildReply(m.pkt, MsgAck, ip))
        PROVE  (\A r \in net' : Good(r)) /\ LeasesHome'
    <3>1. ip \in Addresses
      BY <1>1, <1>3, <2>1, AddressFacts DEF Wanted, RenewOK
    <3>2. lease[n][ip] \in Leases /\ lease[n][ip].owner = c
          /\ lease[n][ip].state \in {"offered", "bound"}
      BY <1>1, <1>2, <2>1, <3>1 DEF LeasesHome, RenewOK, Holds
    <3>3. GivenOn(n, ip)
      BY <1>1, <1>2, <3>1, <3>2 DEF LeasesHome, Absent
    <3>0. m.pkt.ciaddr \in {Zero, ip}
      BY <1>1, AddressFacts DEF Wanted
    <3>4. \A r \in net' : Good(r)
      BY <1>1, <1>5, <2>1, <3>0, <3>1, <3>3 DEF MsgAck, MsgOffer
    <3>5. [lease[n][ip] EXCEPT !.state = "bound"] \in Leases
      BY <3>2 DEF Leases, Vacant, Absent
    <3>6. LeasesHome'
      BY <1>1, <1>2, <2>1, <3>1, <3>3, <3>5 DEF LeasesHome
    <3> QED BY <3>4, <3>6
  <2>2. ASSUME Answer(m, buildReply(m.pkt, MsgNak, Zero)), lease' = lease
        PROVE  (\A r \in net' : Good(r)) /\ LeasesHome'
    BY <1>5, <1>6, <2>2, AddressFacts DEF MsgNak, MsgOffer
  <2> QED BY <1>4, <1>6, <1>8, <2>1, <2>2 DEF handleRequest
<1>9. CASE handleRelease(m, n, o)
  <2>1. ASSUME ~isZero(m.pkt.ciaddr), lease[n][m.pkt.ciaddr].owner = c,
               lease' = [lease EXCEPT ![n][m.pkt.ciaddr] = Vacant]
        PROVE  LeasesHome'
    <3>1. m.pkt.ciaddr \in Addresses
      BY <1>1, <2>1, AddressFacts
    <3>2. lease[n][m.pkt.ciaddr] # Absent
      BY <1>1, <2>1, RelayAssumption DEF Absent
    <3> QED BY <1>1, <1>2, <2>1, <3>1, <3>2, LeaseFacts DEF LeasesHome
  <2> QED BY <1>4, <1>6, <1>9, <2>1 DEF handleRelease
<1>10. CASE handleInform(m, n, o)
  BY <1>5, <1>6, <1>10, AddressFacts DEF handleInform, MsgAck, MsgOffer
<1> QED BY <1>7, <1>8, <1>9, <1>10

-----------------------------------------------------------------------------
(* The invariant *)

LEMMA PathInvMeans ==
    PathInv => RelayTypeOK /\ OwnSubnet /\ RepliesGoBack /\ Understood
<1> SUFFICES ASSUME PathInv PROVE RelayTypeOK /\ OwnSubnet /\ RepliesGoBack /\ Understood
  OBVIOUS
<1>1. RelayTypeOK
  BY DEF PathInv, Good, LeasesHome, Located, ClientsTyped, RelayTypeOK
<1>2. OwnSubnet
  BY DEF PathInv, Good, ReplyPath, OwnSubnet, GivenOn
<1>3. RepliesGoBack
  BY DEF PathInv, Good, ReplyPath, RepliesGoBack, HostOn
<1>4. Understood
  <2>1. \A m \in net : m.pkt.options \in Options
    BY DEF PathInv, Good, Packets
  <2>2. ASSUME NEW o \in Options PROVE Readings(o) = {o}
    BY OptionsWellFormed, RoundTrip, SerializeSome DEF Readings
  <2> QED BY <2>1, <2>2 DEF Understood
<1> QED BY <1>1, <1>2, <1>3, <1>4

LEMMA InitPaths == Init => PathInv
<1> SUFFICES ASSUME Init PROVE PathInv
  OBVIOUS
<1>1. \A m \in net : Good(m)
  BY DEF Init
<1>2. LeasesHome
  <2>1. \A n \in Subnets : lease[n] = [ip \in Addresses |->
                  IF ~InNet(n, ip) THEN Absent
                  ELSE IF \E c \in Clients : Static[c] = ip
                  THEN LeaseOf(CHOOSE c \in Clients : Static[c] = ip, "reserved") ELSE Vacant]
    BY DEF Init
  <2>2. \A ip \in Addresses : (\E c \in Clients : Static[c] = ip)
                               => (CHOOSE c \in Clients : Static[c] = ip) \in Clients
    OBVIOUS
  <2>3. ASSUME NEW n \in Subnets, NEW ip \in Addresses
        PROVE  lease[n][ip] \in Leases /\ (lease[n][ip] # Absent => InNet(n, ip))
    <3>0. lease[n][ip] =
            IF ~InNet(n, ip) THEN Absent
            ELSE IF \E c \in Clients : Static[c] = ip
            THEN LeaseOf(CHOOSE c \in Clients : Static[c] = ip, "reserved") ELSE Vacant
      BY <2>1
    <3>1. CASE InNet(n, ip) /\ \E c \in Clients : Static[c] = ip
      <4> DEFINE owner == CHOOSE c \in Clients : Static[c] = ip
      <4>1. owner \in Clients
        BY <2>2, <3>1
      <4>2. lease[n][ip] = LeaseOf(owner, "reserved")
        BY <3>0, <3>1
      <4> HIDE DEF owner
      <4> QED BY <3>1, <4>1, <4>2, LeaseFacts
    <3>2. CASE ~(InNet(n, ip) /\ \E c \in Clients : Static[c] = ip)
      <4>1. lease[n][ip] = Absent \/ (InNet(n, ip) /\ lease[n][ip] = Vacant)
        BY <3>0, <3>2
      <4> QED BY <4>1 DEF Leases
    <3> QED BY <3>1, <3>2
  <2>4. lease \in [Subnets -> [Addresses -> Leases]]
    BY <2>3 DEF Init
  <2> QED BY <2>3, <2>4 DEF LeasesHome, GivenOn
<1>3. Located
  BY DEF Init, Located
<1>4. ClientsTyped
  BY DEF Init, Believes, ClientsTyped
<1> QED BY <1>1, <1>2, <1>3, <1>4 DEF PathInv

LEMMA ClientsKeepPaths ==
    ASSUME PathInv, NEW c \in Clients, ClientStep(c)
    PROVE  PathInv'
<1>1. /\ at[c] \in Nets
      /\ client[c].ip \in Addresses \cup {Nil} /\ client[c].st \in {"init", "offered", "bound"}
      /\ client[c].st # "init" => client[c].ip \in Addresses
  BY DEF PathInv, Located, ClientsTyped
<1>2. /\ \A m \in net : Good(m)
      /\ UNCHANGED lease => LeasesHome'
      /\ UNCHANGED at => Located'
      /\ UNCHANGED client => ClientsTyped'
      /\ \A st \in {"init", "offered"} :
            (client' = [client EXCEPT ![c].st = st] /\ (st = "init" \/ client[c].ip # Nil))
               => ClientsTyped'
  <2>1. /\ \A m \in net : Good(m)
        /\ UNCHANGED lease => LeasesHome'
        /\ UNCHANGED at => Located'
        /\ UNCHANGED client => ClientsTyped'
    BY DEF PathInv, LeasesHome, Located, ClientsTyped
  <2>2. ASSUME NEW st \in {"init", "offered"}, client' = [client EXCEPT ![c].st = st],
               st = "init" \/ client[c].ip # Nil
        PROVE  ClientsTyped'
    BY <2>2 DEF PathInv, ClientsTyped
  <2> QED BY <2>1, <2>2
<1>0. \A b \in Flags[c] : b \in BOOLEAN
  BY RelayAssumption
<1>3. ASSUME NEW ci \in Addresses \cup {Zero}, NEW b \in BOOLEAN,
             NEW type \in {MsgDiscover, MsgRequest, MsgInform},
             NEW server \in {Nil, Agent(Home), OtherServer}, NEW ip \in Addresses \cup {Nil},
             type = MsgDiscover => ci = Zero,
             Broadcast(c, Request(c, ci, b, RequestOptions(type, server, ip)))
      PROVE  /\ \A m \in net' : Good(m)
             /\ LeasesHome' /\ Located'
  <2>1. RequestOptions(type, server, ip) \in Options
        /\ MsgType(RequestOptions(type, server, ip)) = type
    BY RequestFacts
  <2>2. Good(Datagram(Port67(at[c]), at[c], Request(c, ci, b, RequestOptions(type, server, ip))))
    BY <1>1, <1>3, <2>1, BroadcastGood
  <2> QED BY <1>2, <1>3, <2>2 DEF Broadcast
<1>4. ASSUME client[c].ip \in Addresses, NEW b \in BOOLEAN, NEW type \in {MsgRequest, MsgRelease},
             ToServer(c, Request(c, client[c].ip, b, RequestOptions(type, Nil, Nil)))
      PROVE  /\ \A m \in net' : Good(m)
             /\ LeasesHome' /\ Located'
  BY <1>2, <1>4, UnicastGood DEF ToServer
<1>5. MsgRequest # MsgDiscover /\ MsgInform # MsgDiscover
  BY DEF MsgRequest, MsgInform, MsgDiscover
<1>6. ASSUME NEW b \in Flags[c], NEW hint \in {Nil, client[c].ip}, SendDiscover(c, hint, b)
      PROVE  PathInv'
  BY <1>0, <1>1, <1>2, <1>3, <1>6 DEF SendDiscover, PathInv
<1>7. ASSUME NEW b \in Flags[c], NEW server \in {Agent(Home), OtherServer}, SendRequest(c, server, b)
      PROVE  PathInv'
  BY <1>0, <1>1, <1>2, <1>3, <1>5, <1>7 DEF SendRequest, PathInv
<1>8. ASSUME NEW b \in Flags[c], SendReboot(c, b)
      PROVE  PathInv'
  BY <1>0, <1>1, <1>2, <1>3, <1>5, <1>8 DEF SendReboot, PathInv
<1>9. ASSUME NEW b \in Flags[c], SendRenew(c, b)
      PROVE  PathInv'
  BY <1>0, <1>1, <1>2, <1>4, <1>9 DEF SendRenew, PathInv
<1>10. ASSUME NEW b \in Flags[c], SendRebind(c, b) \/ SendInform(c, b)
      PROVE  PathInv'
  BY <1>0, <1>1, <1>2, <1>3, <1>5, <1>10 DEF SendRebind, SendInform, PathInv
<1>11. CASE SendRelease(c)
  BY <1>1, <1>2, <1>4, <1>11 DEF SendRelease, PathInv
<1>12. CASE Restart(c)
  BY <1>2, <1>12 DEF Restart, PathInv
<1>13. ASSUME NEW n \in Roams[c], Move(c, n)
      PROVE  PathInv'
  <2>1. n \in Nets
    BY RelayAssumption
  <2>2. Located'
    BY <1>13, <2>1 DEF Move, PathInv, Located
  <2> QED BY <1>2, <1>13, <2>2 DEF Move, PathInv
<1>14. ASSUME NEW m \in net, Receive(c, m)
      PROVE  PathInv'
  <2>1. m.pkt.op = 2 /\ ReplyPath(m)
    BY <1>2, <1>14 DEF Receive, Good
  <2>2. PICK o \in Readings(m.pkt.options) :
          client' = [client EXCEPT ![c] =
            CASE MsgType(o) = MsgOffer /\ @.st = "init" -> Believes("offered", m.pkt.yiaddr)
              [] MsgType(o) = MsgAck /\ @.st = "offered" /\ @.ip = m.pkt.yiaddr
                   -> Believes("bound", m.pkt.yiaddr)
              [] MsgType(o) = MsgNak /\ @.st # "init" -> Believes("init", Nil)
              [] OTHER -> @]
    BY <1>14 DEF Receive
  <2>3. o = m.pkt.options
    BY PathInvMeans DEF Understood
  <2> DEFINE type == MsgType(o)
  <2>4. type = MsgOffer => m.pkt.yiaddr \in Addresses
    BY <2>1, <2>3 DEF ReplyPath
  <2>5. /\ client[c] \in [st : {"init", "offered", "bound"}, ip : Addresses \cup {Nil}]
        /\ client[c].st # "init" => client[c].ip # Nil
        /\ client \in [Clients -> [st : {"init", "offered", "bound"}, ip : Addresses \cup {Nil}]]
        /\ \A k \in Clients : client[k].st # "init" => client[k].ip # Nil
    BY DEF PathInv, ClientsTyped
  <2>6. /\ client'[c] \in [st : {"init", "offered", "bound"}, ip : Addresses \cup {Nil}]
        /\ client'[c].st # "init" => client'[c].ip # Nil
        /\ client' = [client EXCEPT ![c] = client'[c]]
    <3> HIDE DEF type
    <3>1. client' = [client EXCEPT ![c] =
            CASE type = MsgOffer /\ client[c].st = "init" -> Believes("offered", m.pkt.yiaddr)
              [] type = MsgAck /\ client[c].st = "offered" /\ client[c].ip = m.pkt.yiaddr
                   -> Believes("bound", m.pkt.yiaddr)
              [] type = MsgNak /\ client[c].st # "init" -> Believes("init", Nil)
              [] OTHER -> client[c]]
      BY <2>2 DEF type
    <3>2. client' = [client EXCEPT ![c] = client'[c]] /\ client'[c] =
            CASE type = MsgOffer /\ client[c].st = "init" -> Believes("offered", m.pkt.yiaddr)
              [] type = MsgAck /\ client[c].st = "offered" /\ client[c].ip = m.pkt.yiaddr
                   -> Believes("bound", m.pkt.yiaddr)
              [] type = MsgNak /\ client[c].st # "init" -> Believes("init", Nil)
              [] OTHER -> client[c]
      BY <2>5, <3>1
    <3> QED BY <2>4, <2>5, <3>2, AddressFacts DEF Believes, MsgOffer, MsgAck, MsgNak
  <2>7. ClientsTyped'
    BY <2>5, <2>6 DEF ClientsTyped
  <2> QED BY <1>2, <1>14, <2>7 DEF Receive, Replace, PathInv
<1> QED BY <1>6, <1>7, <1>8, <1>9, <1>10, <1>11, <1>12, <1>13, <1>14, ClientStep(c) DEF ClientStep

LEMMA NextKeepsPaths ==
    ASSUME PathInv, [Next]_vars
    PROVE  PathInv'
<1>1. /\ UNCHANGED lease => LeasesHome'
      /\ UNCHANGED at => Located'
      /\ UNCHANGED client => ClientsTyped'
      /\ \A m \in net : Good(m)
  BY DEF PathInv, LeasesHome, Located, ClientsTyped
<1>2. ASSUME NEW m \in net, Lose(m)
      PROVE  PathInv'
  BY <1>1, <1>2 DEF Lose, Replace, PathInv
<1>3. ASSUME NEW m \in net, handlePacket(m)
      PROVE  PathInv'
  <2>1. PICK o \in Readings(m.pkt.options), n \in ForPacket(m.pkt.giaddr) :
          \/ handleDiscover(m, n, o)
          \/ handleRequest(m, n, o)
          \/ handleRelease(m, n, o)
          \/ handleInform(m, n, o)
    BY <1>3 DEF handlePacket
  <2>2. o = m.pkt.options
    BY PathInvMeans DEF Understood
  <2>3. (\A r \in net' : Good(r)) /\ LeasesHome'
    BY <1>3, <2>1, <2>2, HandlersKeepPaths DEF handlePacket
  <2> QED BY <1>1, <1>3, <2>3 DEF handlePacket, PathInv
<1>4. ASSUME NEW n \in Nets \ {Home}, NEW m \in net, forwardToServer(m, n)
      PROVE  PathInv'
  <2>1. m.pkt.op = 1 => Good(Datagram(UpstreamOf(n), m.from, Stamped(m.pkt, n)))
    BY <1>1, <1>4, ForwardGood DEF forwardToServer
  <2> QED BY <1>1, <1>4, <2>1 DEF forwardToServer, Replace, PathInv
<1>5. ASSUME NEW n \in Nets \ {Home}, NEW m \in net, forwardToClient(m, n)
      PROVE  PathInv'
  <2> DEFINE to == IF m.pkt.broadcast \/ isZero(m.pkt.yiaddr) THEN Link(n) ELSE Host(m.pkt.yiaddr)
  <2>1. m.to = Socket(n) /\ m.pkt.op \in {1, 2} /\ m.pkt.yiaddr \in Addresses \cup {Zero}
    BY <1>1, <1>5 DEF forwardToClient, Good, Packets
  <2>2. m.pkt.op = 2
    <3>1. Socket(n) # Server /\ \A k \in Nets : Socket(n) # Other(k) /\ Socket(n) # RelayAt(k)
                                /\ Socket(n) # Port67(k)
      BY DEF Socket, Server, Other, RelayAt, Port67
    <3> QED BY <1>1, <2>1, <3>1 DEF Good, RequestPath
  <2>3. to \in {Link(n)} \cup {Host(ip) : ip \in Addresses}
        /\ (to # Link(n) => to = Host(m.pkt.yiaddr) /\ ~isZero(m.pkt.yiaddr))
    BY <2>1, AddressFacts
  <2>4. Good(Datagram(to, m.from, m.pkt))
    BY <1>1, <2>1, <2>2, <2>3, DeliverGood
  <2> QED BY <1>1, <1>5, <2>4 DEF forwardToClient, Replace, PathInv
<1>6. ASSUME NEW n \in Nets \ {Home}, NEW m \in net, OtherRelay(m, n)
      PROVE  PathInv'
  <2>1. m.pkt.op \in {1, 2} /\ m.to = RelayAt(n)
    BY <1>1, <1>6 DEF OtherRelay, Good, Packets
  <2>2. m.pkt.op = 1 => Good(Datagram(UpstreamOf(n), m.from, Stamped(m.pkt, n)))
    BY <1>1, <2>1, ForwardGood
  <2>3. m.pkt.op = 2 => Good(Datagram(Link(n), m.from, m.pkt))
    BY <1>1, <2>1, DeliverGood
  <2> QED BY <1>1, <1>6, <2>1, <2>2, <2>3 DEF OtherRelay, Replace, PathInv
<1>7. ASSUME NEW n \in Nets \ {Home}, NEW m \in net, OtherAnswers(m, n)
      PROVE  PathInv'
  <2>1. m.to = Other(n) /\ m.pkt \in Packets /\ m.from \in Nets \cup {Nil}
    BY <1>1, <1>7 DEF OtherAnswers, Good
  <2>2. m.from = n
    <3>1. m.pkt.op = 1
      BY <1>1, <2>1 DEF Good, ReplyPath, Packets
    <3>2. Other(n) # Server /\ \A k \in Nets : Other(n) # Port67(k) /\ Other(n) # RelayAt(k)
      BY DEF Other, Server, RelayAt, Port67
    <3>3. m.from # Nil /\ m.to = Other(m.from)
      BY <1>1, <2>1, <3>1, <3>2 DEF Good, RequestPath
    <3> QED BY <2>1, <3>3 DEF Other
  <2>3. ASSUME NEW type \in {MsgOffer, MsgAck, MsgNak}, NEW yi \in Addresses \cup {Zero},
               type = MsgOffer => yi \in Addresses, isZero(yi) \/ InNet(n, yi)
        PROVE  Good(Datagram(Socket(n), m.from, buildReply(m.pkt, type, yi)))
    <3> DEFINE r == Datagram(Socket(n), m.from, buildReply(m.pkt, type, yi))
    <3>1. r \in [to : Destinations, from : Nets \cup {Nil}, pkt : Packets]
      BY <2>1, <2>3, buildReplyTyped, DestinationFacts DEF Datagram
    <3>2. /\ r.to = Socket(n) /\ r.from = n /\ r.pkt.op = 2 /\ r.pkt.yiaddr = yi
          /\ MsgType(r.pkt.options) = type
      BY <2>2, <2>3, ReplyFacts DEF Datagram, buildReply
    <3>3. Socket(n) # Server /\ \A k \in Nets : Socket(n) # Other(k)
      BY DEF Socket, Server, Other
    <3>4. RequestPath(r)
      BY <3>2 DEF RequestPath
    <3>5. ReplyPath(r)
      BY <2>3, <3>2, <3>3 DEF ReplyPath, GivenOn
    <3> QED BY <3>1, <3>4, <3>5 DEF Good
  <2>4. \A ip \in Pool(n) : ip \in Addresses /\ InNet(n, ip)
    BY AddressFacts DEF Pool, Addresses, InNet
  <2>5. \A r \in net' : Good(r)
    BY <1>1, <1>7, <2>3, <2>4, AddressFacts DEF OtherAnswers, Replace, MsgOffer, MsgAck, MsgNak
  <2> QED BY <1>1, <1>7, <2>5 DEF OtherAnswers, PathInv
<1>8. ASSUME NEW n \in Subnets, NEW ip \in Addresses, Reap(n, ip)
      PROVE  PathInv'
  <2>1. LeasesHome'
    BY <1>8 DEF Reap, PathInv, LeasesHome, Leases, Absent
  <2> QED BY <1>1, <1>8, <2>1 DEF Reap, PathInv
<1>9. CASE UNCHANGED vars
  BY <1>1, <1>9 DEF vars, PathInv
<1> QED BY <1>2, <1>3, <1>4, <1>5, <1>6, <1>7, <1>8, <1>9, ClientsKeepPaths, [Next]_vars DEF Next

-----------------------------------------------------------------------------
(* The theorems *)

LEMMA PathsKept == Spec => []PathInv
<1>1. Init => PathInv
  BY InitPaths
<1>2. PathInv /\ [Next]_vars => PathInv'
  BY NextKeepsPaths
<1> QED BY <1>1, <1>2, PTL DEF Spec

\* Packets, leases and clients are of their types, in every wiring of relays.
THEOREM RelayTypeCorrect == Spec => []RelayTypeOK
  BY PathsKept, PathInvMeans, PTL

\* The server answers a broadcast with an address of the network it came from
\* or with the static address of a device record (Server.handlePacket, ForPacket
\* and the choice of the address in handleDiscover), whichever relays are
\* between and wherever clients and devices move.
THEOREM AnswersOwnSubnet == Spec => []OwnSubnet
  BY PathsKept, PathInvMeans, PTL

\* Its answers travel to that network (Server.sendReply, forwardToClient), but
\* for one kind: on the server's own network, without a relay, to the address
\* in ciaddr, with no other address in the answer.
THEOREM AnswersGoBack == Spec => []RepliesGoBack
  BY PathsKept, PathInvMeans, PTL

\* Whoever takes a packet from the network reads the options that were meant
\* (Options.Serialize, ParseOptions).
THEOREM PacketsUnderstood == Spec => []Understood
  BY PathsKept, PathInvMeans, PTL

=============================================================================
