------------------------------ MODULE DhcpServer ------------------------------
(***************************************************************************)
(* One subnet of the running server: the dispatch loop that handles a      *)
(* packet to the end before it reads the next (internal/dhcp/server.go and *)
(* handler.go), the reaper, the device operations of the HTTP API          *)
(* (internal/ztp/manager.go) and the clients, all around one MemoryStore.  *)
(*                                                                         *)
(* A handler makes several calls to the store and the store's mutex is     *)
(* free between them, so every store call of a handler is a step of its    *)
(* own; what the handler read before is in its local variables d[w].  The  *)
(* reaper and the API run between any two of those steps.                  *)
(*                                                                         *)
(* A client has at most Window requests on their way to the server, which  *)
(* gets them in any order or not at all, and more than once if Duplicates  *)
(* is set; a reply reaches its client at once or never.                    *)
(***************************************************************************)
EXTENDS MemoryStore

CONSTANTS MACs,         \* hardware addresses of the clients
          PacketID,     \* [MACs -> Clients]: Packet.ClientID of their packets
          DeviceID,     \* [MACs -> Clients]: DeviceRecord.ClientID of their records
          Workers,      \* goroutines inside Dispatch: one in the server
          Kinds,        \* the message types the clients of an instance send
          Hints,        \* addresses that clients name without an OFFER for them
          Window,       \* bound: requests of one client under way
          Duplicates,   \* may the network deliver a request twice
          Devices,      \* the MACs that the API registers as devices
          StaticIPs,    \* the addresses that their records ask for
          Dynamic       \* stands for a device record without a StaticIP

ASSUME ServerAssumption ==
    /\ PacketID \in [MACs -> Clients] /\ IsInjective(PacketID)
    /\ DeviceID \in [MACs -> Clients] /\ IsInjective(DeviceID)
    /\ Devices \subseteq MACs /\ StaticIPs \subseteq IPs
    /\ Nil \notin IPs /\ Dynamic \notin IPs \cup {Nil} /\ Hints \subseteq IPs
    /\ Window \in Nat \ {0}
    /\ Duplicates \in BOOLEAN

VARIABLES d,        \* [Workers -> the local variables of a handler]
          devices,  \* [MACs -> StaticIP of the device record, or Dynamic; Nil without one]
          net,      \* [MACs -> the requests under way]
          client    \* [MACs -> what the client believes]

vars == <<lease, byIP, byClient, available, d, devices, net, client>>

ToServer == {"this", "other", "none"}   \* option 54 of a request

Message(t, mac, ci, opt50, server) ==
    [type |-> t, mac |-> mac, ciaddr |-> ci, opt50 |-> opt50, server |-> server]

Messages == [type : {"discover", "request", "release", "decline"}, mac : MACs,
             ciaddr : IPs \cup {Nil}, opt50 : IPs \cup {Nil}, server : ToServer]

PCs == {"idle", "prefer", "allocate", "next", "allocateNext", "get", "renew", "release", "decline"}

Idle == [pc |-> "idle", msg |-> Nil, static |-> Nil, ip |-> Nil, renewal |-> FALSE]

Unbound == [st |-> "init", ip |-> Nil]

-----------------------------------------------------------------------------
(* Clients, as cmd/dhcpclient plays them and RFC 2131 knows them *)

Send(mac, m) ==
    /\ m.type \in Kinds
    /\ Cardinality(net[mac]) < Window
    /\ net' = [net EXCEPT ![mac] = @ \cup {m}]
    /\ UNCHANGED <<lease, byIP, byClient, available, d, devices>>

\* DISCOVER, with option 50 naming an address of the network or without.
SendDiscover(mac, hint) ==
    /\ client[mac].st = "init"
    /\ Send(mac, Message("discover", mac, Nil, hint, "none"))
    /\ UNCHANGED client

\* The REQUEST that follows an OFFER, to this server or to another one.
SendRequest(mac, server) ==
    /\ client[mac].st = "offered"
    /\ Send(mac, Message("request", mac, Nil, client[mac].ip, server))
    /\ UNCHANGED client

\* A REQUEST for a remembered or made-up address, without an OFFER.
SendReboot(mac, ip) ==
    /\ client[mac].st = "init"
    /\ Send(mac, Message("request", mac, Nil, ip, "none"))
    /\ client' = [client EXCEPT ![mac] = [st |-> "offered", ip |-> ip]]

\* The REQUEST that renews a lease names the address in ciaddr.
SendRenew(mac) ==
    /\ client[mac].st = "bound"
    /\ Send(mac, Message("request", mac, client[mac].ip, Nil, "this"))
    /\ UNCHANGED client

SendRelease(mac) ==
    /\ client[mac].st = "bound"
    /\ Send(mac, Message("release", mac, client[mac].ip, Nil, "this"))
    /\ client' = [client EXCEPT ![mac] = Unbound]

SendDecline(mac) ==
    /\ client[mac].st = "bound"
    /\ Send(mac, Message("decline", mac, Nil, client[mac].ip, "this"))
    /\ client' = [client EXCEPT ![mac] = Unbound]

\* The client gives up: a timeout, a restart, or the end of its lease by its
\* own clock, which may come before the server's.
Forget(mac) ==
    /\ client[mac].st # "init"
    /\ client' = [client EXCEPT ![mac] = Unbound]
    /\ UNCHANGED <<lease, byIP, byClient, available, d, devices, net>>

Lose(mac) ==
    /\ \E m \in net[mac] : net' = [net EXCEPT ![mac] = @ \ {m}]
    /\ UNCHANGED <<lease, byIP, byClient, available, d, devices, client>>

-----------------------------------------------------------------------------
(* The dispatch loop *)

RequestedIP(m) == IF m.ciaddr # Nil THEN m.ciaddr ELSE m.opt50
DeclinedIP(m)  == IF m.opt50 # Nil THEN m.opt50 ELSE m.ciaddr

Go(w, pc) == d' = [d EXCEPT ![w].pc = pc]
Finish(w) == d' = [d EXCEPT ![w] = Idle]

\* The three replies, each delivered or lost.
Offer(mac, ip) ==
    client' \in {client, IF client[mac].st = "init"
                         THEN [client EXCEPT ![mac] = [st |-> "offered", ip |-> ip]]
                         ELSE client}
Ack(mac, ip) ==
    client' \in {client, IF client[mac].st # "init" /\ client[mac].ip = ip
                         THEN [client EXCEPT ![mac].st = "bound"]
                         ELSE client}
Nak(mac, ip) ==
    client' \in {client, IF client[mac].st # "init" /\ client[mac].ip = ip
                         THEN [client EXCEPT ![mac] = Unbound]
                         ELSE client}

StaticIP(mac) == IF devices[mac] \in IPs THEN devices[mac] ELSE Nil

\* handlePacket: the packet, the device record as it is now, and the handler.
handlePacket(w, m) ==
    /\ d[w].pc = "idle"
    /\ \/ net' = [net EXCEPT ![m.mac] = @ \ {m}]
       \/ Duplicates /\ UNCHANGED net
    /\ d' = [d EXCEPT ![w] =
               [Idle EXCEPT !.msg = m,
                            !.static = StaticIP(m.mac),
                            !.pc = CASE m.type = "discover" -> "prefer"
                                     [] m.type = "request"  -> "get"
                                     [] OTHER               -> m.type]]
    /\ UNCHANGED <<lease, byIP, byClient, available, devices, client>>

\* handleDiscover, up to its first Allocate: the static address, or that of a
\* lease byClient knows, or option 50.
Prefer(w) ==
    /\ d[w].pc = "prefer"
    /\ LET m == d[w].msg
           known == GetByClient(PacketID[m.mac])
           mine == IF known # Nil /\ known.state \in {"reserved", "offered", "bound"}
                   THEN known.ip ELSE Nil
           ip == IF d[w].static # Nil THEN d[w].static
                 ELSE IF mine # Nil THEN mine
                 ELSE m.opt50
       IN d' = [d EXCEPT ![w].ip = ip,
                         ![w].pc = IF ip = Nil THEN "next" ELSE "allocate"]
    /\ UNCHANGED <<lease, byIP, byClient, available, devices, net, client>>

\* An Allocate of handleDiscover succeeds: the OFFER goes out.
OfferIP(w) ==
    /\ Allocate(PacketID[d[w].msg.mac], d[w].ip)
    /\ Offer(d[w].msg.mac, d[w].ip)
    /\ Finish(w)
    /\ UNCHANGED <<devices, net>>

AllocatePreferred(w) ==
    /\ d[w].pc = "allocate"
    /\ \/ OfferIP(w)
       \/ /\ ~AllocateOK(PacketID[d[w].msg.mac], d[w].ip)
          /\ Go(w, "next")
          /\ UNCHANGED <<lease, byIP, byClient, available, devices, net, client>>

PickNext(w) ==
    /\ d[w].pc = "next"
    /\ \/ /\ NextAvailable
          /\ d' = [d EXCEPT ![w].ip = Head(available), ![w].pc = "allocateNext"]
       \/ /\ available = <<>>
          /\ Finish(w)
          /\ UNCHANGED <<lease, byIP, byClient, available>>
    /\ UNCHANGED <<devices, net, client>>

AllocateNext(w) ==
    /\ d[w].pc = "allocateNext"
    /\ \/ OfferIP(w)
       \/ /\ ~AllocateOK(PacketID[d[w].msg.mac], d[w].ip)
          /\ Finish(w)
          /\ UNCHANGED <<lease, byIP, byClient, available, devices, net, client>>

\* Faulty: any lease counts as a renewal.
GetForRequestAnyLease(w) ==
    /\ d[w].pc = "get"
    /\ d[w].msg.server # "other" /\ RequestedIP(d[w].msg) # Nil
    /\ d' = [d EXCEPT ![w].ip = RequestedIP(d[w].msg), ![w].pc = "renew",
                      ![w].renewal = Leased(RequestedIP(d[w].msg))]
    /\ UNCHANGED <<lease, byIP, byClient, available, devices, net, client>>

\* handleRequest, up to the Get whose answer decides between the events
\* "assigned" and "renewed".
GetForRequest(w) ==
    /\ d[w].pc = "get"
    /\ LET m == d[w].msg
           ip == RequestedIP(m)
           refused == ip = Nil \/ d[w].static \notin {Nil, ip}
       IN \/ /\ m.server = "other"
             /\ Finish(w)
             /\ UNCHANGED client
          \/ /\ m.server # "other" /\ refused
             /\ Finish(w)
             /\ Nak(m.mac, ip)
          \/ /\ m.server # "other" /\ ~refused
             /\ d' = [d EXCEPT ![w].ip = ip, ![w].pc = "renew",
                               ![w].renewal = InState(ip, {"bound"})]
             /\ UNCHANGED client
    /\ UNCHANGED <<lease, byIP, byClient, available, devices, net>>

\* Faulty: acknowledges what Renew refused.
RenewForRequestAlways(w) ==
    /\ d[w].pc = "renew"
    /\ Renew(PacketID[d[w].msg.mac], d[w].ip)
       \/ /\ ~RenewOK(PacketID[d[w].msg.mac], d[w].ip)
          /\ UNCHANGED <<lease, byIP, byClient, available>>
    /\ Ack(d[w].msg.mac, d[w].ip)
    /\ Finish(w)
    /\ UNCHANGED <<devices, net>>

RenewForRequest(w) ==
    /\ d[w].pc = "renew"
    /\ LET mac == d[w].msg.mac IN
       \/ /\ Renew(PacketID[mac], d[w].ip)
          /\ Ack(mac, d[w].ip)
       \/ /\ ~RenewOK(PacketID[mac], d[w].ip)
          /\ Nak(mac, d[w].ip)
          /\ UNCHANGED <<lease, byIP, byClient, available>>
    /\ Finish(w)
    /\ UNCHANGED <<devices, net>>

handleRelease(w) ==
    /\ d[w].pc = "release"
    /\ LET c == PacketID[d[w].msg.mac]
           ip == d[w].msg.ciaddr
       IN IF ip # Nil /\ OwnedBy(ip, c) THEN Release(c, ip)
          ELSE UNCHANGED <<lease, byIP, byClient, available>>
    /\ Finish(w)
    /\ UNCHANGED <<devices, net, client>>

handleDecline(w) ==
    /\ d[w].pc = "decline"
    /\ LET ip == DeclinedIP(d[w].msg)
       IN IF ip # Nil /\ Leased(ip) THEN Decline(ip)
          ELSE UNCHANGED <<lease, byIP, byClient, available>>
    /\ Finish(w)
    /\ UNCHANGED <<devices, net, client>>

-----------------------------------------------------------------------------
(* The reaper: one sweep is Expired, then Declined, each under the mutex *)

SweepExpired == Expired /\ UNCHANGED <<d, devices, net, client>>

SweepDeclined == Declined /\ UNCHANGED <<d, devices, net, client>>

-----------------------------------------------------------------------------
(* The API.  The ztp manager's lock keeps packet lookups out for the whole *)
(* operation, and the record is not part of the store, so one step.        *)

\* "Add or update": the record of a device is replaced, and what the old one
\* reserved is left as it is.
AddDevice(mac, ip) ==
    /\ ReserveOK(DeviceID[mac], ip)
    /\ Reserve(DeviceID[mac], ip)
       \/ (Leased(ip) /\ UNCHANGED <<lease, byIP, byClient, available>>)
    /\ devices' = [devices EXCEPT ![mac] = ip]
    /\ UNCHANGED <<d, net, client>>

\* A record without a static address, new or in place of another.
AddDynamicDevice(mac) ==
    /\ devices' = [devices EXCEPT ![mac] = Dynamic]
    /\ UNCHANGED <<lease, byIP, byClient, available, d, net, client>>

\* Faulty: deletes the record and leaves the reservation.
DeleteDeviceOnly(mac) ==
    /\ devices[mac] # Nil
    /\ devices' = [devices EXCEPT ![mac] = Nil]
    /\ UNCHANGED <<lease, byIP, byClient, available, d, net, client>>

\* A record is kept if its address cannot be unreserved.
DeleteDevice(mac) ==
    /\ \/ /\ devices[mac] \in IPs
          /\ Unreserve(devices[mac])
       \/ /\ devices[mac] = Dynamic
          /\ UNCHANGED <<lease, byIP, byClient, available>>
    /\ devices' = [devices EXCEPT ![mac] = Nil]
    /\ UNCHANGED <<d, net, client>>

-----------------------------------------------------------------------------
(* Time.  A client that measures its lease from its own REQUEST is past its *)
(* end when the server is.                                                  *)

DeadlinePasses(ip) ==
    /\ Elapse(ip)
    /\ client' = [mac \in MACs |->
                    IF client[mac] = [st |-> "bound", ip |-> ip] /\ OwnedBy(ip, PacketID[mac])
                    THEN Unbound ELSE client[mac]]
    /\ UNCHANGED <<d, devices, net>>

-----------------------------------------------------------------------------
Init ==
    /\ StoreInit
    /\ d = [w \in Workers |-> Idle]
    /\ devices = [mac \in MACs |-> Nil]
    /\ net = [mac \in MACs |-> {}]
    /\ client = [mac \in MACs |-> Unbound]

ClientStep(mac) ==
    \/ \E hint \in Hints \cup {Nil} : SendDiscover(mac, hint)
    \/ \E server \in {"this", "other"} : SendRequest(mac, server)
    \/ \E ip \in Hints : SendReboot(mac, ip)
    \/ SendRenew(mac)
    \/ SendRelease(mac)
    \/ SendDecline(mac)
    \/ Forget(mac)
    \/ Lose(mac)

Dispatch(w) ==
    \/ \E mac \in MACs : \E m \in net[mac] : handlePacket(w, m)
    \/ Prefer(w)
    \/ AllocatePreferred(w)
    \/ PickNext(w)
    \/ AllocateNext(w)
    \/ GetForRequest(w)
    \/ RenewForRequest(w)
    \/ handleRelease(w)
    \/ handleDecline(w)

Next ==
    \/ \E mac \in MACs : ClientStep(mac)
    \/ \E w \in Workers : Dispatch(w)
    \/ \E mac \in Devices :
          \/ \E ip \in StaticIPs : AddDevice(mac, ip)
          \/ AddDynamicDevice(mac)
          \/ DeleteDevice(mac)
    \/ \E ip \in IPs : DeadlinePasses(ip)
    \/ SweepExpired
    \/ SweepDeclined

Spec == Init /\ [][Next]_vars

-----------------------------------------------------------------------------
(* What the server promises *)

ServerTypeOK ==
    /\ TypeOK
    /\ d \in [Workers -> [pc : PCs, msg : Messages \cup {Nil}, static : IPs \cup {Nil},
                          ip : IPs \cup {Nil}, renewal : BOOLEAN]]
    /\ devices \in [MACs -> IPs \cup {Nil, Dynamic}]
    /\ net \in [MACs -> SUBSET Messages]
    /\ client \in [MACs -> [st : {"init", "offered", "bound"}, ip : IPs \cup {Nil}]]

\* A client that holds an ACK which it has neither let go nor outlived owns the
\* address in the store, as a bound lease: no interleaving of handlers, reaper
\* and API takes it away or gives it to another client.  Needs an orderly
\* network and no DECLINE, which the store accepts from anyone.
AckedIsBound ==
    \A mac \in MACs : client[mac].st = "bound" =>
        /\ OwnedBy(client[mac].ip, PacketID[mac])
        /\ InState(client[mac].ip, {"bound"})

\* handleRequest chooses between the events "assigned" and "renewed" from a Get
\* that precedes Renew; when Renew succeeds, what Get saw is still so.
RenewalFlagFresh ==
    \A w \in Workers :
        LET c == PacketID[d[w].msg.mac] IN
        (d[w].pc = "renew" /\ RenewOK(c, d[w].ip)) =>
            (d[w].renewal <=> InState(d[w].ip, {"bound"}))

\* The step that answers the renewal of a bound client leaves it bound.
AnswersRenewal ==
    \A w \in Workers :
        LET mac == d[w].msg.mac IN
        (d[w].pc = "renew" /\ d'[w].pc = "idle" /\ d[w].msg.ciaddr # Nil
           /\ client[mac] = [st |-> "bound", ip |-> d[w].ip])
        => client'[mac] = client[mac]

\* A bound client that renews is not refused, unless its device record now
\* asks for another address: nothing between its ACK and its next REQUEST, and
\* nothing between the handler's Get and its Renew, takes the lease away.
BoundNeverNaked == [][AnswersRenewal]_vars

\* A reservation in the store that no record of its owner asks for.
Orphan(ip) ==
    /\ InState(ip, {"reserved"})
    /\ \A mac \in MACs : devices[mac] = ip => DeviceID[mac] # LeaseAt(ip).clientID

\* design.md:394 wants a reservation to have its device record, always.  It loses
\* it in two ways only: AddDevice puts another record in the place of the one
\* that asked for the address, which then stays reserved; or a handler that
\* looked the device up before that offers it the old address again, and
\* Allocate takes the client's name off the new one (memory.go:121).  Deleting
\* a device leaves nothing behind, and nor does any other call, whatever handlers
\* and reaper do in between.
OrphanedOnlyByReplacing ==
    [][\A ip \in IPs : (~Orphan(ip) /\ Orphan(ip)') =>
          \/ \E mac \in MACs : devices[mac] = ip /\ devices'[mac] \notin {ip, Nil}
          \/ LeaseAt(ip)'.clientID = NoID]_vars

-----------------------------------------------------------------------------
(* What design.md says of the server and the code does not do *)

\* design.md:323, "Release() and the reaper both check whether a reservation
\* exists": the address of a device record stays out of the pool when the
\* device's own lease of it ends.
StaticKept ==
    [][\A mac \in MACs :
          (devices[mac] \in IPs /\ devices'[mac] = devices[mac]
             /\ OwnedBy(devices[mac], DeviceID[mac]))
          => devices[mac] \notin Range(available')]_vars

=============================================================================
